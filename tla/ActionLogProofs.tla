--------------------------- MODULE ActionLogProofs ---------------------------
(***************************************************************************)
(* Proofs about the review of an agent's edits: what a reject goes back to *)
(* is agreed, only the agent's edits are put up for review, and none is    *)
(* overlooked.                                                             *)
(*                                                                         *)
(* The texts maintain_diff has still to follow form a chain: from what it  *)
(* has seen, or is working out, through its queue to the buffer.  Each     *)
(* link is the user's, and what it changes is agreed, or it is the         *)
(* agent's, and what it changes is touched.                                *)
(***************************************************************************)
EXTENDS ActionLog, SequenceTheorems, TLAPS

Job == [at : {"opening", "none"}]
       \union [at : {"rebasing", "diffing"}, base : Content, text : Content]

TrackedBuffer ==
    [status : {"created", "modified", "deleted"}, existing : SUBSET Content,
     base : Content, unreviewed : SUBSET Spots, snapshot : Content, edited : BOOLEAN,
     queue : Seq(Update), job : Job, git : BOOLEAN, shown : SUBSET SUBSET Spots]

-----------------------------------------------------------------------------
(* What holds of a buffer that is tracked *)

Busy(t) == t.job.at \in {"rebasing", "diffing"}

\* The text that the queue goes on from, and where it ends.
Followed(t) == IF Busy(t) THEN t.job.text ELSE t.snapshot
Before(t, i) == IF i = 1 THEN Followed(t) ELSE t.queue[i - 1].text
LastText(t) == IF t.queue = <<>> THEN Followed(t) ELSE t.queue[Len(t.queue)].text

Changes(t, i) == Differ(Before(t, i), t.queue[i].text)

\* What the user changes is agreed.
UsersLinks(t, ag) ==
    \A i \in DOMAIN t.queue : t.queue[i].author = "user" =>
        \A s \in Changes(t, i) : t.queue[i].text[s] \in ag[s]

\* What the agent changes is touched.
AgentsLinks(t, to) ==
    \A i \in DOMAIN t.queue : t.queue[i].author = "agent" => Changes(t, i) \subseteq to

Agrees(text, ag) == \A s \in Spots : text[s] \in ag[s]

\* The texts a reject may go back to are agreed, those to come included.
Bases(t, ag) ==
    /\ Agrees(t.base, ag)
    /\ \A text \in t.existing : Agrees(text, ag)
    /\ Busy(t) => Agrees(t.job.base, ag)

\* What is up for review, or will be, is touched.
Reviewed(t, to) ==
    /\ t.unreviewed \subseteq to
    /\ Busy(t) => Differ(t.job.base, t.job.text) \subseteq to

\* An edit the task has seen is up for review.
Covered(t) == Differ(t.base, t.snapshot) \subseteq t.unreviewed

\* Nothing is shown at first; then it is what will be up for review.
Drawing(t) ==
    /\ t.job.at = "opening" => t.shown = {}
    /\ t.job.at = "diffing" => t.shown = {Differ(t.job.base, t.job.text)}

\* When the task has caught up, it is what is up for review.
Shown(t) ==
    t.job.at = "none" /\ t.queue = <<>> /\ t.shown # {} =>
        t.unreviewed = Differ(t.base, t.snapshot) /\ t.shown = {t.unreviewed}

\* All of it, of a buffer with a text; only a file the agent creates has a text
\* that was there before.
Solid(t, text, ag) ==
    /\ t \in TrackedBuffer
    /\ t.existing # {} => t.status = "created"
    /\ LastText(t) = text /\ UsersLinks(t, ag) /\ Bases(t, ag) /\ Covered(t) /\ Drawing(t)
Sound(t, text, ag) == Solid(t, text, ag) /\ Shown(t)
Traced(t, to) == AgentsLinks(t, to) /\ Reviewed(t, to)

\* The same, whether or not the buffer is tracked.
Log(t, text, ag, to, r) == t = Untracked \/ (Sound(t, text, ag) /\ (~r => Traced(t, to)))

Types ==
    /\ buffer \in Content /\ committed \in Content /\ exists \in BOOLEAN
    /\ undo \in [spots : SUBSET Spots, text : Content]
    /\ calls \in 0 .. MaxCalls
    /\ agreed \in [Spots -> SUBSET Text] /\ touched \subseteq Spots /\ raced \in BOOLEAN

Inv ==
    /\ Types
    /\ Agrees(committed, agreed)
    /\ Log(tracked, buffer, agreed, touched, raced)

-----------------------------------------------------------------------------
(* What a change of a tracked buffer leaves as it is *)

\* A text more is agreed.
LEMMA MoreAgreed ==
    ASSUME NEW t, NEW text, NEW ag, NEW ag2, \A s \in Spots : ag[s] \subseteq ag2[s],
           Sound(t, text, ag)
    PROVE  Sound(t, text, ag2)
<1>1. UsersLinks(t, ag2)
  BY DEF Sound, Solid, UsersLinks, Changes, Differ
<1>2. \A x : Agrees(x, ag) => Agrees(x, ag2)
  BY DEF Agrees
<1>3. Bases(t, ag2)
  BY <1>2 DEF Sound, Solid, Bases
<1> QED
  BY <1>1, <1>3 DEF Sound, Solid

\* A spot more is touched.
LEMMA MoreTouched ==
    ASSUME NEW t, NEW to, NEW to2, to \subseteq to2, Traced(t, to)
    PROVE  Traced(t, to2)
BY DEF Traced, AgentsLinks, Reviewed

\* What the status, the user's having edited and git's news are does not matter.
LEMMA Alike ==
    ASSUME NEW t, NEW u \in TrackedBuffer, NEW text, NEW ag, Sound(t, text, ag),
           u.base = t.base, u.unreviewed = t.unreviewed, u.snapshot = t.snapshot,
           u.queue = t.queue, u.job = t.job, u.shown = t.shown,
           u.existing \subseteq t.existing, u.existing # {} => u.status = "created"
    PROVE  /\ Sound(u, text, ag)
           /\ \A to : Traced(t, to) => Traced(u, to)
<1>1. Busy(u) <=> Busy(t)
  BY DEF Busy
<1>2. Followed(u) = Followed(t)
  BY <1>1 DEF Followed
<1>3. LastText(u) = LastText(t) /\ \A i : Before(u, i) = Before(t, i)
  BY <1>2 DEF LastText, Before
<1>4. \A i : Changes(u, i) = Changes(t, i)
  BY <1>3 DEF Changes
<1>5. UsersLinks(u, ag)
  BY <1>4 DEF UsersLinks, Sound, Solid
<1>6. Bases(u, ag) /\ Covered(u) /\ Drawing(u) /\ Shown(u)
  BY <1>1 DEF Bases, Covered, Drawing, Shown, Sound, Solid
<1>7. \A to : Traced(t, to) => Traced(u, to)
  BY <1>1, <1>4 DEF Traced, AgentsLinks, Reviewed
<1> QED
  BY <1>3, <1>5, <1>6, <1>7 DEF Sound, Solid

\* An edit is put into the queue.
LEMMA ScheduledFields ==
    ASSUME NEW t \in TrackedBuffer, NEW author \in {"agent", "user"}, NEW text \in Content
    PROVE  LET u == Scheduled(t, author, text) IN
           /\ u \in TrackedBuffer
           /\ u.status = t.status /\ u.existing = t.existing /\ u.base = t.base
           /\ u.unreviewed = t.unreviewed /\ u.snapshot = t.snapshot /\ u.edited = t.edited
           /\ u.job = t.job /\ u.git = t.git /\ u.shown = t.shown
           /\ u.queue = Append(t.queue, [author |-> author, text |-> text])
<1> DEFINE e == [author |-> author, text |-> text]
           q == Append(t.queue, e)
           u == Scheduled(t, author, text)
<1>1. e \in Update /\ t.queue \in Seq(Update)
  BY DEF Update, TrackedBuffer
<1>2. q \in Seq(Update)
  BY <1>1, AppendProperties
<1>3. u = [t EXCEPT !.queue = q]
  BY DEF Scheduled
<1> HIDE DEF q, u
<1>4. u \in TrackedBuffer
  BY <1>2, <1>3 DEF TrackedBuffer
<1>5. /\ u.status = t.status /\ u.existing = t.existing /\ u.base = t.base
      /\ u.unreviewed = t.unreviewed /\ u.snapshot = t.snapshot /\ u.edited = t.edited
      /\ u.job = t.job /\ u.git = t.git /\ u.shown = t.shown /\ u.queue = q
  BY <1>3 DEF TrackedBuffer
<1> QED
  BY <1>4, <1>5 DEF u, q

\* The new text follows the last one; a change by the user is agreed, one by the
\* agent is touched.
LEMMA SolidIsSound ==
    ASSUME NEW t, NEW text, NEW ag, Solid(t, text, ag),
           NEW author \in {"agent", "user"}, NEW new \in Content,
           author = "user" => \A s \in Differ(text, new) : new[s] \in ag[s]
    PROVE  /\ Sound(Scheduled(t, author, new), new, ag)
           /\ \A to : Traced(t, to) /\ (author = "agent" => Differ(text, new) \subseteq to)
                => Traced(Scheduled(t, author, new), to)
<1> DEFINE u == Scheduled(t, author, new)
           e == [author |-> author, text |-> new]
           q == t.queue
           n == Len(q)
<1>1. t \in TrackedBuffer
  BY DEF Sound, Solid
<1>2. /\ u \in TrackedBuffer
      /\ u.status = t.status /\ u.existing = t.existing /\ u.base = t.base
      /\ u.unreviewed = t.unreviewed /\ u.snapshot = t.snapshot
      /\ u.job = t.job /\ u.shown = t.shown
      /\ u.queue = Append(q, e)
  BY <1>1, ScheduledFields
<1>3. q \in Seq(Update) /\ e \in Update /\ e.author = author /\ e.text = new
  BY <1>1 DEF Update, TrackedBuffer
<1> HIDE DEF u, e, q
<1>4. /\ n \in Nat /\ DOMAIN q = 1 .. n
      /\ Len(u.queue) = n + 1 /\ DOMAIN u.queue = 1 .. (n + 1)
      /\ (\A i \in 1 .. n : u.queue[i] = q[i]) /\ u.queue[n + 1] = e
      /\ (q = <<>> <=> n = 0) /\ u.queue # <<>>
  <2>1. n \in Nat /\ DOMAIN q = 1 .. n /\ (q = <<>> <=> n = 0)
    BY <1>3, LenProperties, EmptySeq
  <2>2. u.queue \in Seq(Update) /\ Len(u.queue) = n + 1
        /\ (\A i \in 1 .. n : u.queue[i] = q[i]) /\ u.queue[n + 1] = e
    BY <1>2, <1>3, AppendProperties
  <2>3. DOMAIN u.queue = 1 .. (n + 1) /\ u.queue # <<>>
    BY <2>1, <2>2, LenProperties, EmptySeq
  <2> QED
    BY <2>1, <2>2, <2>3
<1>5. (Busy(u) <=> Busy(t)) /\ Followed(u) = Followed(t)
  BY <1>2 DEF Busy, Followed
<1>6. LastText(u) = new
  BY <1>3, <1>4 DEF LastText
<1>7. \A i \in 1 .. n : Changes(u, i) = Changes(t, i)
  <2> SUFFICES ASSUME NEW i \in 1 .. n PROVE Before(u, i) = Before(t, i)
    BY <1>4 DEF Changes, q
  <2>1. i # 1 => i - 1 \in 1 .. n
    BY <1>4
  <2> QED
    BY <1>4, <1>5, <2>1 DEF Before, q
<1>8. Changes(u, n + 1) = Differ(text, new)
  <2>1. CASE q = <<>>
    <3>1. Before(u, n + 1) = Followed(t)
      BY <1>4, <1>5, <2>1 DEF Before
    <3>2. Followed(t) = text
      BY <2>1 DEF Sound, Solid, LastText, q
    <3> QED
      BY <1>3, <1>4, <3>1, <3>2 DEF Changes
  <2>2. CASE q # <<>>
    <3>1. n + 1 # 1 /\ (n + 1) - 1 = n /\ n \in 1 .. n
      BY <1>4, <2>2
    <3>2. Before(u, n + 1) = q[n].text
      BY <1>4, <3>1 DEF Before
    <3>3. q[n].text = text
      BY <2>2 DEF Sound, Solid, LastText, q
    <3> QED
      BY <1>3, <1>4, <3>2, <3>3 DEF Changes
  <2> QED
    BY <2>1, <2>2
<1>9. \A i \in DOMAIN u.queue : i \in 1 .. n \/ i = n + 1
  BY <1>4
<1>10. UsersLinks(u, ag)
  <2> SUFFICES ASSUME NEW i \in DOMAIN u.queue, u.queue[i].author = "user", NEW s \in Changes(u, i)
               PROVE  u.queue[i].text[s] \in ag[s]
    BY DEF UsersLinks
  <2>1. CASE i \in 1 .. n
    BY <1>4, <1>7, <2>1 DEF Sound, Solid, UsersLinks, q
  <2>2. CASE i = n + 1
    BY <1>3, <1>4, <1>8, <2>2
  <2> QED
    BY <1>9, <2>1, <2>2
<1>11. ASSUME NEW to, Traced(t, to), author = "agent" => Differ(text, new) \subseteq to
       PROVE  Traced(u, to)
  <2>1. ASSUME NEW i \in DOMAIN u.queue, u.queue[i].author = "agent" PROVE Changes(u, i) \subseteq to
    <3>1. CASE i \in 1 .. n
      BY <1>4, <1>7, <1>11, <2>1, <3>1 DEF Traced, AgentsLinks, q
    <3>2. CASE i = n + 1
      BY <1>3, <1>4, <1>8, <1>11, <2>1, <3>2
    <3> QED
      BY <1>9, <3>1, <3>2
  <2>2. Reviewed(u, to)
    BY <1>2, <1>5, <1>11 DEF Traced, Reviewed
  <2> QED
    BY <2>1, <2>2 DEF Traced, AgentsLinks
<1>12. Bases(u, ag) /\ Covered(u)
  BY <1>2, <1>5 DEF Sound, Solid, Bases, Covered
<1>13. Drawing(u) /\ Shown(u)
  BY <1>2, <1>4 DEF Sound, Solid, Drawing, Shown
<1>14. Sound(u, new, ag)
  BY <1>2, <1>6, <1>10, <1>12, <1>13 DEF Sound, Solid
<1> QED
  BY <1>11, <1>14 DEF u

\* The same of a sound buffer.
LEMMA ScheduledIsSound ==
    ASSUME NEW t, NEW text, NEW ag, Sound(t, text, ag),
           NEW author \in {"agent", "user"}, NEW new \in Content,
           author = "user" => \A s \in Differ(text, new) : new[s] \in ag[s]
    PROVE  /\ Sound(Scheduled(t, author, new), new, ag)
           /\ \A to : Traced(t, to) /\ (author = "agent" => Differ(text, new) \subseteq to)
                => Traced(Scheduled(t, author, new), to)
BY SolidIsSound DEF Sound

\* A buffer is tracked anew.
LEMMA NewIsSound ==
    ASSUME NEW status \in {"created", "modified", "deleted"}, NEW existing \in SUBSET Content,
           existing # {} => status = "created",
           NEW base \in Content, NEW unreviewed \in SUBSET Spots, NEW text \in Content,
           NEW ag, Agrees(base, ag), \A x \in existing : Agrees(x, ag),
           Differ(base, text) \subseteq unreviewed
    PROVE  LET u == New(status, existing, base, unreviewed, text) IN
           /\ Sound(u, text, ag) /\ u.status = status
           /\ Traced(u, unreviewed)
<1> DEFINE u == New(status, existing, base, unreviewed, text)
<1>1. /\ u.status = status /\ u.existing = existing /\ u.base = base
      /\ u.unreviewed = unreviewed /\ u.snapshot = text /\ u.queue = <<>>
      /\ u.job.at = "opening" /\ u.shown = {}
  BY DEF New
<1>2. u \in TrackedBuffer
  BY DEF New, TrackedBuffer, Job
<1> HIDE DEF u
<1>3. ~Busy(u) /\ DOMAIN u.queue = {}
  BY <1>1 DEF Busy
<1>4. LastText(u) = text /\ UsersLinks(u, ag) /\ AgentsLinks(u, unreviewed)
  BY <1>1, <1>3 DEF LastText, Followed, UsersLinks, AgentsLinks
<1>5. Bases(u, ag) /\ Covered(u) /\ Drawing(u) /\ Shown(u) /\ Reviewed(u, unreviewed)
  BY <1>1, <1>3 DEF Bases, Covered, Drawing, Shown, Reviewed
<1> QED
  BY <1>1, <1>2, <1>4, <1>5 DEF Sound, Solid, Traced, u

-----------------------------------------------------------------------------
(* The parts actions are made of *)

\* The invariant of the next state, part by part.
LEMMA Later ==
    ASSUME Types', Agrees(committed', agreed'), Log(tracked', buffer', agreed', touched', raced')
    PROVE  Inv'
BY DEF Inv, Types, Agrees, Log, Untracked, Sound, Solid, Traced, LastText, UsersLinks, AgentsLinks, Bases,
       Covered, Drawing, Shown, Reviewed, Changes, Before, Followed, Busy, Differ, TrackedBuffer, Job,
       Update, Content, Text, AgentText

\* The types, by the prover's light.
LEMMA TypesLater ==
    ASSUME buffer' \in Content, committed' \in Content, exists' \in BOOLEAN,
           undo' \in [spots : SUBSET Spots, text : Content], calls' \in 0 .. MaxCalls,
           agreed' \in [Spots -> SUBSET Text], touched' \subseteq Spots, raced' \in BOOLEAN
    PROVE  Types'
BY DEF Types, Content, Text, AgentText

\* A tracked buffer is sound, and has the fields of one.
LEMMA Fields ==
    ASSUME Inv, IsTracked
    PROVE  /\ Sound(tracked, buffer, agreed) /\ (~raced => Traced(tracked, touched))
           /\ tracked \in TrackedBuffer
           /\ tracked.base \in Content /\ tracked.snapshot \in Content
           /\ tracked.existing \subseteq Content /\ tracked.unreviewed \subseteq Spots
           /\ tracked.queue \in Seq(Update)
           /\ tracked.status \in {"created", "modified", "deleted"}
<1>1. Sound(tracked, buffer, agreed) /\ (~raced => Traced(tracked, touched))
  BY DEF Inv, Log, IsTracked, Untracked
<1>2. tracked \in TrackedBuffer
  BY <1>1 DEF Sound, Solid
<1> QED
  BY <1>1, <1>2 DEF TrackedBuffer

\* Not so one that is not.
LEMMA NotTracked == Inv /\ ~IsTracked => tracked = Untracked
BY DEF Inv, Log, IsTracked, Sound, Solid, TrackedBuffer

\* A new text at some spots.
LEMMA OverlaidText ==
    ASSUME NEW text \in Content, NEW spots, NEW new \in Content
    PROVE  /\ Overlaid(text, spots, new) \in Content
           /\ \A s \in Spots : s \in spots => Overlaid(text, spots, new)[s] = new[s]
           /\ \A s \in Spots : s \notin spots => Overlaid(text, spots, new)[s] = text[s]
BY DEF Overlaid, Content

\* What is agreed only grows, by the text that is agreed now.
LEMMA AgreedGrows ==
    ASSUME agreed \in [Spots -> SUBSET Text], NEW spots, NEW text \in Content
    PROVE  /\ Agreed(spots, text) \in [Spots -> SUBSET Text]
           /\ \A s \in Spots : agreed[s] \subseteq Agreed(spots, text)[s]
           /\ \A s \in Spots : s \in spots => text[s] \in Agreed(spots, text)[s]
BY DEF Agreed, Content

\* What is agreed still is.
LEMMA AgreesStill ==
    ASSUME NEW text, NEW ag, NEW ag2, \A s \in Spots : ag[s] \subseteq ag2[s], Agrees(text, ag)
    PROVE  Agrees(text, ag2)
BY DEF Agrees

\* A buffer that is tracked already is marked as the agent's, another is taken up.
LEMMA TrackIsSound ==
    ASSUME Inv, NEW text \in Content
    PROVE  /\ IsTracked => /\ Sound(Track(text), buffer, agreed)
                           /\ Track(text).status = tracked.status
                           /\ Track(text).base = tracked.base
                           /\ ~raced => Traced(Track(text), touched)
           /\ ~IsTracked => /\ \A ag : Agrees(text, ag) => Sound(Track(text), text, ag)
                            /\ Track(text).status = "modified"
                            /\ Track(text).base = text
                            /\ \A to : Traced(Track(text), to)
<1>1. CASE IsTracked
  <2> DEFINE u == [tracked EXCEPT !.edited = FALSE]
  <2>1. Track(text) = u
    BY <1>1 DEF Track
  <2>2. tracked \in TrackedBuffer /\ Sound(tracked, buffer, agreed)
        /\ (~raced => Traced(tracked, touched))
    BY <1>1, Fields
  <2>3. /\ u \in TrackedBuffer /\ u.status = tracked.status
        /\ u.base = tracked.base /\ u.unreviewed = tracked.unreviewed /\ u.snapshot = tracked.snapshot
        /\ u.queue = tracked.queue /\ u.job = tracked.job /\ u.shown = tracked.shown
        /\ u.existing = tracked.existing
    BY <2>2 DEF TrackedBuffer
  <2> HIDE DEF u
  <2>4. Sound(u, buffer, agreed) /\ (~raced => Traced(u, touched))
    BY <2>2, <2>3, Alike DEF Sound, Solid
  <2> QED
    BY <1>1, <2>1, <2>3, <2>4
<1>2. CASE ~IsTracked
  <2> DEFINE u == New("modified", {}, text, {}, text)
  <2>1. Track(text) = u /\ u.status = "modified" /\ u.base = text
    BY <1>2 DEF Track, New
  <2>2. Differ(text, text) = {}
    BY DEF Differ
  <2>3. ASSUME NEW ag, Agrees(text, ag) PROVE Sound(u, text, ag) /\ Traced(u, {})
    <3> HIDE DEF u
    <3> QED
      BY <2>2, <2>3, NewIsSound DEF u
  <2>4. Traced(u, {})
    <3>1. Agrees(text, [s \in Spots |-> {text[s]}])
      BY DEF Agrees
    <3> HIDE DEF u
    <3> QED
      BY <2>3, <3>1
  <2> HIDE DEF u
  <2>5. \A to : Traced(u, to)
    BY <2>4, MoreTouched
  <2> QED
    BY <1>2, <2>1, <2>3, <2>5
<1> QED
  BY <1>1, <1>2

\* An edit of the user's.
LEMMA EditedIsSound ==
    ASSUME Inv, IsTracked, NEW text \in Content, NEW ag,
           \A s \in Spots : agreed[s] \subseteq ag[s],
           \A s \in Differ(buffer, text) : text[s] \in ag[s]
    PROVE  Sound(Edited(text), text, ag) /\ (~raced => Traced(Edited(text), touched))
<1> DEFINE t == Scheduled(tracked, "user", text)
           u == [t EXCEPT !.edited = TRUE]
<1>1. Edited(text) = u
  BY DEF Edited
<1>2. Sound(tracked, buffer, ag) /\ (~raced => Traced(tracked, touched))
  BY Fields, MoreAgreed
<1>3. Sound(t, text, ag) /\ (~raced => Traced(t, touched))
  <2> HIDE DEF t
  <2> QED
    BY <1>2, ScheduledIsSound DEF t
<1>4. t \in TrackedBuffer
  BY <1>3 DEF Sound, Solid
<1> HIDE DEF t
<1>5. /\ u \in TrackedBuffer /\ u.status = t.status
      /\ u.base = t.base /\ u.unreviewed = t.unreviewed /\ u.snapshot = t.snapshot
      /\ u.queue = t.queue /\ u.job = t.job /\ u.shown = t.shown /\ u.existing = t.existing
  BY <1>4 DEF TrackedBuffer
<1> HIDE DEF u
<1>6. Sound(u, text, ag) /\ (~raced => Traced(u, touched))
  BY <1>3, <1>5, Alike DEF Sound, Solid
<1> QED
  BY <1>1, <1>6

-----------------------------------------------------------------------------
(* The agent, the user and the disk *)

\* What the parts of the invariant say of the values.
LEMMA Values ==
    ASSUME Inv
    PROVE  /\ buffer \in Content /\ committed \in Content /\ exists \in BOOLEAN
           /\ undo \in [spots : SUBSET Spots, text : Content]
           /\ undo.spots \subseteq Spots /\ undo.text \in Content
           /\ calls \in 0 .. MaxCalls
           /\ agreed \in [Spots -> SUBSET Text] /\ touched \subseteq Spots /\ raced \in BOOLEAN
           /\ Agrees(committed, agreed)
           /\ Log(tracked, buffer, agreed, touched, raced)
           /\ Blank \in Content /\ NoUndo \in [spots : SUBSET Spots, text : Content]
BY DEF Inv, Types, Blank, NoUndo, Content, Text

\* A call is counted within the bound.
LEMMA Counting == ASSUME Inv, Call PROVE calls' \in 0 .. MaxCalls
BY MaxCallsAssumption DEF Inv, Types, Call

\* A buffer that is tracked anew is agreed as it is.
LEMMA AgreedAnew ==
    ASSUME Inv, NEW text \in Content
    PROVE  /\ AgreedIfNew(text) \in [Spots -> SUBSET Text]
           /\ \A s \in Spots : agreed[s] \subseteq AgreedIfNew(text)[s]
           /\ IsTracked => AgreedIfNew(text) = agreed
           /\ ~IsTracked => Agrees(text, AgreedIfNew(text))
BY Values, AgreedGrows DEF AgreedIfNew, Agrees

\* A read tracks the buffer or tells the log of its version.
LEMMA AgentReadsStep == Inv /\ AgentReads => Inv'
<1> SUFFICES ASSUME Inv, AgentReads PROVE Inv'
  OBVIOUS
<1>1. /\ tracked' = Track(buffer) /\ agreed' = AgreedIfNew(buffer) /\ touched' = TouchedIf({})
      /\ UNCHANGED <<buffer, exists, committed, undo, raced>> /\ calls' \in 0 .. MaxCalls
  BY Counting DEF AgentReads, world
<1>2. agreed' \in [Spots -> SUBSET Text] /\ touched' \subseteq Spots
      /\ (\A s \in Spots : agreed[s] \subseteq agreed'[s])
      /\ (IsTracked => agreed' = agreed /\ touched' = touched)
      /\ (~IsTracked => Agrees(buffer, agreed'))
  BY <1>1, Values, AgreedAnew DEF TouchedIf
<1>3. Types'
  BY <1>1, <1>2, Values, TypesLater
<1>4. Agrees(committed', agreed')
  BY <1>1, <1>2, Values, AgreesStill
<1>5. Sound(tracked', buffer', agreed') /\ (~raced' => Traced(tracked', touched'))
  BY <1>1, <1>2, Values, TrackIsSound
<1> QED
  BY <1>3, <1>4, <1>5, Later DEF Log

\* An edit of the agent is queued as its own, and its spot is touched.
LEMMA AgentEditsStep == ASSUME NEW s \in Spots, Inv, AgentEdits(s) PROVE Inv'
<1> DEFINE t == Track(buffer')
           status == IF t.status = "deleted" THEN "modified" ELSE t.status
           u == [t EXCEPT !.status = status]
<1>1. /\ tracked' = Scheduled(u, "agent", buffer')
      /\ agreed' = AgreedIfNew(buffer') /\ touched' = TouchedIf({s})
      /\ UNCHANGED <<exists, committed, undo, raced>> /\ calls' \in 0 .. MaxCalls
  BY Counting DEF AgentEdits, world
<1>2. buffer' \in Content /\ Differ(buffer, buffer') \subseteq {s}
  <2>1. PICK text \in AgentText : buffer' = [buffer EXCEPT ![s] = text]
    BY DEF AgentEdits
  <2>2. text \in Text
    BY DEF Text
  <2> QED
    BY <2>1, <2>2, Values DEF Content, Differ
<1>3. agreed' \in [Spots -> SUBSET Text] /\ touched' \subseteq Spots
      /\ (\A x \in Spots : agreed[x] \subseteq agreed'[x])
      /\ (IsTracked => agreed' = agreed /\ touched' = touched \union {s})
      /\ (~IsTracked => Agrees(buffer', agreed'))
  BY <1>1, <1>2, Values, AgreedAnew DEF TouchedIf
<1>4. Types'
  BY <1>1, <1>2, <1>3, Values, TypesLater
<1>5. Agrees(committed', agreed')
  BY <1>1, <1>3, Values, AgreesStill
<1> DEFINE before == IF IsTracked THEN buffer ELSE buffer'
<1>6. Sound(t, before, agreed') /\ (~raced => Traced(t, touched'))
  <2>1. CASE IsTracked
    <3>1. Sound(t, buffer, agreed') /\ (~raced => Traced(t, touched))
      BY <1>2, <1>3, <2>1, TrackIsSound
    <3> HIDE DEF t
    <3> QED
      BY <1>3, <2>1, <3>1, MoreTouched
  <2>2. CASE ~IsTracked
    BY <1>2, <1>3, <2>2, TrackIsSound
  <2> QED
    BY <2>1, <2>2
<1>7. Sound(u, before, agreed') /\ (~raced => Traced(u, touched'))
  <2>1. t \in TrackedBuffer
    BY <1>6 DEF Sound, Solid
  <2> HIDE DEF t
  <2>2. t.existing # {} => t.status = "created"
    BY <1>6 DEF Sound, Solid
  <2>3. /\ u \in TrackedBuffer /\ u.status = status
        /\ u.base = t.base /\ u.unreviewed = t.unreviewed /\ u.snapshot = t.snapshot
        /\ u.queue = t.queue /\ u.job = t.job /\ u.shown = t.shown /\ u.existing = t.existing
    BY <2>1 DEF TrackedBuffer
  <2> HIDE DEF u, before
  <2> QED
    BY <1>6, <2>2, <2>3, Alike
<1>8. Differ(before, buffer') \subseteq touched'
  <2>1. CASE IsTracked
    BY <1>2, <1>3, <2>1
  <2>2. CASE ~IsTracked
    BY <2>2 DEF Differ
  <2> QED
    BY <2>1, <2>2
<1> HIDE DEF u, before
<1>9. Sound(tracked', buffer', agreed') /\ (~raced' => Traced(tracked', touched'))
  BY <1>1, <1>2, <1>7, <1>8, ScheduledIsSound
<1> QED
  BY <1>4, <1>5, <1>9, Later DEF Log

\* A created file is reviewed whole, against the text it had.
LEMMA AgentCreatesStep == Inv /\ AgentCreates => Inv'
<1> SUFFICES ASSUME Inv, AgentCreates PROVE Inv'
  OBVIOUS
<1> DEFINE existing ==
            CASE tracked.status = "created" -> tracked.existing
              [] tracked.status \in {"modified", "deleted"} -> {tracked.base}
              [] OTHER -> IF exists THEN {buffer} ELSE {}
           base == TextOf(existing)
<1>1. /\ tracked' = New("created", existing, base, Spots, buffer)
      /\ agreed' = IF IsTracked /\ existing # {} THEN agreed ELSE Agreed(Spots, base)
      /\ touched' = Spots
      /\ UNCHANGED <<buffer, exists, committed, undo, raced>> /\ calls' \in 0 .. MaxCalls
  BY Counting DEF AgentCreates, world
<1>2. existing \subseteq Content /\ (IsTracked => \A x \in existing : Agrees(x, agreed))
      /\ (~IsTracked => existing \subseteq {buffer})
  <2>1. CASE IsTracked
    <3>1. existing = tracked.existing \/ existing = {tracked.base}
      BY <2>1, Fields
    <3>2. \A x \in tracked.existing : Agrees(x, agreed)
      BY <2>1, Fields DEF Sound, Solid, Bases
    <3>3. Agrees(tracked.base, agreed)
      BY <2>1, Fields DEF Sound, Solid, Bases
    <3> QED
      BY <2>1, <3>1, <3>2, <3>3, Fields
  <2>2. CASE ~IsTracked
    <3>1. existing \subseteq {buffer}
      BY <2>2 DEF IsTracked
    <3> QED
      BY <2>2, <3>1, Values
  <2> QED
    BY <2>1, <2>2
<1> HIDE DEF existing
<1>3. (existing = {} => base = Blank) /\ (existing # {} => base \in existing) /\ base \in Content
  BY <1>2, Values DEF TextOf
<1> HIDE DEF base
<1>4. /\ agreed' \in [Spots -> SUBSET Text]
      /\ (\A s \in Spots : agreed[s] \subseteq agreed'[s])
      /\ Agrees(base, agreed') /\ \A x \in existing : Agrees(x, agreed')
  <2>1. CASE IsTracked /\ existing # {}
    BY <1>1, <1>2, <1>3, <2>1, Values
  <2>2. CASE ~(IsTracked /\ existing # {})
    <3>1. /\ agreed' \in [Spots -> SUBSET Text]
          /\ (\A s \in Spots : agreed[s] \subseteq agreed'[s])
          /\ Agrees(base, agreed')
      BY <1>1, <1>3, <2>2, Values, AgreedGrows DEF Agrees
    <3>2. \A x \in existing : x = base
      BY <1>2, <1>3, <2>2
    <3> QED
      BY <3>1, <3>2
  <2> QED
    BY <2>1, <2>2
<1>5. Types'
  BY <1>1, <1>4, Values, TypesLater
<1>6. Agrees(committed', agreed')
  BY <1>1, <1>4, Values, AgreesStill
<1>7. Differ(base, buffer) \subseteq Spots
  BY DEF Differ
<1>8. Sound(tracked', buffer', agreed') /\ Traced(tracked', touched')
  BY <1>1, <1>2, <1>3, <1>4, <1>7, Values, NewIsSound
<1> QED
  BY <1>5, <1>6, <1>8, Later DEF Log

\* A deletion empties a buffer that had a text, and ends the tracking of a new one.
LEMMA AgentDeletesStep == Inv /\ AgentDeletes => Inv'
<1> SUFFICES ASSUME Inv, AgentDeletes PROVE Inv'
  OBVIOUS
<1> DEFINE t == Track(buffer)
           u == [t EXCEPT !.status = "deleted", !.edited = TRUE]
<1>1. /\ agreed' = AgreedIfNew(buffer)
      /\ UNCHANGED <<exists, committed, undo, raced>> /\ calls' \in 0 .. MaxCalls
  BY Counting DEF AgentDeletes, world
<1>2. \/ tracked' = Untracked /\ UNCHANGED <<buffer, touched>>
      \/ t.status = "modified" /\ buffer' = Blank /\ tracked' = Blanked(u) /\ touched' = Spots
      \/ t.status = "deleted" /\ tracked' = t /\ UNCHANGED <<buffer, touched>>
  BY DEF AgentDeletes
<1>3. agreed' \in [Spots -> SUBSET Text]
      /\ (\A s \in Spots : agreed[s] \subseteq agreed'[s])
      /\ (IsTracked => agreed' = agreed)
      /\ (~IsTracked => Agrees(buffer, agreed'))
  BY <1>1, Values, AgreedAnew
<1>4. Types'
  BY <1>1, <1>2, <1>3, Values, TypesLater
<1>5. Agrees(committed', agreed')
  BY <1>1, <1>3, Values, AgreesStill
<1>6. Sound(t, buffer, agreed') /\ (~raced /\ IsTracked => Traced(t, touched))
      /\ (~IsTracked => t.status = "modified" /\ Traced(t, Spots))
  BY <1>3, Values, TrackIsSound
<1>7. ~raced => Traced(t, Spots)
  <2> HIDE DEF t
  <2> QED
    BY <1>6, Values, MoreTouched
<1>8. CASE tracked' = Untracked
  BY <1>4, <1>5, <1>8, Later DEF Log
<1>9. CASE t.status = "modified" /\ buffer' = Blank /\ tracked' = Blanked(u) /\ touched' = Spots
  <2>1. Sound(u, buffer, agreed') /\ (~raced => Traced(u, Spots))
    <3>1. t \in TrackedBuffer /\ (t.existing # {} => t.status = "created")
      BY <1>6 DEF Sound, Solid
    <3> HIDE DEF t
    <3>2. /\ u \in TrackedBuffer
          /\ u.base = t.base /\ u.unreviewed = t.unreviewed /\ u.snapshot = t.snapshot
          /\ u.queue = t.queue /\ u.job = t.job /\ u.shown = t.shown /\ u.existing = t.existing
      BY <3>1 DEF TrackedBuffer
    <3>3. t.existing = {}
      BY <1>9, <3>1
    <3> HIDE DEF u
    <3> QED
      BY <1>6, <1>7, <3>2, <3>3, Alike
  <2> HIDE DEF u
  <2> DEFINE v == Scheduled(u, "agent", Blank)
  <2>2. Differ(buffer, Blank) \subseteq Spots /\ Differ(Blank, Blank) = {}
    BY DEF Differ
  <2>3. Sound(v, Blank, agreed') /\ (~raced => Traced(v, Spots))
    BY <2>1, <2>2, Values, ScheduledIsSound
  <2>4. tracked' = Scheduled(v, "user", Blank)
    BY <1>9 DEF Blanked
  <2> HIDE DEF v
  <2>5. Sound(tracked', buffer', agreed') /\ (~raced' => Traced(tracked', touched'))
    BY <1>1, <1>9, <2>2, <2>3, <2>4, Values, ScheduledIsSound
  <2> QED
    BY <1>4, <1>5, <2>5, Later DEF Log
<1>10. CASE t.status = "deleted" /\ tracked' = t /\ UNCHANGED <<buffer, touched>>
  <2>1. IsTracked
    BY <1>6, <1>10
  <2>2. Sound(tracked', buffer', agreed') /\ (~raced' => Traced(tracked', touched'))
    BY <1>1, <1>6, <1>10, <2>1
  <2> QED
    BY <1>4, <1>5, <2>2, Later DEF Log
<1> QED
  BY <1>2, <1>8, <1>9, <1>10

\* An edit of the user is queued as the user's, and its text is agreed.
LEMMA UserEditsStep == ASSUME NEW s \in Spots, Inv, UserEdits(s) PROVE Inv'
<1>1. /\ tracked' = Edited(buffer') /\ agreed' = Agreed({s}, buffer')
      /\ UNCHANGED <<exists, committed, undo, touched, raced>> /\ calls' \in 0 .. MaxCalls
      /\ buffer' = [buffer EXCEPT ![s] = "user"]
  BY Counting DEF UserEdits, world
<1>2. buffer' \in Content /\ Differ(buffer, buffer') \subseteq {s}
  BY <1>1, Values DEF Content, Differ, Text
<1>3. /\ agreed' \in [Spots -> SUBSET Text]
      /\ (\A x \in Spots : agreed[x] \subseteq agreed'[x])
      /\ \A x \in Differ(buffer, buffer') : buffer'[x] \in agreed'[x]
  BY <1>1, <1>2, Values, AgreedGrows
<1>4. Types'
  BY <1>1, <1>2, <1>3, Values, TypesLater
<1>5. Agrees(committed', agreed')
  BY <1>1, <1>3, Values, AgreesStill
<1>6. CASE IsTracked
  <2>1. Sound(tracked', buffer', agreed') /\ (~raced' => Traced(tracked', touched'))
    BY <1>1, <1>2, <1>3, <1>6, EditedIsSound
  <2> QED
    BY <1>4, <1>5, <2>1, Later DEF Log
<1>7. CASE ~IsTracked
  <2>1. tracked' = Untracked
    BY <1>1, <1>7, NotTracked DEF Edited
  <2> QED
    BY <1>4, <1>5, <2>1, Later DEF Log
<1> QED
  BY <1>6, <1>7

\* A file that is gone is tracked no more, and one that is back is tracked anew.
LEMMA DiskChangesStep == Inv /\ DiskChanges => Inv'
<1> SUFFICES ASSUME Inv, DiskChanges PROVE Inv'
  OBVIOUS
<1> DEFINE n == New("modified", {}, buffer, {}, buffer)
<1>1. /\ exists' \in BOOLEAN /\ calls' \in 0 .. MaxCalls
      /\ UNCHANGED <<buffer, committed, undo, raced>>
  BY Counting DEF DiskChanges
<1>2. \/ (tracked' = Untracked \/ tracked' = tracked) /\ UNCHANGED <<agreed, touched>>
      \/ tracked' = n /\ agreed' = Agreed(Spots, buffer) /\ touched' = {}
  BY DEF DiskChanges
<1>3. CASE (tracked' = Untracked \/ tracked' = tracked) /\ UNCHANGED <<agreed, touched>>
  <2>1. Types' /\ Agrees(committed', agreed')
    BY <1>1, <1>3, Values, TypesLater
  <2>2. Log(tracked', buffer', agreed', touched', raced')
    BY <1>1, <1>3, Values DEF Log
  <2> QED
    BY <2>1, <2>2, Later
<1>4. CASE tracked' = n /\ agreed' = Agreed(Spots, buffer) /\ touched' = {}
  <2>1. /\ agreed' \in [Spots -> SUBSET Text]
        /\ (\A s \in Spots : agreed[s] \subseteq agreed'[s])
        /\ Agrees(buffer, agreed')
    BY <1>4, Values, AgreedGrows DEF Agrees
  <2>2. Types'
    BY <1>1, <1>4, <2>1, Values, TypesLater
  <2>3. Agrees(committed', agreed')
    BY <1>1, <2>1, Values, AgreesStill
  <2>4. Differ(buffer, buffer) = {}
    BY DEF Differ
  <2>5. Sound(n, buffer, agreed') /\ Traced(n, {})
    <3> HIDE DEF n
    <3> QED
      BY <2>1, <2>4, Values, NewIsSound DEF n
  <2> HIDE DEF n
  <2> QED
    BY <1>1, <1>4, <2>2, <2>3, <2>5, Later DEF Log
<1> QED
  BY <1>2, <1>3, <1>4

\* A commit makes the text the committed one, which is agreed.
LEMMA CommitStep == Inv /\ Commit => Inv'
<1> SUFFICES ASSUME Inv, Commit PROVE Inv'
  OBVIOUS
<1>1. PICK spots \in SUBSET Spots :
        committed' = Overlaid(committed, spots, buffer) /\ agreed' = Agreed(spots, buffer)
  BY DEF Commit
<1>2. /\ UNCHANGED <<buffer, exists, undo, touched, raced>> /\ calls' \in 0 .. MaxCalls
      /\ tracked' = IF IsTracked /\ tracked.job.at # "opening"
                    THEN [tracked EXCEPT !.git = TRUE] ELSE tracked
  BY Counting DEF Commit
<1>3. /\ agreed' \in [Spots -> SUBSET Text]
      /\ (\A s \in Spots : agreed[s] \subseteq agreed'[s])
      /\ \A s \in Spots : s \in spots => buffer[s] \in agreed'[s]
  BY <1>1, Values, AgreedGrows
<1>4. committed' \in Content /\ \A s \in Spots : committed'[s] = IF s \in spots THEN buffer[s] ELSE committed[s]
  BY <1>1, Values, OverlaidText
<1>5. Types'
  BY <1>2, <1>3, <1>4, Values, TypesLater
<1>6. Agrees(committed', agreed')
  BY <1>3, <1>4, Values DEF Agrees
<1>7. CASE IsTracked
  <2>1. Sound(tracked, buffer, agreed') /\ tracked \in TrackedBuffer
    BY <1>3, <1>7, Fields, MoreAgreed
  <2> DEFINE u == [tracked EXCEPT !.git = TRUE]
  <2>2. /\ u \in TrackedBuffer /\ u.status = tracked.status
        /\ u.base = tracked.base /\ u.unreviewed = tracked.unreviewed /\ u.snapshot = tracked.snapshot
        /\ u.queue = tracked.queue /\ u.job = tracked.job /\ u.shown = tracked.shown
        /\ u.existing = tracked.existing
    BY <2>1 DEF TrackedBuffer
  <2>3. tracked' = tracked \/ tracked' = u
    BY <1>2
  <2> HIDE DEF u
  <2>4. Sound(u, buffer, agreed') /\ \A to : Traced(tracked, to) => Traced(u, to)
    BY <2>1, <2>2, Alike DEF Sound, Solid
  <2>5. Sound(tracked', buffer', agreed') /\ (~raced' => Traced(tracked', touched'))
    BY <1>2, <1>7, <2>1, <2>3, <2>4, Fields
  <2> QED
    BY <1>5, <1>6, <2>5, Later DEF Log
<1>8. CASE ~IsTracked
  BY <1>2, <1>5, <1>6, <1>8, NotTracked, Later DEF Log
<1> QED
  BY <1>7, <1>8

-----------------------------------------------------------------------------
(* Reviews *)

\* What the user keeps of what the task has seen is agreed; what is left is still
\* touched, for nobody has changed what is kept since.
LEMMA KeepsIsSound ==
    ASSUME Inv, IsTracked, NEW kept \in SUBSET Spots, Kept(kept),
           NEW t \in TrackedBuffer, t.snapshot = tracked.snapshot, t.queue = tracked.queue,
           t.job = tracked.job, t.shown = tracked.shown,
           t.unreviewed = tracked.unreviewed \ kept,
           t.base \in Content,
           \A s \in Spots : t.base[s] = IF s \in kept THEN tracked.snapshot[s] ELSE tracked.base[s],
           t.existing \subseteq tracked.existing, t.existing # {} => t.status = "created",
           tracked' = Scheduled(t, "user", buffer),
           UNCHANGED <<buffer, exists, committed, undo>>, Call
    PROVE  Inv'
<1>1. /\ Sound(tracked, buffer, agreed) /\ (~raced => Traced(tracked, touched))
      /\ tracked \in TrackedBuffer /\ tracked.base \in Content /\ tracked.snapshot \in Content
      /\ tracked.queue \in Seq(Update)
  BY Fields
<1>2. /\ agreed' \in [Spots -> SUBSET Text]
      /\ (\A s \in Spots : agreed[s] \subseteq agreed'[s])
      /\ (\A s \in kept : tracked.snapshot[s] \in agreed'[s])
      /\ touched' \subseteq touched /\ raced' \in BOOLEAN
  BY <1>1, Values, AgreedGrows DEF Kept
<1>3. ~raced' => ~raced /\ ~Busy(tracked)
  BY Values DEF Kept, Busy
<1>4. Types'
  BY <1>2, Values, Counting, TypesLater
<1>5. Agrees(committed', agreed')
  BY <1>2, Values, AgreesStill
<1>6. (Busy(t) <=> Busy(tracked)) /\ Followed(t) = Followed(tracked)
  BY DEF Busy, Followed
<1>7. LastText(t) = LastText(tracked) /\ \A i : Before(t, i) = Before(tracked, i)
  BY <1>6 DEF LastText, Before
<1>8. \A i : Changes(t, i) = Changes(tracked, i)
  BY <1>7 DEF Changes
<1>9. Sound(tracked, buffer, agreed')
  BY <1>1, <1>2, MoreAgreed
<1>10. UsersLinks(t, agreed') /\ LastText(t) = buffer
  BY <1>7, <1>8, <1>9 DEF Sound, Solid, UsersLinks
<1>11. Bases(t, agreed')
  <2>1. Agrees(t.base, agreed')
    BY <1>2, <1>9 DEF Sound, Solid, Bases, Agrees
  <2> QED
    BY <1>6, <1>9, <2>1 DEF Sound, Solid, Bases
<1>12. Covered(t)
  BY <1>1 DEF Sound, Solid, Covered, Differ
<1>13. Drawing(t)
  BY <1>1 DEF Sound, Solid, Drawing
<1>14. ~raced' => Traced(t, touched')
  <2> SUFFICES ASSUME ~raced' PROVE Traced(t, touched')
    OBVIOUS
  <2>1. ~Busy(tracked) /\ Traced(tracked, touched)
    BY <1>1, <1>3
  <2>2. ASSUME NEW s \in touched, NEW i \in DOMAIN tracked.queue, s \in Changes(tracked, i), s \in Spots
        PROVE  s \in touched'
    <3> SUFFICES ASSUME \A text \in {update.text : update \in Range(tracked.queue)} :
                            text[s] = tracked.snapshot[s]
                 PROVE  FALSE
      BY <2>2 DEF Kept
    <3>1. \A j \in DOMAIN tracked.queue : tracked.queue[j].text[s] = tracked.snapshot[s]
      BY DEF Range
    <3>2. i = 1 \/ i - 1 \in DOMAIN tracked.queue
      <4>1. DOMAIN tracked.queue = 1 .. Len(tracked.queue) /\ Len(tracked.queue) \in Nat
        BY <1>1, LenProperties
      <4> QED
        BY <2>2, <4>1
    <3>3. Before(tracked, i)[s] = tracked.snapshot[s]
      BY <2>1, <3>1, <3>2 DEF Before, Followed
    <3> QED
      BY <2>2, <3>1, <3>3 DEF Changes, Differ
  <2>3. AgentsLinks(t, touched')
    <3> SUFFICES ASSUME NEW i \in DOMAIN tracked.queue, tracked.queue[i].author = "agent",
                        NEW s \in Changes(tracked, i)
                 PROVE  s \in touched'
      BY <1>8 DEF AgentsLinks
    <3>1. s \in touched
      BY <2>1 DEF Traced, AgentsLinks
    <3>2. s \in Spots
      BY <3>1, Values
    <3> QED
      BY <2>2, <3>1, <3>2
  <2>4. tracked.unreviewed \ kept \subseteq touched'
    BY <2>1 DEF Traced, Reviewed, Kept
  <2>5. Reviewed(t, touched')
    BY <1>6, <2>1, <2>4 DEF Reviewed
  <2> QED
    BY <2>3, <2>5 DEF Traced
<1>15. Solid(t, buffer, agreed')
  BY <1>10, <1>11, <1>12, <1>13 DEF Solid
<1>16. Differ(buffer, buffer) = {}
  BY DEF Differ
<1>17. Sound(tracked', buffer', agreed') /\ (~raced' => Traced(tracked', touched'))
  BY <1>14, <1>15, <1>16, Values, SolidIsSound
<1> QED
  BY <1>4, <1>5, <1>17, Later DEF Log

\* A buffer that is no longer tracked needs nothing more.
LEMMA Dropped ==
    ASSUME Inv, tracked' = Untracked, buffer' \in Content, exists' \in BOOLEAN,
           undo' \in [spots : SUBSET Spots, text : Content], Call,
           UNCHANGED <<committed, agreed, touched, raced>>
    PROVE  Inv'
<1>1. Types' /\ Agrees(committed', agreed')
  BY Values, Counting, TypesLater
<1> QED
  BY <1>1, Later DEF Log

\* A file of the agent's that becomes one of the user's.
LEMMA NoLongerNewFields ==
    ASSUME NEW t \in TrackedBuffer, t.existing # {} => t.status = "created"
    PROVE  LET u == NoLongerNew(t) IN
           /\ u \in TrackedBuffer /\ u.base = t.base /\ u.unreviewed = t.unreviewed
           /\ u.snapshot = t.snapshot /\ u.queue = t.queue /\ u.job = t.job /\ u.shown = t.shown
           /\ u.existing \subseteq t.existing /\ (u.existing # {} => u.status = "created")
BY DEF NoLongerNew, TrackedBuffer

\* Kept hunks go from the snapshot into the base.
LEMMA KeepStep == Inv /\ Keep => Inv'
<1> SUFFICES ASSUME Inv, Keep PROVE Inv'
  OBVIOUS
<1>1. UNCHANGED <<buffer, exists, committed, undo>> /\ Call
  BY DEF Keep, world
<1>2. PICK range \in Picked :
        LET kept == tracked.unreviewed \intersect range
            left == tracked.unreviewed \ kept
            t == IF left = {} THEN NoLongerNew(tracked) ELSE tracked IN
        IF tracked.status = "deleted" THEN tracked' = Untracked /\ UNCHANGED ghosts
        ELSE /\ tracked' = Scheduled([t EXCEPT !.unreviewed = left,
                    !.base = Overlaid(@, kept, tracked.snapshot)], "user", buffer)
             /\ Kept(kept)
  BY DEF Keep
<1>3. IsTracked
  BY <1>2 DEF Picked
<1> DEFINE kept == tracked.unreviewed \intersect range
           left == tracked.unreviewed \ kept
           t == IF left = {} THEN NoLongerNew(tracked) ELSE tracked
           base == Overlaid(t.base, kept, tracked.snapshot)
           u == [t EXCEPT !.unreviewed = left, !.base = base]
<1>4. CASE tracked.status = "deleted"
  BY <1>1, <1>2, <1>4, Values, Dropped DEF ghosts
<1>5. CASE tracked.status # "deleted"
  <2>1. tracked' = Scheduled(u, "user", buffer) /\ Kept(kept)
    BY <1>2, <1>5
  <2>2. /\ tracked \in TrackedBuffer /\ tracked.unreviewed \subseteq Spots
        /\ tracked.base \in Content /\ tracked.snapshot \in Content
        /\ (tracked.existing # {} => tracked.status = "created")
    BY <1>3, Fields DEF Sound, Solid
  <2>3. kept \subseteq Spots /\ left \subseteq Spots
    BY <2>2
  <2>4. /\ t \in TrackedBuffer /\ t.base = tracked.base /\ t.unreviewed = tracked.unreviewed
        /\ t.snapshot = tracked.snapshot /\ t.queue = tracked.queue /\ t.job = tracked.job
        /\ t.shown = tracked.shown /\ t.existing \subseteq tracked.existing
        /\ (t.existing # {} => t.status = "created")
    <3> HIDE DEF left
    <3> QED
      BY <2>2, NoLongerNewFields
  <2> HIDE DEF t
  <2>5. /\ base \in Content
        /\ \A s \in Spots : base[s] = IF s \in kept THEN tracked.snapshot[s] ELSE tracked.base[s]
    <3> HIDE DEF kept
    <3> QED
      BY <2>2, <2>4, OverlaidText
  <2> HIDE DEF base
  <2>6. left = tracked.unreviewed \ kept
    OBVIOUS
  <2> HIDE DEF left, kept
  <2>7. /\ u \in TrackedBuffer /\ u.status = t.status /\ u.existing = t.existing
        /\ u.base = base /\ u.unreviewed = left /\ u.snapshot = t.snapshot
        /\ u.queue = t.queue /\ u.job = t.job /\ u.shown = t.shown
    BY <2>3, <2>4, <2>5 DEF TrackedBuffer
  <2> HIDE DEF u
  <2> QED
    BY <1>1, <1>3, <2>1, <2>3, <2>4, <2>5, <2>6, <2>7, KeepsIsSound
<1> QED
  BY <1>4, <1>5

\* Keeping all makes the snapshot the base, or ends the tracking of a deleted file.
LEMMA KeepAllStep == Inv /\ KeepAll => Inv'
<1> SUFFICES ASSUME Inv, KeepAll PROVE Inv'
  OBVIOUS
<1> DEFINE t == NoLongerNew(tracked)
           u == [t EXCEPT !.unreviewed = {}, !.base = tracked.snapshot]
<1>1. UNCHANGED <<buffer, exists, committed, undo>> /\ Call /\ IsTracked
  BY DEF KeepAll, world
<1>2. CASE tracked.status = "deleted"
  <2>1. tracked' = Untracked /\ UNCHANGED ghosts
    BY <1>2 DEF KeepAll
  <2> QED
    BY <1>1, <2>1, Values, Dropped DEF ghosts
<1>3. CASE tracked.status # "deleted"
  <2>1. tracked' = Scheduled(u, "user", buffer) /\ Kept(Spots)
    BY <1>3 DEF KeepAll
  <2>2. /\ tracked \in TrackedBuffer /\ tracked.unreviewed \subseteq Spots
        /\ tracked.base \in Content /\ tracked.snapshot \in Content
        /\ (tracked.existing # {} => tracked.status = "created")
    BY <1>1, Fields DEF Sound, Solid
  <2>3. /\ t \in TrackedBuffer /\ t.base = tracked.base /\ t.unreviewed = tracked.unreviewed
        /\ t.snapshot = tracked.snapshot /\ t.queue = tracked.queue /\ t.job = tracked.job
        /\ t.shown = tracked.shown /\ t.existing \subseteq tracked.existing
        /\ (t.existing # {} => t.status = "created")
    BY <2>2, NoLongerNewFields
  <2> HIDE DEF t
  <2>4. /\ u \in TrackedBuffer /\ u.status = t.status /\ u.existing = t.existing
        /\ u.base = tracked.snapshot /\ u.unreviewed = {} /\ u.snapshot = t.snapshot
        /\ u.queue = t.queue /\ u.job = t.job /\ u.shown = t.shown
    BY <2>2, <2>3 DEF TrackedBuffer
  <2>5. {} = tracked.unreviewed \ Spots
    BY <2>2
  <2> HIDE DEF u
  <2> QED
    BY <1>1, <2>1, <2>2, <2>3, <2>4, <2>5, KeepsIsSound
<1> QED
  BY <1>2, <1>3

\* A reject of a modified buffer puts base texts back, as edits of the user.
LEMMA RejectModifiedStep ==
    ASSUME Inv, Call, IsTracked, NEW range, RejectModified(range)
    PROVE  Inv'
<1> DEFINE hit == tracked.unreviewed \intersect range
<1>1. /\ buffer' = Overlaid(buffer, hit, tracked.base)
      /\ tracked' = IF hit = {} THEN tracked ELSE Edited(buffer')
      /\ undo' = undo \/ undo' = NoUndo \/ undo' = [spots |-> hit, text |-> buffer]
      /\ UNCHANGED <<exists, committed, agreed, touched, raced>>
  BY DEF RejectModified, NothingToUndo, world, ghosts
<1>2. /\ tracked.base \in Content /\ hit \subseteq Spots
      /\ Sound(tracked, buffer, agreed) /\ (~raced => Traced(tracked, touched))
      /\ Agrees(tracked.base, agreed)
  BY Fields DEF Sound, Solid, Bases
<1> HIDE DEF hit
<1>3. /\ buffer' \in Content
      /\ \A s \in Spots : s \in hit => buffer'[s] = tracked.base[s]
      /\ \A s \in Spots : s \notin hit => buffer'[s] = buffer[s]
  BY <1>1, <1>2, Values, OverlaidText
<1>4. undo' \in [spots : SUBSET Spots, text : Content]
  BY <1>1, <1>2, Values
<1>5. Types' /\ Agrees(committed', agreed')
  BY <1>1, <1>3, <1>4, Values, Counting, TypesLater
<1>6. CASE hit = {}
  <2>1. buffer' = buffer
    BY <1>3, <1>6, Values DEF Content
  <2> QED
    BY <1>1, <1>2, <1>5, <1>6, <2>1, Later DEF Log
<1>7. CASE hit # {}
  <2>1. \A s \in Differ(buffer, buffer') : buffer'[s] \in agreed[s]
    BY <1>2, <1>3 DEF Differ, Agrees
  <2>2. Sound(tracked', buffer', agreed') /\ (~raced' => Traced(tracked', touched'))
    BY <1>1, <1>3, <1>7, <2>1, EditedIsSound
  <2> QED
    BY <1>5, <2>2, Later DEF Log
<1> QED
  BY <1>6, <1>7

\* A reject goes back to texts that are agreed.
LEMMA RejectStep == Inv /\ Reject => Inv'
<1> SUFFICES ASSUME Inv, Reject PROVE Inv'
  OBVIOUS
<1>1. PICK range \in Picked :
        \/ RejectModified(range) \/ RejectDeleted \/ RejectOverwritten
        \/ DeleteCreated \/ SpareCreated
  BY DEF Reject
<1>2. IsTracked /\ Call
  BY <1>1 DEF Picked, Reject
<1>3. CASE RejectModified(range)
  BY <1>2, <1>3, RejectModifiedStep
<1>4. CASE RejectDeleted
  <2> DEFINE n == New("modified", {}, buffer', {}, buffer')
  <2>1. /\ buffer' = tracked.base /\ tracked' = n /\ touched' = {}
        /\ (undo' = undo \/ undo' = NoUndo)
        /\ UNCHANGED <<exists, committed, agreed, raced>>
    BY <1>4 DEF RejectDeleted, NothingToUndo, world
  <2>2. buffer' \in Content /\ Agrees(buffer', agreed)
    BY <1>2, <2>1, Fields DEF Sound, Solid, Bases
  <2>3. Types' /\ Agrees(committed', agreed')
    BY <1>2, <2>1, <2>2, Values, Counting, TypesLater
  <2>4. Differ(buffer', buffer') = {}
    BY DEF Differ
  <2>5. Sound(n, buffer', agreed) /\ Traced(n, {})
    <3> HIDE DEF n
    <3> QED
      BY <2>2, <2>4, NewIsSound DEF n
  <2> HIDE DEF n
  <2> QED
    BY <2>1, <2>3, <2>5, Later DEF Log
<1>5. CASE RejectOverwritten
  <2>1. /\ tracked.existing # {} /\ buffer' = TextOf(tracked.existing) /\ tracked' = Untracked
        /\ undo' = [spots |-> Spots, text |-> buffer]
        /\ UNCHANGED <<exists, committed, agreed, touched, raced>>
    BY <1>5 DEF RejectOverwritten, world, ghosts
  <2>2. buffer' \in tracked.existing
    BY <2>1 DEF TextOf
  <2>3. buffer' \in Content
    BY <1>2, <2>2, Fields
  <2> QED
    BY <1>2, <2>1, <2>3, Values, Dropped
<1>6. CASE DeleteCreated \/ SpareCreated
  <2>1. /\ tracked' = Untracked /\ (undo' = undo \/ undo' = NoUndo) /\ exists' \in BOOLEAN
        /\ UNCHANGED <<buffer, committed, agreed, touched, raced>>
    BY <1>6, Values DEF DeleteCreated, SpareCreated, NothingToUndo, world, ghosts
  <2> QED
    BY <1>2, <2>1, Values, Dropped
<1> QED
  BY <1>1, <1>3, <1>4, <1>5, <1>6

\* An undone reject brings its spots back as edits of the user.
LEMMA UndoStep == Inv /\ Undo => Inv'
<1> SUFFICES ASSUME Inv, Undo PROVE Inv'
  OBVIOUS
<1>1. /\ undo' = NoUndo /\ buffer' = Overlaid(buffer, undo.spots, undo.text)
      /\ tracked' = IF IsTracked THEN Edited(buffer') ELSE Scheduled(Track(buffer'), "agent", buffer')
      /\ agreed' = Agreed(IF IsTracked THEN undo.spots ELSE Spots, buffer')
      /\ touched' = TouchedIf({}) /\ Call
      /\ UNCHANGED <<exists, committed, raced>>
  BY DEF Undo, world
<1>2. /\ buffer' \in Content
      /\ \A s \in Spots : s \notin undo.spots => buffer'[s] = buffer[s]
  BY <1>1, Values, OverlaidText
<1>3. /\ agreed' \in [Spots -> SUBSET Text] /\ touched' \subseteq Spots
      /\ (\A s \in Spots : agreed[s] \subseteq agreed'[s])
      /\ (IsTracked => touched' = touched /\ \A s \in Spots : s \in undo.spots => buffer'[s] \in agreed'[s])
      /\ (~IsTracked => Agrees(buffer', agreed'))
  BY <1>1, <1>2, Values, AgreedGrows DEF Agrees, TouchedIf
<1>4. Types'
  BY <1>1, <1>2, <1>3, Values, Counting, TypesLater
<1>5. Agrees(committed', agreed')
  BY <1>1, <1>3, Values, AgreesStill
<1>6. CASE IsTracked
  <2>1. \A s \in Differ(buffer, buffer') : buffer'[s] \in agreed'[s]
    BY <1>2, <1>3, <1>6 DEF Differ
  <2>2. Sound(tracked', buffer', agreed') /\ (~raced' => Traced(tracked', touched'))
    BY <1>1, <1>2, <1>3, <1>6, <2>1, EditedIsSound
  <2> QED
    BY <1>4, <1>5, <2>2, Later DEF Log
<1>7. CASE ~IsTracked
  <2>1. Sound(Track(buffer'), buffer', agreed') /\ Traced(Track(buffer'), touched')
    BY <1>2, <1>3, <1>7, TrackIsSound
  <2>2. Differ(buffer', buffer') = {}
    BY DEF Differ
  <2>3. Sound(tracked', buffer', agreed') /\ (~raced' => Traced(tracked', touched'))
    BY <1>1, <1>2, <1>7, <2>1, <2>2, ScheduledIsSound
  <2> QED
    BY <1>4, <1>5, <2>3, Later DEF Log
<1> QED
  BY <1>6, <1>7

-----------------------------------------------------------------------------
(* maintain_diff *)

\* The task changes nothing but what it keeps of the buffer.
LEMMA TaskStep ==
    ASSUME Inv, UNCHANGED <<buffer, exists, committed, undo, calls, agreed, touched, raced>>,
           Sound(tracked', buffer, agreed), ~raced => Traced(tracked', touched)
    PROVE  Inv'
<1>1. Types' /\ Agrees(committed', agreed')
  BY Values, TypesLater
<1> QED
  BY <1>1, Later DEF Log

\* A change of the job that leaves the queue.
LEMMA SameQueue ==
    ASSUME NEW t, NEW text, NEW ag, Sound(t, text, ag),
           NEW u \in TrackedBuffer, u.queue = t.queue, Followed(u) = Followed(t),
           u.existing = t.existing, u.status = t.status
    PROVE  /\ LastText(u) = text /\ UsersLinks(u, ag)
           /\ \A to : AgentsLinks(t, to) => AgentsLinks(u, to)
           /\ u.existing # {} => u.status = "created"
<1>1. LastText(u) = LastText(t) /\ \A i : Before(u, i) = Before(t, i)
  BY DEF LastText, Before
<1>2. \A i : Changes(u, i) = Changes(t, i)
  BY <1>1 DEF Changes
<1> QED
  BY <1>1, <1>2 DEF Sound, Solid, UsersLinks, AgentsLinks

\* The task of a buffer starts with nothing shown.
LEMMA OpenStep == Inv /\ Open => Inv'
<1> SUFFICES ASSUME Inv, Open PROVE Inv'
  OBVIOUS
<1> DEFINE t == tracked
           u == [t EXCEPT !.job = NoJob]
<1>1. /\ tracked' = u /\ t.job.at = "opening" /\ IsTracked
      /\ UNCHANGED <<buffer, exists, committed, undo, calls, agreed, touched, raced>>
  BY DEF Open, At, world, ghosts
<1>2. Sound(t, buffer, agreed) /\ (~raced => Traced(t, touched)) /\ t \in TrackedBuffer
  BY <1>1, Fields
<1>3. /\ u \in TrackedBuffer /\ u.status = t.status /\ u.existing = t.existing
      /\ u.base = t.base /\ u.unreviewed = t.unreviewed /\ u.snapshot = t.snapshot
      /\ u.queue = t.queue /\ u.job.at = "none" /\ u.shown = t.shown
  BY <1>2 DEF TrackedBuffer, NoJob, Job
<1> HIDE DEF u, t
<1>4. ~Busy(u) /\ ~Busy(t) /\ Followed(u) = Followed(t)
  BY <1>1, <1>3 DEF Busy, Followed
<1>5. /\ LastText(u) = buffer /\ UsersLinks(u, agreed)
      /\ (~raced => AgentsLinks(u, touched)) /\ (u.existing # {} => u.status = "created")
  BY <1>2, <1>3, <1>4, SameQueue DEF Traced
<1>6. Bases(u, agreed) /\ Covered(u) /\ Drawing(u) /\ Shown(u)
  BY <1>1, <1>2, <1>3, <1>4 DEF Sound, Solid, Bases, Covered, Drawing, Shown
<1>7. ~raced => Reviewed(u, touched)
  BY <1>2, <1>3, <1>4 DEF Traced, Reviewed
<1>8. Sound(u, buffer, agreed) /\ (~raced => Traced(u, touched))
  BY <1>3, <1>5, <1>6, <1>7 DEF Sound, Solid, Traced
<1> QED
  BY <1>1, <1>8, TaskStep

\* A text for maintain_diff to work out.
LEMMA RebaseFields ==
    ASSUME NEW base \in Content, NEW text \in Content
    PROVE  /\ Rebase(base, text) \in Job /\ Rebase(base, text).at = "rebasing"
           /\ Rebase(base, text).base = base /\ Rebase(base, text).text = text
BY DEF Rebase, Job

\* An update is taken from the queue and rebased.
LEMMA TrackEditsStep == Inv /\ TrackEdits => Inv'
<1> SUFFICES ASSUME Inv, TrackEdits PROVE Inv'
  OBVIOUS
<1> DEFINE t == tracked
           q == t.queue
           update == Head(q)
           base == Rebased(update)
           job == Rebase(base, update.text)
           u == [t EXCEPT !.queue = Tail(@), !.job = job]
<1>1. /\ tracked' = u /\ t.job.at = "none" /\ IsTracked /\ q # <<>>
      /\ UNCHANGED <<buffer, exists, committed, undo, calls, agreed, touched, raced>>
  BY DEF TrackEdits, At, world, ghosts
<1>2. /\ Sound(t, buffer, agreed) /\ (~raced => Traced(t, touched)) /\ t \in TrackedBuffer
      /\ t.base \in Content /\ t.snapshot \in Content /\ q \in Seq(Update)
  BY <1>1, Fields
<1>3. ~Busy(t) /\ Followed(t) = t.snapshot
  BY <1>1 DEF Busy, Followed
<1> DEFINE n == Len(Tail(q))
<1>4. /\ n \in Nat /\ Len(q) = n + 1 /\ DOMAIN q = 1 .. (n + 1) /\ DOMAIN Tail(q) = 1 .. n
      /\ (\A i \in 1 .. n : Tail(q)[i] = q[i + 1])
      /\ update = q[1] /\ update \in Update /\ Tail(q) \in Seq(Update)
      /\ (Tail(q) = <<>> <=> n = 0)
  <2>1. /\ Head(q) \in Update /\ Tail(q) \in Seq(Update) /\ Len(Tail(q)) = Len(q) - 1
        /\ \A i \in 1 .. Len(Tail(q)) : Tail(q)[i] = q[i + 1]
    BY <1>1, <1>2, HeadTailProperties
  <2>2. DOMAIN q = 1 .. Len(q) /\ DOMAIN Tail(q) = 1 .. n /\ n \in Nat /\ Len(q) \in Nat
        /\ (Tail(q) = <<>> <=> n = 0)
    BY <1>2, <2>1, LenProperties, EmptySeq
  <2>3. Head(q) = q[1]
    BY <1>1, <1>2
  <2> QED
    BY <2>1, <2>2, <2>3
<1>5. update.text \in Content /\ update.author \in {"agent", "user"} /\ 1 \in DOMAIN q
  BY <1>4 DEF Update
<1>6. Changes(t, 1) = Differ(t.snapshot, update.text)
  BY <1>3, <1>4 DEF Changes, Before
<1>7. /\ update.author = "agent" => base = t.base
      /\ update.author = "user" =>
            base = Overlaid(t.base, Differ(t.snapshot, update.text) \ t.unreviewed, update.text)
      /\ base \in Content
  <2>1. /\ update.author = "agent" => base = t.base
        /\ update.author = "user" =>
            base = Overlaid(t.base, Differ(t.snapshot, update.text) \ t.unreviewed, update.text)
    BY DEF Rebased
  <2> HIDE DEF base, update
  <2> QED
    BY <1>2, <1>5, <2>1, OverlaidText
<1> HIDE DEF base, update
<1>8. update.author = "user" => \A s \in Spots :
            base[s] = IF s \in Differ(t.snapshot, update.text) \ t.unreviewed
                      THEN update.text[s] ELSE t.base[s]
  BY <1>2, <1>5, <1>7, OverlaidText
<1>9. job \in Job /\ job.at = "rebasing" /\ job.base = base /\ job.text = update.text
  BY <1>5, <1>7, RebaseFields
<1> HIDE DEF job
<1>10. /\ u \in TrackedBuffer /\ u.status = t.status /\ u.existing = t.existing
       /\ u.base = t.base /\ u.unreviewed = t.unreviewed /\ u.snapshot = t.snapshot
       /\ u.queue = Tail(q) /\ u.job = job /\ u.shown = t.shown
  BY <1>2, <1>4, <1>9 DEF TrackedBuffer
<1> HIDE DEF u
<1>11. Busy(u) /\ Followed(u) = update.text
  BY <1>9, <1>10 DEF Busy, Followed
<1>12. ASSUME NEW i \in 1 .. n PROVE Changes(u, i) = Changes(t, i + 1)
  <2>1. i + 1 # 1 /\ (i + 1) - 1 = i /\ u.queue[i] = t.queue[i + 1]
    BY <1>4, <1>10
  <2>2. Before(u, i) = Before(t, i + 1)
    <3>1. CASE i = 1
      BY <1>4, <1>11, <2>1, <3>1 DEF Before
    <3>2. CASE i # 1
      <4>1. i - 1 \in 1 .. n /\ (i - 1) + 1 = i
        BY <1>4, <3>2
      <4> QED
        BY <1>4, <1>10, <2>1, <3>2, <4>1 DEF Before
    <3> QED
      BY <3>1, <3>2
  <2> QED
    BY <2>1, <2>2 DEF Changes
<1>13. \A i \in 1 .. n : i + 1 \in DOMAIN q /\ u.queue[i] = q[i + 1]
  BY <1>4, <1>10
<1>14. DOMAIN u.queue = 1 .. n
  BY <1>4, <1>10
<1>15. LastText(u) = buffer
  <2>1. LastText(t) = q[n + 1].text
    BY <1>1, <1>4 DEF LastText
  <2>2. CASE n = 0
    BY <1>2, <1>4, <1>10, <1>11, <2>1, <2>2 DEF LastText, Sound, Solid
  <2>3. CASE n # 0
    <3>1. n \in 1 .. n
      BY <1>4, <2>3
    <3> QED
      BY <1>2, <1>4, <1>10, <2>1, <2>3, <3>1 DEF LastText, Sound, Solid
  <2> QED
    BY <2>2, <2>3
<1>16. UsersLinks(u, agreed) /\ (~raced => AgentsLinks(u, touched))
  BY <1>2, <1>12, <1>13, <1>14 DEF Sound, Solid, Traced, UsersLinks, AgentsLinks
<1>17. Agrees(base, agreed)
  <2>1. Agrees(t.base, agreed)
    BY <1>2 DEF Sound, Solid, Bases
  <2>2. update.author = "user" => \A s \in Differ(t.snapshot, update.text) : update.text[s] \in agreed[s]
    BY <1>2, <1>4, <1>5, <1>6 DEF Sound, Solid, UsersLinks
  <2> QED
    BY <1>5, <1>7, <1>8, <2>1, <2>2 DEF Agrees
<1>18. Differ(t.base, t.snapshot) \subseteq t.unreviewed
  BY <1>2 DEF Sound, Solid, Covered
<1>19. ~raced => Differ(base, update.text) \subseteq touched
  <2> SUFFICES ASSUME ~raced, NEW s \in Spots, base[s] # update.text[s] PROVE s \in touched
    BY DEF Differ
  <2>1. t.unreviewed \subseteq touched
    BY <1>2 DEF Traced, Reviewed
  <2>2. CASE s \in t.unreviewed
    BY <2>1, <2>2
  <2>3. CASE s \notin t.unreviewed
    <3>1. t.base[s] = t.snapshot[s]
      BY <1>18, <2>3 DEF Differ
    <3>2. update.author # "user"
      BY <1>8, <2>3, <3>1 DEF Differ
    <3>3. update.author = "agent" /\ t.snapshot[s] # update.text[s]
      BY <1>5, <1>7, <3>1, <3>2
    <3>4. Changes(t, 1) \subseteq touched
      BY <1>2, <1>4, <1>5, <3>3 DEF Traced, AgentsLinks
    <3> QED
      BY <1>6, <3>3, <3>4 DEF Differ
  <2> QED
    BY <2>2, <2>3
<1>20. Bases(u, agreed) /\ Covered(u) /\ Drawing(u) /\ Shown(u)
  BY <1>2, <1>9, <1>10, <1>17 DEF Sound, Solid, Bases, Covered, Drawing, Shown
<1>21. ~raced => Reviewed(u, touched)
  BY <1>2, <1>9, <1>10, <1>19 DEF Traced, Reviewed
<1>22. u.existing # {} => u.status = "created"
  BY <1>2, <1>10 DEF Sound, Solid
<1>23. Sound(u, buffer, agreed) /\ (~raced => Traced(u, touched))
  BY <1>10, <1>15, <1>16, <1>20, <1>21, <1>22 DEF Sound, Solid, Traced
<1> QED
  BY <1>1, <1>23, TaskStep

\* What was committed goes into the base.
LEMMA KeepCommittedStep == Inv /\ KeepCommitted => Inv'
<1> SUFFICES ASSUME Inv, KeepCommitted PROVE Inv'
  OBVIOUS
<1> DEFINE t == tracked
           base == Overlaid(t.base, Matching, committed)
           job == Rebase(base, t.snapshot)
           u == [t EXCEPT !.git = FALSE, !.job = job]
<1>1. /\ tracked' = u /\ t.job.at = "none" /\ IsTracked /\ t.queue = <<>>
      /\ UNCHANGED <<buffer, exists, committed, undo, calls, agreed, touched, raced>>
  BY DEF KeepCommitted, At, world, ghosts
<1>2. /\ Sound(t, buffer, agreed) /\ (~raced => Traced(t, touched)) /\ t \in TrackedBuffer
      /\ t.base \in Content /\ t.snapshot \in Content
  BY <1>1, Fields
<1>3. /\ base \in Content
      /\ \A s \in Spots : base[s] = IF s \in Matching THEN committed[s] ELSE t.base[s]
  BY <1>2, Values, OverlaidText
<1> HIDE DEF base
<1>4. job \in Job /\ job.at = "rebasing" /\ job.base = base /\ job.text = t.snapshot
  BY <1>2, <1>3, RebaseFields
<1> HIDE DEF job
<1>5. /\ u \in TrackedBuffer /\ u.status = t.status /\ u.existing = t.existing
      /\ u.base = t.base /\ u.unreviewed = t.unreviewed /\ u.snapshot = t.snapshot
      /\ u.queue = t.queue /\ u.job = job /\ u.shown = t.shown
  BY <1>2, <1>4 DEF TrackedBuffer
<1> HIDE DEF u
<1>6. Busy(u) /\ Followed(u) = Followed(t)
  BY <1>1, <1>4, <1>5 DEF Busy, Followed
<1>7. /\ LastText(u) = buffer /\ UsersLinks(u, agreed)
      /\ (~raced => AgentsLinks(u, touched)) /\ (u.existing # {} => u.status = "created")
  BY <1>2, <1>5, <1>6, SameQueue DEF Traced
<1>8. Agrees(base, agreed)
  BY <1>2, <1>3, Values DEF Sound, Solid, Bases, Agrees
<1>9. Differ(base, t.snapshot) \subseteq t.unreviewed
  BY <1>2, <1>3 DEF Sound, Solid, Covered, Differ, Matching
<1>10. Bases(u, agreed) /\ Covered(u) /\ Drawing(u) /\ Shown(u)
  BY <1>2, <1>4, <1>5, <1>8 DEF Sound, Solid, Bases, Covered, Drawing, Shown
<1>11. ~raced => Reviewed(u, touched)
  BY <1>2, <1>4, <1>5, <1>9 DEF Traced, Reviewed
<1>12. Sound(u, buffer, agreed) /\ (~raced => Traced(u, touched))
  BY <1>5, <1>7, <1>10, <1>11 DEF Sound, Solid, Traced
<1> QED
  BY <1>1, <1>12, TaskStep

\* The diff that is shown is of the texts being worked on.
LEMMA ShowStep == Inv /\ Show => Inv'
<1> SUFFICES ASSUME Inv, Show PROVE Inv'
  OBVIOUS
<1> DEFINE t == tracked
           hunks == Differ(t.job.base, t.job.text)
           job == [t.job EXCEPT !.at = "diffing"]
           v == [t EXCEPT !.job = job]
           u == [v EXCEPT !.shown = {hunks}]
<1>1. /\ tracked' = u /\ t.job.at = "rebasing" /\ IsTracked
      /\ UNCHANGED <<buffer, exists, committed, undo, calls, agreed, touched, raced>>
  BY DEF Show, At, world, ghosts
<1>2. Sound(t, buffer, agreed) /\ (~raced => Traced(t, touched)) /\ t \in TrackedBuffer
  BY <1>1, Fields
<1>3. t.job \in Job /\ hunks \subseteq Spots
  BY <1>2 DEF TrackedBuffer, Differ
<1>4. job \in Job /\ job.at = "diffing" /\ job.base = t.job.base /\ job.text = t.job.text
  BY <1>1, <1>3 DEF Job
<1>5. hunks = Differ(job.base, job.text)
  BY <1>4
<1> HIDE DEF job, hunks
<1>6. /\ u \in TrackedBuffer /\ u.status = t.status /\ u.existing = t.existing
      /\ u.base = t.base /\ u.unreviewed = t.unreviewed /\ u.snapshot = t.snapshot
      /\ u.queue = t.queue /\ u.job = job /\ u.shown = {hunks}
  <2>1. {hunks} \in SUBSET SUBSET Spots
    BY <1>3
  <2>2. /\ v \in TrackedBuffer /\ v.status = t.status /\ v.existing = t.existing
        /\ v.base = t.base /\ v.unreviewed = t.unreviewed /\ v.snapshot = t.snapshot
        /\ v.queue = t.queue /\ v.job = job
    BY <1>2, <1>4 DEF TrackedBuffer
  <2> HIDE DEF v
  <2>3. /\ u \in TrackedBuffer /\ u.status = v.status /\ u.existing = v.existing
        /\ u.base = v.base /\ u.unreviewed = v.unreviewed /\ u.snapshot = v.snapshot
        /\ u.queue = v.queue /\ u.job = v.job /\ u.shown = {hunks}
    BY <2>1, <2>2 DEF TrackedBuffer
  <2> HIDE DEF u
  <2> QED
    BY <2>2, <2>3
<1> HIDE DEF u
<1>7. Busy(u) /\ Busy(t) /\ Followed(u) = Followed(t)
  BY <1>1, <1>4, <1>6 DEF Busy, Followed
<1>8. /\ LastText(u) = buffer /\ UsersLinks(u, agreed)
      /\ (~raced => AgentsLinks(u, touched)) /\ (u.existing # {} => u.status = "created")
  BY <1>2, <1>6, <1>7, SameQueue DEF Traced
<1>9. Bases(u, agreed) /\ Covered(u) /\ Drawing(u) /\ Shown(u)
  BY <1>2, <1>4, <1>5, <1>6, <1>7 DEF Sound, Solid, Bases, Covered, Drawing, Shown
<1>10. ~raced => Reviewed(u, touched)
  BY <1>2, <1>4, <1>6, <1>7 DEF Traced, Reviewed
<1>11. Sound(u, buffer, agreed) /\ (~raced => Traced(u, touched))
  BY <1>6, <1>8, <1>9, <1>10 DEF Sound, Solid, Traced
<1> QED
  BY <1>1, <1>11, TaskStep

\* What a job has worked out becomes the base and the snapshot.
LEMMA FinishStep == Inv /\ Finish => Inv'
<1> SUFFICES ASSUME Inv, Finish PROVE Inv'
  OBVIOUS
<1> DEFINE t == tracked
           job == t.job
           hunks == Differ(job.base, job.text)
           u == [t EXCEPT !.job = NoJob, !.base = job.base, !.snapshot = job.text,
                          !.unreviewed = hunks]
<1>1. /\ tracked' = u /\ job.at = "diffing" /\ IsTracked
      /\ UNCHANGED <<buffer, exists, committed, undo, calls, agreed, touched, raced>>
  BY DEF Finish, At, world, ghosts
<1>2. Sound(t, buffer, agreed) /\ (~raced => Traced(t, touched)) /\ t \in TrackedBuffer
  BY <1>1, Fields
<1>3. job \in Job
  BY <1>2 DEF TrackedBuffer
<1>4. job.base \in Content /\ job.text \in Content /\ hunks \subseteq Spots
      /\ NoJob \in Job /\ NoJob.at = "none"
  BY <1>1, <1>3 DEF Job, Differ, NoJob
<1>5. /\ u \in TrackedBuffer /\ u.status = t.status /\ u.existing = t.existing
      /\ u.base = job.base /\ u.unreviewed = hunks /\ u.snapshot = job.text
      /\ u.queue = t.queue /\ u.job = NoJob /\ u.shown = t.shown
  <2> HIDE DEF job, hunks
  <2> QED
    BY <1>2, <1>4 DEF TrackedBuffer
<1> HIDE DEF u
<1>6. ~Busy(u) /\ Busy(t) /\ Followed(u) = Followed(t)
  BY <1>1, <1>4, <1>5 DEF Busy, Followed
<1>7. /\ LastText(u) = buffer /\ UsersLinks(u, agreed)
      /\ (~raced => AgentsLinks(u, touched)) /\ (u.existing # {} => u.status = "created")
  BY <1>2, <1>5, <1>6, SameQueue DEF Traced
<1>8. Bases(u, agreed) /\ Covered(u)
  BY <1>2, <1>5, <1>6 DEF Sound, Solid, Bases, Covered
<1>9. Drawing(u) /\ Shown(u)
  BY <1>1, <1>2, <1>4, <1>5 DEF Sound, Solid, Drawing, Shown
<1>10. ~raced => Reviewed(u, touched)
  BY <1>2, <1>5, <1>6 DEF Traced, Reviewed
<1>11. Sound(u, buffer, agreed) /\ (~raced => Traced(u, touched))
  BY <1>5, <1>7, <1>8, <1>9, <1>10 DEF Sound, Solid, Traced
<1> QED
  BY <1>1, <1>11, TaskStep

-----------------------------------------------------------------------------
(* What holds of the review *)

\* The invariant holds at first.
LEMMA InvInit == Init => Inv
<1> SUFFICES ASSUME Init PROVE Inv
  OBVIOUS
<1>1. Blank \in Content /\ [s \in Spots |-> "old"] \in Content /\ NoUndo.spots = {}
  BY DEF Blank, Content, Text, NoUndo
<1>2. buffer \in Content /\ committed = buffer /\ exists \in BOOLEAN /\ tracked = Untracked
      /\ undo = NoUndo /\ calls = 0 /\ touched = {} /\ agreed = [s \in Spots |-> {committed[s]}]
  BY <1>1 DEF Init
<1>3. raced \in BOOLEAN
  BY Zenon DEF Init
<1>4. undo \in [spots : SUBSET Spots, text : Content] /\ calls \in 0 .. MaxCalls
  BY <1>1, <1>2, MaxCallsAssumption DEF NoUndo
<1>5. agreed \in [Spots -> SUBSET Text] /\ Agrees(committed, agreed)
  BY <1>2 DEF Content, Agrees
<1> QED
  BY <1>2, <1>3, <1>4, <1>5 DEF Inv, Types, Log

\* Every step keeps the invariant.
LEMMA InvStep == Inv /\ [Next]_vars => Inv'
<1>1. Inv /\ UNCHANGED vars => Inv'
  <2> SUFFICES ASSUME Inv, UNCHANGED vars PROVE Inv'
    OBVIOUS
  <2>1. UNCHANGED <<buffer, exists, committed, tracked, undo, calls, agreed, touched, raced>>
    BY DEF vars
  <2>2. Types' /\ Agrees(committed', agreed')
    BY <2>1, Values, TypesLater
  <2>3. Log(tracked', buffer', agreed', touched', raced')
    BY <2>1, Values
  <2> QED
    BY <2>2, <2>3, Later
<1> QED
  BY <1>1, AgentReadsStep, AgentEditsStep, AgentCreatesStep, AgentDeletesStep, UserEditsStep,
     DiskChangesStep, CommitStep, KeepStep, KeepAllStep, RejectStep, UndoStep, OpenStep,
     TrackEditsStep, KeepCommittedStep, ShowStep, FinishStep
  DEF Next, MaintainDiff

\* The invariant always holds.
LEMMA InvHolds == Spec => []Inv
BY InvInit, InvStep, PTL DEF Spec

\* TypeOK: the values of the log and its buffer have their types, and a text that
\* was there before is one that the agent's file replaced.
THEOREM TypeCorrect == Spec => []TypeOK
<1>1. Inv => TypeOK
  <2> SUFFICES ASSUME Inv PROVE TypeOK
    OBVIOUS
  <2>1. CASE IsTracked
    <3>1. tracked \in TrackedBuffer /\ (tracked.existing # {} => tracked.status = "created")
          /\ tracked.queue \in Seq(Update)
      BY <2>1, Fields DEF Sound, Solid
    <3>2. \A i \in DOMAIN tracked.queue : tracked.queue[i] \in Update
      BY <3>1, LenProperties, ElementOfSeq
    <3> QED
      BY <3>1, <3>2, Values DEF TypeOK, TrackedBuffer, Job
  <2>2. CASE ~IsTracked
    BY <2>2, NotTracked, Values DEF TypeOK, Untracked
  <2> QED
    BY <2>1, <2>2
<1> QED
  BY <1>1, InvHolds, PTL

\* BaseIsAgreed: what a reject goes back to is, at each spot, a text the user has
\* written, kept, committed or undone a reject of.
THEOREM BaseIsAgreedHolds == Spec => []BaseIsAgreed
<1>1. Inv => BaseIsAgreed
  BY Fields DEF BaseIsAgreed, Sound, Solid, Bases, Agrees
<1> QED
  BY <1>1, InvHolds, PTL

\* OnlyAgentsEditsAreReviewed: unless the user has kept something while a diff was
\* being worked out, a spot under review holds something of the agent's the user
\* has not kept.
THEOREM OnlyAgentsEditsAreReviewedHolds == Spec => []OnlyAgentsEditsAreReviewed
<1>1. Inv => OnlyAgentsEditsAreReviewed
  BY Fields DEF OnlyAgentsEditsAreReviewed, Traced, Reviewed
<1> QED
  BY <1>1, InvHolds, PTL

\* NothingIsOverlooked: when the task has caught up, what it compared is the buffer,
\* and what is up for review is all that differs, and what the user is shown.
THEOREM NothingIsOverlookedHolds == Spec => []NothingIsOverlooked
<1>1. Inv => NothingIsOverlooked
  <2> SUFFICES ASSUME Inv, Quiet, tracked.shown # {}
               PROVE  /\ tracked.snapshot = buffer
                      /\ tracked.unreviewed = Differ(tracked.base, buffer)
                      /\ tracked.shown = {tracked.unreviewed}
    BY DEF NothingIsOverlooked
  <2>1. IsTracked /\ tracked.job.at = "none" /\ tracked.queue = <<>>
    BY DEF Quiet, At
  <2>2. Sound(tracked, buffer, agreed)
    BY <2>1, Fields
  <2>3. tracked.snapshot = buffer
    BY <2>1, <2>2 DEF Sound, Solid, LastText, Followed, Busy
  <2> QED
    BY <2>1, <2>2, <2>3 DEF Sound, Shown
<1> QED
  BY <1>1, InvHolds, PTL
=============================================================================
