------------------------------ MODULE ActionLog ------------------------------
(***************************************************************************)
(* The review of what an agent writes: ActionLog and one buffer it tracks. *)
(* diff_base is the text the user agrees with; where the buffer differs    *)
(* from it there is an unreviewed edit, to be kept or rejected.  Edits of  *)
(* the user, seen by the buffer's events, go into diff_base, unless they   *)
(* touch an unreviewed edit.  All of that is worked out by one task per    *)
(* buffer, maintain_diff, from a queue of snapshots, while agent and user  *)
(* go on; commits to git are taken for keeps.                              *)
(*                                                                         *)
(* A buffer is a few spots, far enough apart for their edits never to      *)
(* touch, each with one of a few texts.  Saving is part of the disk, whose *)
(* file may come and go.  Linked logs, read times and telemetry are left   *)
(* out.                                                                    *)
(*                                                                         *)
(* UserFirst, Unannounced and AlwaysConflicts are what a faulty version    *)
(* would do; no action uses them.                                          *)
(***************************************************************************)
EXTENDS Naturals, Sequences, Functions

CONSTANTS
    Spots,
    MaxCalls     \* bound on edits, reviews, commits and changes of the file

ASSUME MaxCallsAssumption == MaxCalls \in Nat

AgentText == {"agent", "agent again"}
Text == AgentText \union {"old", "user", "blank"}
Content == [Spots -> Text]
Blank == [s \in Spots |-> "blank"]

VARIABLES
    buffer,      \* its text
    exists,      \* its file is on disk
    committed,   \* git's text of it
    tracked,     \* its TrackedBuffer; its status is "untracked" if there is none
    undo,        \* last_reject_undo: spots and the text they had, or none
    calls,       \* counts them
    agreed,      \* texts of each spot the user wrote, kept, committed or undid a reject of
    touched,     \* spots that hold something of the agent's the user has not kept
    raced        \* the user kept something while a diff was being worked out

world == <<exists, committed>>
ghosts == <<agreed, touched, raced>>
vars == <<buffer, exists, committed, tracked, undo, calls, agreed, touched, raced>>

NoJob == [at |-> "none"]
NoUndo == [spots |-> {}, text |-> Blank]
Untracked == [status |-> "untracked"]

Differ(text, other) == {s \in Spots : text[s] # other[s]}
Overlaid(text, spots, new) == [s \in Spots |-> IF s \in spots THEN new[s] ELSE text[s]]
\* A file that was not there has no text to go back to.
TextOf(existing) == IF existing = {} THEN Blank ELSE CHOOSE text \in existing : TRUE
Agreed(spots, text) == [s \in Spots |-> IF s \in spots THEN agreed[s] \union {text[s]}
                                                       ELSE agreed[s]]

Init ==
    /\ exists \in BOOLEAN
    /\ buffer = IF exists THEN [s \in Spots |-> "old"] ELSE Blank
    /\ committed = buffer
    /\ tracked = Untracked
    /\ undo = NoUndo /\ calls = 0
    /\ agreed = [s \in Spots |-> {committed[s]}] /\ touched = {} /\ raced = FALSE

Call == calls < MaxCalls /\ calls' = calls + 1

-----------------------------------------------------------------------------
(* What is tracked *)

IsTracked == tracked.status # "untracked"

\* A new TrackedBuffer, with a task of its own.
New(status, existing, base, unreviewed, text) ==
    [status |-> status, existing |-> existing, base |-> base, unreviewed |-> unreviewed,
     snapshot |-> text, edited |-> FALSE, queue |-> <<>>, job |-> [at |-> "opening"],
     git |-> FALSE, shown |-> {}]

\* track_buffer_internal, of a buffer that was not created.
Track(text) ==
    IF IsTracked THEN [tracked EXCEPT !.edited = FALSE]
    ELSE New("modified", {}, text, {}, text)

\* A buffer that is tracked anew is taken as it is.
AgreedIfNew(text) == IF IsTracked THEN agreed ELSE Agreed(Spots, text)
TouchedIf(spots) == IF IsTracked THEN touched \union spots ELSE {}

Scheduled(t, author, text) ==
    [t EXCEPT !.queue = Append(@, [author |-> author, text |-> text])]

\* An edit that comes by the buffer's event is the user's.
Unannounced(text) == tracked
Edited(text) ==
    IF IsTracked THEN [Scheduled(tracked, "user", text) EXCEPT !.edited = TRUE] ELSE tracked

-----------------------------------------------------------------------------
(* The agent, the user and the disk *)

AgentReads ==
    /\ Call
    /\ tracked' = Track(buffer)
    /\ agreed' = AgreedIfNew(buffer) /\ touched' = TouchedIf({})
    /\ UNCHANGED <<buffer, world, undo, raced>>

\* agent_edit_buffer: edit and buffer_edited before the event is seen.
AgentEdits(s) ==
    /\ Call
    /\ \E text \in AgentText : buffer[s] # text /\ buffer' = [buffer EXCEPT ![s] = text]
    /\ LET t == Track(buffer')
           status == IF t.status = "deleted" THEN "modified" ELSE t.status IN
        tracked' = Scheduled([t EXCEPT !.status = status], "agent", buffer')
    /\ agreed' = AgreedIfNew(buffer') /\ touched' = TouchedIf({s})
    /\ UNCHANGED <<world, undo, raced>>

\* buffer_created: the agent is about to write the whole file.
AgentCreates ==
    LET existing ==
            CASE tracked.status = "created" -> tracked.existing
              [] tracked.status \in {"modified", "deleted"} -> {tracked.base}
              [] OTHER -> IF exists THEN {buffer} ELSE {}
        base == TextOf(existing) IN
    /\ Call
    /\ tracked' = New("created", existing, base, Spots, buffer)
    /\ agreed' = IF IsTracked /\ existing # {} THEN agreed ELSE Agreed(Spots, base)
    /\ touched' = Spots
    /\ UNCHANGED <<buffer, world, undo, raced>>

UserFirst(t) == Scheduled(Scheduled(t, "user", Blank), "agent", Blank)
\* The buffer's own event follows.
Blanked(t) == Scheduled(Scheduled(t, "agent", Blank), "user", Blank)

\* will_delete_buffer
AgentDeletes ==
    LET t == Track(buffer) IN
    /\ Call
    /\ \/ t.status = "created" /\ tracked' = Untracked /\ UNCHANGED <<buffer, touched>>
       \/ /\ t.status = "modified"
          /\ buffer' = Blank
          /\ tracked' = Blanked([t EXCEPT !.status = "deleted", !.edited = TRUE])
          /\ touched' = Spots
       \/ t.status = "deleted" /\ tracked' = t /\ UNCHANGED <<buffer, touched>>
    /\ agreed' = AgreedIfNew(buffer)
    /\ UNCHANGED <<world, undo, raced>>

UserEdits(s) ==
    /\ Call
    /\ buffer[s] # "user"
    /\ buffer' = [buffer EXCEPT ![s] = "user"]
    /\ tracked' = Edited(buffer')
    /\ agreed' = Agreed({s}, buffer')
    /\ UNCHANGED <<world, undo, touched, raced>>

\* handle_buffer_file_changed
DiskChanges ==
    /\ Call
    /\ exists' = ~exists
    /\ tracked' = IF tracked.status \in {"created", "modified"} /\ ~exists' THEN Untracked
                  ELSE IF tracked.status = "deleted" /\ exists'
                  THEN New("modified", {}, buffer, {}, buffer) ELSE tracked
    /\ IF tracked.status = "deleted" /\ exists'
       THEN agreed' = Agreed(Spots, buffer) /\ touched' = {}
       ELSE UNCHANGED <<agreed, touched>>
    /\ UNCHANGED <<buffer, committed, undo, raced>>

\* The text of some spots is committed.
Commit ==
    /\ Call
    /\ \E spots \in SUBSET Spots :
        /\ committed' = Overlaid(committed, spots, buffer)
        /\ agreed' = Agreed(spots, buffer)
    /\ committed' # committed
    /\ tracked' = IF IsTracked /\ tracked.job.at # "opening"
                  THEN [tracked EXCEPT !.git = TRUE] ELSE tracked
    /\ UNCHANGED <<buffer, exists, undo, touched, raced>>

-----------------------------------------------------------------------------
(* Reviews *)

\* The user picks from the hunks that are shown.
Picked == IF IsTracked THEN UNION {SUBSET hunks : hunks \in tracked.shown} \ {{}} ELSE {}

\* What the user keeps is what the task has seen so far.
Kept(spots) ==
    /\ agreed' = Agreed(spots, tracked.snapshot)
    /\ touched' = touched \ {s \in spots :
            \A text \in {buffer} \union {update.text : update \in Range(tracked.queue)} :
                text[s] = tracked.snapshot[s]}
    /\ raced' = (raced \/ tracked.job.at \in {"rebasing", "diffing"})

\* A new file all of which is kept is like any other.
NoLongerNew(t) ==
    IF t.status = "created" THEN [t EXCEPT !.status = "modified", !.existing = {}] ELSE t

Keep ==
    /\ Call
    /\ \E range \in Picked :
        LET kept == tracked.unreviewed \intersect range
            left == tracked.unreviewed \ kept
            t == IF left = {} THEN NoLongerNew(tracked) ELSE tracked IN
        IF tracked.status = "deleted" THEN tracked' = Untracked /\ UNCHANGED ghosts
        ELSE /\ tracked' = Scheduled([t EXCEPT !.unreviewed = left,
                    !.base = Overlaid(@, kept, tracked.snapshot)], "user", buffer)
             /\ Kept(kept)
    /\ UNCHANGED <<buffer, world, undo>>

KeepAll ==
    /\ Call /\ IsTracked
    /\ IF tracked.status = "deleted" THEN tracked' = Untracked /\ UNCHANGED ghosts
       ELSE /\ tracked' = Scheduled([NoLongerNew(tracked) EXCEPT !.unreviewed = {},
                   !.base = tracked.snapshot], "user", buffer)
            /\ Kept(Spots)
    /\ UNCHANGED <<buffer, world, undo>>

\* reject_edits_in_ranges, by status.  reject_all_edits rejects all that is shown,
\* and forgets the last undo first.
NothingToUndo == undo' \in {undo, NoUndo}

RejectModified(range) ==
    LET hit == tracked.unreviewed \intersect range IN
    /\ tracked.status = "modified"
    /\ buffer' = Overlaid(buffer, hit, tracked.base)
    /\ tracked' = IF hit = {} THEN tracked ELSE Edited(buffer')
    /\ IF hit = {} THEN NothingToUndo ELSE undo' = [spots |-> hit, text |-> buffer]
    /\ UNCHANGED <<world, ghosts>>

RejectDeleted ==
    /\ tracked.status = "deleted"
    /\ buffer' = tracked.base
    /\ tracked' = New("modified", {}, buffer', {}, buffer')
    /\ touched' = {} /\ NothingToUndo
    /\ UNCHANGED <<world, agreed, raced>>

RejectOverwritten ==
    /\ tracked.status = "created" /\ tracked.existing # {}
    /\ buffer' = TextOf(tracked.existing)
    /\ tracked' = Untracked
    /\ undo' = [spots |-> Spots, text |-> buffer]
    /\ UNCHANGED <<world, ghosts>>

\* A new file is deleted if it is taken to be the agent's alone, else left as it is.
IsAgentsAlone == ~tracked.edited /\ buffer = tracked.snapshot

DeleteCreated ==
    /\ tracked.status = "created" /\ tracked.existing = {}
    /\ IsAgentsAlone
    /\ tracked' = Untracked /\ exists' = FALSE /\ NothingToUndo
    /\ UNCHANGED <<buffer, committed, ghosts>>

SpareCreated ==
    /\ tracked.status = "created" /\ tracked.existing = {}
    /\ ~IsAgentsAlone
    /\ tracked' = Untracked /\ NothingToUndo
    /\ UNCHANGED <<buffer, world, ghosts>>

Reject ==
    /\ Call
    /\ \E range \in Picked :
        \/ RejectModified(range) \/ RejectDeleted \/ RejectOverwritten
        \/ DeleteCreated \/ SpareCreated

\* undo_last_reject: what comes back counts as the user's, or is tracked anew.
Undo ==
    /\ Call
    /\ undo.spots # {} /\ undo' = NoUndo
    /\ buffer' = Overlaid(buffer, undo.spots, undo.text)
    /\ tracked' = IF IsTracked THEN Edited(buffer') ELSE Scheduled(Track(buffer'), "agent", buffer')
    /\ agreed' = Agreed(IF IsTracked THEN undo.spots ELSE Spots, buffer')
    /\ touched' = TouchedIf({})
    /\ UNCHANGED <<world, raced>>

-----------------------------------------------------------------------------
(* maintain_diff *)

At(where) == IsTracked /\ tracked.job.at = where

\* open_uncommitted_diff
Open ==
    /\ At("opening")
    /\ tracked' = [tracked EXCEPT !.job = NoJob]
    /\ UNCHANGED <<buffer, world, undo, calls, ghosts>>

Rebase(base, text) ==
    [at |-> "rebasing", base |-> base, text |-> text]

\* apply_non_conflicting_edits
AlwaysConflicts(update) == tracked.base
Rebased(update) ==
    IF update.author = "agent" THEN tracked.base
    ELSE Overlaid(tracked.base, Differ(tracked.snapshot, update.text) \ tracked.unreviewed,
                  update.text)

TrackEdits ==
    /\ At("none") /\ tracked.queue # <<>>
    /\ LET update == Head(tracked.queue) IN
        tracked' = [tracked EXCEPT !.queue = Tail(@),
                                   !.job = Rebase(Rebased(update), update.text)]
    /\ UNCHANGED <<buffer, world, undo, calls, ghosts>>

\* An unreviewed edit that was committed as it stands is kept.
Matching ==
    IF tracked.snapshot = committed THEN Spots
    ELSE {s \in tracked.unreviewed :
            committed[s] # tracked.base[s] /\ committed[s] = tracked.snapshot[s]}

\* The select is biased: edits come first.
KeepCommitted ==
    /\ At("none") /\ tracked.queue = <<>> /\ tracked.git
    /\ tracked' = [tracked EXCEPT !.git = FALSE,
            !.job = Rebase(Overlaid(tracked.base, Matching, committed), tracked.snapshot)]
    /\ UNCHANGED <<buffer, world, undo, calls, ghosts>>

\* update_diff: first the diff that is shown, ...
Show ==
    /\ At("rebasing")
    /\ tracked' = [tracked EXCEPT !.job.at = "diffing",
                                  !.shown = {Differ(tracked.job.base, tracked.job.text)}]
    /\ UNCHANGED <<buffer, world, undo, calls, ghosts>>

\* ... then the log's own.
Finish ==
    /\ At("diffing")
    /\ tracked' = [tracked EXCEPT !.job = NoJob,
            !.base = tracked.job.base, !.snapshot = tracked.job.text,
            !.unreviewed = Differ(tracked.job.base, tracked.job.text)]
    /\ UNCHANGED <<buffer, world, undo, calls, ghosts>>

-----------------------------------------------------------------------------
MaintainDiff == Open \/ TrackEdits \/ KeepCommitted \/ Show \/ Finish

Next ==
    \/ AgentReads \/ AgentCreates \/ AgentDeletes
    \/ \E s \in Spots : AgentEdits(s) \/ UserEdits(s)
    \/ DiskChanges \/ Commit
    \/ Keep \/ KeepAll \/ Reject \/ Undo
    \/ MaintainDiff

Spec == Init /\ [][Next]_vars

-----------------------------------------------------------------------------
Update == [author : {"agent", "user"}, text : Content]

TypeOK ==
    /\ buffer \in Content /\ committed \in Content /\ exists \in BOOLEAN
    /\ undo \in [spots : SUBSET Spots, text : Content]
    /\ calls \in 0 .. MaxCalls
    /\ agreed \in [Spots -> SUBSET Text] /\ touched \subseteq Spots /\ raced \in BOOLEAN
    /\ tracked.status \in {"untracked", "created", "modified", "deleted"}
    /\ IsTracked =>
        /\ tracked.existing \subseteq Content
        /\ tracked.existing # {} => tracked.status = "created"
        /\ tracked.base \in Content /\ tracked.snapshot \in Content
        /\ tracked.unreviewed \subseteq Spots
        /\ tracked.edited \in BOOLEAN /\ tracked.git \in BOOLEAN
        /\ \A i \in DOMAIN tracked.queue : tracked.queue[i] \in Update
        /\ \A hunks \in tracked.shown : hunks \subseteq Spots
        /\ tracked.job.at \in {"opening", "none", "rebasing", "diffing"}

\* Nothing of the agent's is taken for granted: what a reject goes back to is, at
\* each spot, a text the user has written, kept or committed (agent_edit_buffer:
\* "so it does not misattribute the agent's edit as a user edit"; undoing a reject
\* counts as the user's writing).
BaseIsAgreed ==
    IsTracked => \A s \in Spots : tracked.base[s] \in agreed[s]

\* And nothing of the user's is put up for review: a hunk, which a reject would
\* undo, is at a spot the agent has written to since it was last kept.  A keep made
\* while a diff is worked out may be forgotten, which is left out here.
OnlyAgentsEditsAreReviewed ==
    IsTracked /\ ~raced => tracked.unreviewed \subseteq touched

\* When the task has caught up, no edit has been overlooked: base and unreviewed
\* edits make up the buffer, and they are what the user is shown (test_random_diffs).
Quiet == At("none") /\ tracked.queue = <<>>
NothingIsOverlooked ==
    Quiet /\ tracked.shown # {} =>
        /\ tracked.snapshot = buffer
        /\ tracked.unreviewed = Differ(tracked.base, buffer)
        /\ tracked.shown = {tracked.unreviewed}

\* For a file created by the agent, "only delete the file if we're certain it
\* contains only AI content with no edits from the user" (reject_edits_in_ranges).
OnlyTheAgentsIsDeleted ==
    (tracked.status = "created" /\ tracked.existing = {}
     /\ exists /\ Picked # {} /\ IsAgentsAlone) =>
        \A s \in Spots : buffer[s] # "user"
=============================================================================
