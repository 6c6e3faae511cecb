-------------------------- MODULE AgentThreadProofs --------------------------
(***************************************************************************)
(* The safety properties of AgentThread, for any number of turns, of their *)
(* tool uses and of their requests.                                        *)
(***************************************************************************)
EXTENDS AgentThread, TLAPS, SequenceTheorems

Reasons == {"cancelled", "refusal", "max_tokens", "ended"}

TurnRecord ==
    [at : {"none", "asking", "streaming", "tools", "delay", "over"},
     cancelled : BOOLEAN, stops : Seq(Reasons), first : Nat, attempt : 0 .. MaxAttempts,
     why : {"none", "failed", "acted", "end"}, named : 0 .. MaxCalls, partly : SUBSET Calls]

Pending == [content : SUBSET Items, done : SUBSET Calls]

Types ==
    /\ messages \in Seq(Message) /\ pending \in Pending
    /\ running \in 0 .. MaxTurns /\ inputs \subseteq Calls /\ (running = 0 => inputs = {})
    /\ turn \in [Turns -> TurnRecord]
    /\ late \subseteq Turns
    /\ tool \in [Runs -> {"none", "running", "ended", "over"}]

\* The turns are numbers, 0 is none of them, and a tool use is no text.
LEMMA Names ==
    /\ Turns \subseteq Nat /\ 0 \notin Turns /\ \A n \in 0 .. MaxTurns : n # 0 => n \in Turns
    /\ Calls \subseteq Items /\ \A t \in Turns : <<t, 0>> \in Items /\ <<t, 0>> \notin Calls
    /\ \A t \in Turns : \A n \in 1 .. MaxCalls : <<t, n>> \in Calls
    /\ \A c \in Calls : c[1] \in Turns /\ c[2] \in 1 .. MaxCalls /\ c = <<c[1], c[2]>>
    /\ \A c \in Calls : \A k \in {0, 1, 2} : <<c, k>> \in Runs
    /\ \A r \in Runs : r[1] \in Calls /\ r[2] \in {0, 1, 2} /\ r = <<r[1], r[2]>>
BY ThreadAssumption DEF Turns, Calls, Items, Runs

\* A message that is complete joins those of the thread.
LEMMA WhatIsFlushed ==
    ASSUME NEW ms \in Seq(Message), NEW p \in Pending
    PROVE  /\ Agent(p) \in Message /\ Agent(p).kind = "agent"
           /\ Flushed(ms, p) \in Seq(Message)
           /\ Len(ms) \in Nat /\ DOMAIN ms = 1 .. Len(ms)
           /\ Len(Flushed(ms, p)) \in Nat /\ Len(ms) <= Len(Flushed(ms, p))
           /\ DOMAIN Flushed(ms, p) = 1 .. Len(Flushed(ms, p))
           /\ \A i \in DOMAIN ms : i \in DOMAIN Flushed(ms, p) /\ Flushed(ms, p)[i] = ms[i]
           /\ \A i \in DOMAIN Flushed(ms, p) :
                i \in DOMAIN ms \/ (Flushed(ms, p)[i] = Agent(p) /\ p.content # {})
           /\ p.content = {} => Flushed(ms, p) = ms
<1>1. Agent(p) \in Message /\ Agent(p).kind = "agent"
  BY DEF Agent, Uses, Message, Pending
<1>2. Len(ms) \in Nat /\ DOMAIN ms = 1 .. Len(ms)
  BY LenProperties
<1>3. /\ Append(ms, Agent(p)) \in Seq(Message) /\ Len(Append(ms, Agent(p))) = Len(ms) + 1
      /\ \A i \in 1 .. Len(ms) : Append(ms, Agent(p))[i] = ms[i]
      /\ Append(ms, Agent(p))[Len(ms) + 1] = Agent(p)
  BY <1>1, <1>2, AppendProperties
<1>4. DOMAIN Append(ms, Agent(p)) = 1 .. (Len(ms) + 1)
  BY <1>3, LenProperties
<1> HIDE DEF Agent
<1>5. CASE p.content = {}
  BY <1>1, <1>2, <1>5 DEF Flushed
<1>6. CASE p.content # {}
  <2> DEFINE all == Append(ms, Agent(p))
  <2>1. Flushed(ms, p) = all
    BY <1>6 DEF Flushed
  <2>2. /\ all \in Seq(Message) /\ Len(all) = Len(ms) + 1 /\ DOMAIN all = 1 .. (Len(ms) + 1)
        /\ \A i \in 1 .. Len(ms) : all[i] = ms[i]
        /\ all[Len(ms) + 1] = Agent(p)
    BY <1>3, <1>4
  <2> HIDE DEF all
  <2>3. \A i \in DOMAIN all : i \in DOMAIN ms \/ all[i] = Agent(p)
    BY <1>2, <2>2
  <2>4. \A i \in DOMAIN ms : i \in DOMAIN all /\ all[i] = ms[i]
    BY <1>2, <2>2
  <2>5. Len(all) \in Nat /\ Len(ms) <= Len(all) /\ DOMAIN all = 1 .. Len(all)
    BY <1>2, <2>2
  <2> QED
    BY <1>1, <1>2, <1>6, <2>1, <2>2, <2>3, <2>4, <2>5
<1> QED
  BY <1>5, <1>6

\* What one more message adds.
LEMMA WhatIsAdded ==
    ASSUME NEW ms \in Seq(Message), NEW m \in Message
    PROVE  /\ Append(ms, m) \in Seq(Message) /\ Len(ms) \in Nat /\ DOMAIN ms = 1 .. Len(ms)
           /\ Len(Append(ms, m)) = Len(ms) + 1
           /\ DOMAIN Append(ms, m) = 1 .. (Len(ms) + 1)
           /\ \A i \in DOMAIN ms : Append(ms, m)[i] = ms[i]
           /\ Append(ms, m)[Len(ms) + 1] = m
<1>1. Len(ms) \in Nat /\ DOMAIN ms = 1 .. Len(ms)
  BY LenProperties
<1>2. Append(ms, m) \in Seq(Message) /\ Len(Append(ms, m)) = Len(ms) + 1
  BY AppendProperties
<1>3. DOMAIN Append(ms, m) = 1 .. (Len(ms) + 1)
  BY <1>2, LenProperties
<1> QED
  BY <1>1, <1>2, <1>3, AppendProperties

\* What is left of messages that are cut.
LEMMA WhatIsLeft ==
    ASSUME NEW ms \in Seq(Message), NEW n \in 0 .. Len(ms)
    PROVE  /\ SubSeq(ms, 1, n) \in Seq(Message)
           /\ Len(SubSeq(ms, 1, n)) = n /\ DOMAIN SubSeq(ms, 1, n) = 1 .. n
           /\ \A i \in 1 .. n : i \in DOMAIN ms /\ SubSeq(ms, 1, n)[i] = ms[i]
<1>1. Len(ms) \in Nat /\ DOMAIN ms = 1 .. Len(ms)
  BY LenProperties
<1>2. \A i \in 1 .. n : ms[i] \in Message
  BY <1>1, ElementOfSeq
<1>3. SubSeq(ms, 1, n) \in Seq(Message) /\ Len(SubSeq(ms, 1, n)) = n
  BY <1>1, <1>2, SubSeqProperties
<1>4. DOMAIN SubSeq(ms, 1, n) = 1 .. n
  BY <1>3, LenProperties
<1> QED
  BY <1>1, <1>3, <1>4, SubSeqProperties

\* The types hold at first.
LEMMA TypesInit == Init => Types
<1> SUFFICES ASSUME Init PROVE Types
  OBVIOUS
<1>1. messages \in Seq(Message) /\ <<>> \in Seq(Reasons)
  BY EmptySeq DEF Init
<1>2. NewTurn \in TurnRecord
  BY <1>1, ThreadAssumption DEF NewTurn, TurnRecord
<1> QED
  BY <1>1, <1>2, ThreadAssumption DEF Init, Types, Empty, Pending

\* A request that is built, a turn that is over, and a cancellation keep the types
\* of the turns.
LEMMA TurnTypes ==
    ASSUME Types, NEW t \in Turns
    PROVE  /\ turn[t] \in TurnRecord
           /\ \A x \in TurnRecord : [turn EXCEPT ![t] = x] \in [Turns -> TurnRecord]
           /\ \A why \in Reasons, c \in BOOLEAN :
                /\ Gone(turn[t].stops, c) \in TurnRecord
                /\ Gone(Append(turn[t].stops, why), c) \in TurnRecord
           /\ Cancelled \in [Turns -> TurnRecord]
<1>1. turn \in [Turns -> TurnRecord] /\ turn[t] \in TurnRecord
  BY DEF Types
<1>2. <<>> \in Seq(Reasons) /\ 0 \in 0 .. MaxAttempts /\ 0 \in 0 .. MaxCalls
  BY EmptySeq, ThreadAssumption
<1>3. ASSUME NEW stops \in Seq(Reasons), NEW c \in BOOLEAN PROVE Gone(stops, c) \in TurnRecord
  BY <1>2 DEF Gone, NewTurn, TurnRecord
<1>4. ASSUME NEW u \in Turns, NEW why \in Reasons PROVE Append(turn[u].stops, why) \in Seq(Reasons)
  <2>1. turn[u].stops \in Seq(Reasons)
    BY <1>1 DEF TurnRecord
  <2> QED
    BY <2>1, AppendProperties
<1>5. Cancelled \in [Turns -> TurnRecord]
  <2>1. CASE running = 0
    BY <1>1, <2>1 DEF Cancelled
  <2>2. CASE running # 0
    <3>1. running \in Turns
      BY <2>2, Names DEF Types
    <3> DEFINE stops == Append(turn[running].stops, "cancelled")
               x == [turn[running] EXCEPT !.cancelled = TRUE, !.stops = stops]
    <3>2. Cancelled = [turn EXCEPT ![running] = x]
      BY <1>1, <2>2, <3>1 DEF Cancelled, TurnRecord
    <3>3. stops \in Seq(Reasons)
      BY <1>4, <3>1 DEF Reasons
    <3> HIDE DEF stops
    <3>4. x \in TurnRecord
      BY <1>1, <3>1, <3>3 DEF TurnRecord
    <3> HIDE DEF x
    <3> QED
      BY <1>1, <3>1, <3>2, <3>4
  <2> QED
    BY <2>1, <2>2
<1>6. turn[t].stops \in Seq(Reasons)
  BY <1>1 DEF TurnRecord
<1> HIDE DEF TurnRecord
<1> QED
  BY <1>1, <1>3, <1>4, <1>5, <1>6

\* Calls to the thread keep the types.
LEMMA CallsKeepTypes ==
    ASSUME Types,
           \/ Cancel
           \/ \E t \in Turns : Send(t) \/ ResumeTurn(t) \/ Truncate(t) \/ LateFlush(t)
    PROVE  Types'
<1>1. /\ messages \in Seq(Message) /\ pending \in Pending /\ Empty \in Pending
      /\ tool \in [Runs -> {"none", "running", "ended", "over"}]
      /\ turn \in [Turns -> TurnRecord] /\ late \subseteq Turns
      /\ inputs \subseteq Calls /\ running \in 0 .. MaxTurns /\ (running = 0 => inputs = {})
  BY DEF Types, Empty, Pending
<1>2. Flushed(messages, pending) \in Seq(Message)
  BY <1>1, WhatIsFlushed
<1>3. Awaited \subseteq Turns
  BY <1>1, Names DEF Awaited
<1>4. 0 \in 0 .. MaxTurns
  BY ThreadAssumption
<1>5. ASSUME NEW t \in Turns, NEW m \in Message, RunTurn(t, Append(messages, m)) PROVE Types'
  <2>1. Append(messages, m) \in Seq(Message) /\ Len(Append(messages, m)) = Len(messages) + 1
        /\ Len(messages) \in Nat
    BY <1>1, WhatIsAdded
  <2> DEFINE ms == Append(messages, m)
  <2> HIDE DEF ms
  <2>2. Flushed(ms, pending) \in Seq(Message) /\ Len(Flushed(ms, pending)) \in Nat
        /\ Len(Flushed(ms, pending)) >= Len(messages) + 1
    BY <1>1, <2>1, WhatIsFlushed DEF ms
  <2>3. messages' = Flushed(ms, pending) /\ pending' = Empty
    BY <1>5 DEF RunTurn, ms
  <2>4. MessageIx(messages') \in Nat
    BY <2>1, <2>2, <2>3 DEF MessageIx
  <2> DEFINE first == MessageIx(messages')
             x == [NewTurn EXCEPT !.at = "asking", !.first = first]
  <2>5. x \in TurnRecord
    <3>1. first \in Nat /\ <<>> \in Seq(Reasons) /\ 0 \in 0 .. MaxAttempts /\ 0 \in 0 .. MaxCalls
      BY <2>4, EmptySeq, ThreadAssumption
    <3> HIDE DEF first
    <3> QED
      BY <3>1 DEF NewTurn, TurnRecord
  <2>6. turn' = [Cancelled EXCEPT ![t] = x] /\ Cancelled \in [Turns -> TurnRecord]
    BY <1>5, TurnTypes DEF RunTurn
  <2> HIDE DEF x
  <2>7. turn' \in [Turns -> TurnRecord]
    BY <2>5, <2>6
  <2>8. late' = Awaited /\ running' = t /\ inputs' = {} /\ tool' = tool /\ t \in 0 .. MaxTurns /\ t # 0
    BY <1>5, ThreadAssumption DEF RunTurn, Turns
  <2> QED
    BY <1>1, <1>3, <2>2, <2>3, <2>7, <2>8 DEF Types
<1>6. CASE Cancel
  <2>1. (\E t \in Turns : TRUE) => turn' \in [Turns -> TurnRecord]
    BY <1>6, TurnTypes DEF Cancel
  <2>2. (\A t \in Turns : FALSE) => turn' = turn
    BY <1>1, <1>6, Names DEF Cancel, Cancelled
  <2> QED
    BY <1>1, <1>2, <1>3, <1>4, <1>6, <2>1, <2>2 DEF Cancel, Flush, Types
<1>7. ASSUME NEW t \in Turns, Truncate(t) PROVE Types'
  <2> DEFINE ms == IF running = 0 THEN Flushed(messages, pending) ELSE messages
  <2>1. ms \in Seq(Message)
    BY <1>1, <1>2
  <2> HIDE DEF ms
  <2> PICK i \in DOMAIN ms : messages' = SubSeq(ms, 1, i - 1)
    BY <1>7 DEF Truncate, ms
  <2>2. i - 1 \in 0 .. Len(ms)
    BY <2>1, LenProperties
  <2>3. messages' \in Seq(Message)
    BY <2>1, <2>2, WhatIsLeft
  <2>4. turn' \in [Turns -> TurnRecord]
    BY <1>7, TurnTypes DEF Truncate
  <2> QED
    BY <1>1, <1>3, <1>4, <1>7, <2>3, <2>4 DEF Truncate, Types
<1>8. ASSUME NEW t \in Turns, Send(t) PROVE Types'
  BY <1>5, <1>8 DEF Send, User, Message
<1>9. ASSUME NEW t \in Turns, ResumeTurn(t) PROVE Types'
  BY <1>5, <1>9 DEF ResumeTurn, Resume, Message
<1>10. ASSUME NEW t \in Turns, LateFlush(t) PROVE Types'
  BY <1>1, <1>2, <1>10 DEF LateFlush, Flush, Types
<1> QED
  BY <1>6, <1>7, <1>8, <1>9, <1>10

Active(t) == turn[t].at \notin {"none", "over"}

\* A turn goes on: what it has told its client, and where it began, stays.
GoesOn(t) ==
    /\ Active(t) /\ Active(t)'
    /\ turn'[t].cancelled = turn[t].cancelled /\ turn'[t].stops = turn[t].stops
    /\ turn'[t].first = turn[t].first
    /\ \A u \in Turns : u # t => turn'[u] = turn[u]
    /\ UNCHANGED <<running, late>>

\* Or it ends, and tells its client if it was not cancelled.
Stops(t, reason) ==
    /\ Active(t)
    /\ turn'[t].at = "over" /\ turn'[t].cancelled = turn[t].cancelled
    /\ IF turn[t].cancelled
       THEN turn'[t].stops = turn[t].stops /\ UNCHANGED running
       ELSE turn'[t].stops = Append(turn[t].stops, reason) /\ running' = 0
    /\ \A u \in Turns : u # t => turn'[u] = turn[u]
    /\ UNCHANGED late

\* Other locals of a turn.
LEMMA LocalsChange ==
    ASSUME Types, NEW t \in Turns, NEW x \in TurnRecord, turn' = [turn EXCEPT ![t] = x],
           Active(t), x.at \notin {"none", "over"},
           x.cancelled = turn[t].cancelled, x.stops = turn[t].stops, x.first = turn[t].first,
           UNCHANGED <<running, late>>
    PROVE  GoesOn(t) /\ turn' \in [Turns -> TurnRecord] /\ turn'[t] = x
<1>1. turn \in [Turns -> TurnRecord]
  BY DEF Types
<1> QED
  BY <1>1 DEF GoesOn, Active

\* A request is sent.
LEMMA Asks ==
    ASSUME Types, NEW t \in Turns, NEW attempt \in 0 .. MaxAttempts, Ask(t, attempt),
           Active(t), UNCHANGED <<running, late>>
    PROVE  GoesOn(t) /\ turn' \in [Turns -> TurnRecord] /\ turn'[t].at = "asking"
           /\ turn'[t].partly = {}
<1>1. turn \in [Turns -> TurnRecord] /\ turn[t] \in TurnRecord
  BY DEF Types
<1> DEFINE x == [turn[t] EXCEPT !.at = "asking", !.why = "none", !.partly = {},
                                !.attempt = attempt]
<1>2. turn' = [turn EXCEPT ![t] = x]
  BY <1>1 DEF Ask, TurnRecord
<1>3. /\ x \in TurnRecord /\ x.at = "asking" /\ x.partly = {}
      /\ x.cancelled = turn[t].cancelled /\ x.stops = turn[t].stops /\ x.first = turn[t].first
  BY <1>1 DEF TurnRecord
<1> HIDE DEF x
<1>4. GoesOn(t) /\ turn' \in [Turns -> TurnRecord] /\ turn'[t] = x
  BY <1>2, <1>3, LocalsChange
<1> QED
  BY <1>3, <1>4

\* A task is over.
LEMMA Finishes ==
    ASSUME Types, NEW t \in Turns, NEW reason \in Reasons, Finish(t, reason),
           Active(t), UNCHANGED late
    PROVE  Stops(t, reason) /\ turn' \in [Turns -> TurnRecord] /\ turn'[t].partly = {}
           /\ running' \in 0 .. MaxTurns /\ (~ turn[t].cancelled \/ running' = running)
<1>1. turn \in [Turns -> TurnRecord] /\ turn[t] \in TurnRecord /\ turn[t].cancelled \in BOOLEAN
  BY DEF Types, TurnRecord
<1>2. 0 \in 0 .. MaxTurns /\ running \in 0 .. MaxTurns
  BY ThreadAssumption DEF Types
<1>4. CASE turn[t].cancelled
  <2> DEFINE x == Gone(turn[t].stops, TRUE)
  <2>1. turn' = [turn EXCEPT ![t] = x] /\ running' = running
    BY <1>4 DEF Finish, WasCancelled
  <2>2. x \in TurnRecord
    BY TurnTypes
  <2>3. x.at = "over" /\ x.stops = turn[t].stops /\ x.cancelled = TRUE /\ x.partly = {}
    BY DEF Gone, NewTurn
  <2> HIDE DEF x
  <2> QED
    BY <1>1, <1>2, <1>4, <2>1, <2>2, <2>3 DEF Stops
<1>5. CASE ~ turn[t].cancelled
  <2> DEFINE x == Gone(Append(turn[t].stops, reason), turn[t].cancelled)
  <2>1. turn' = [turn EXCEPT ![t] = x] /\ running' = 0
    BY <1>5 DEF Finish, WasCancelled
  <2>2. x \in TurnRecord
    BY <1>1, TurnTypes
  <2>3. x.at = "over" /\ x.stops = Append(turn[t].stops, reason)
        /\ x.cancelled = turn[t].cancelled /\ x.partly = {}
    BY DEF Gone, NewTurn
  <2> HIDE DEF x
  <2> QED
    BY <1>1, <1>2, <1>5, <2>1, <2>2, <2>3 DEF Stops
<1> QED
  BY <1>4, <1>5

\* More of an answer arrives.
LEMMA AnswersComeIn ==
    ASSUME Types, NEW t \in Turns, StartMessage(t) \/ PartialUse(t) \/ WholeUse(t)
    PROVE  /\ Types' /\ GoesOn(t)
           /\ messages' = messages \/ messages' = Flushed(messages, pending)
<1>1. /\ messages \in Seq(Message) /\ pending \in Pending /\ Empty \in Pending
      /\ tool \in [Runs -> {"none", "running", "ended", "over"}]
      /\ turn \in [Turns -> TurnRecord] /\ turn[t] \in TurnRecord
      /\ inputs \subseteq Calls /\ running \in 0 .. MaxTurns /\ (running = 0 => inputs = {})
      /\ late \subseteq Turns
  BY DEF Types, Empty, Pending
<1>2. CASE StartMessage(t)
  <2> DEFINE x == [turn[t] EXCEPT !.at = "streaming"]
  <2>1. turn' = [turn EXCEPT ![t] = x]
    BY <1>1, <1>2 DEF StartMessage, TurnRecord
  <2>2. x \in TurnRecord /\ x.at = "streaming" /\ x.cancelled = turn[t].cancelled
        /\ x.stops = turn[t].stops /\ x.first = turn[t].first
    BY <1>1 DEF TurnRecord
  <2> HIDE DEF x
  <2>3. Active(t) /\ UNCHANGED <<running, late, inputs, tool>>
        /\ messages' = Flushed(messages, pending)
    BY <1>2 DEF StartMessage, At, Active
  <2>4. GoesOn(t) /\ turn' \in [Turns -> TurnRecord]
    BY <2>1, <2>2, <2>3, LocalsChange
  <2>5. Flushed(messages, pending) \in Seq(Message)
    BY <1>1, WhatIsFlushed
  <2>6. pending' \in Pending
    BY <1>2, Names DEF StartMessage, Empty, Pending
  <2> QED
    BY <1>1, <2>3, <2>4, <2>5, <2>6 DEF Types
<1>3. ASSUME NEW c \in Calls, NEW locals \in TurnRecord, Adds(t, c, locals),
             locals.cancelled = turn[t].cancelled, locals.stops = turn[t].stops,
             locals.first = turn[t].first
      PROVE  /\ GoesOn(t) /\ turn' \in [Turns -> TurnRecord] /\ pending' \in Pending
             /\ UNCHANGED <<messages, running, late>>
  <2> DEFINE x == [locals EXCEPT !.at = "streaming"]
  <2>1. turn' = [turn EXCEPT ![t] = x] /\ Active(t) /\ UNCHANGED <<messages, running, late>>
        /\ pending' = [pending EXCEPT !.content = pending.content \union {c}]
    BY <1>3 DEF Adds, Streaming, At, Active
  <2>2. x \in TurnRecord /\ x.at = "streaming" /\ x.cancelled = turn[t].cancelled
        /\ x.stops = turn[t].stops /\ x.first = turn[t].first
    BY <1>3 DEF TurnRecord
  <2> HIDE DEF x
  <2>3. GoesOn(t) /\ turn' \in [Turns -> TurnRecord]
    BY <2>1, <2>2, LocalsChange
  <2>4. pending' \in Pending
    <3>1. c \in Items
      BY Names
    <3> QED
      BY <1>1, <2>1, <3>1 DEF Pending
  <2> QED
    BY <2>1, <2>3, <2>4
<1>4. ASSUME NEW c \in Calls, Run(c) \/ Refuse(c) \/ UNCHANGED tool
      PROVE  tool' \in [Runs -> {"none", "running", "ended", "over"}]
  BY <1>1, <1>4 DEF Run, Refuse
<1>5. turn[t].named + 1 <= MaxCalls =>
        turn[t].named + 1 \in 0 .. MaxCalls /\ <<t, turn[t].named + 1>> \in Calls
  BY <1>1, ThreadAssumption DEF TurnRecord, Calls
<1>6. ASSUME NEW c \in Calls, NEW locals \in TurnRecord,
             Part(t, c, locals) \/ Completes(t, c, locals),
             locals.cancelled = turn[t].cancelled, locals.stops = turn[t].stops,
             locals.first = turn[t].first
      PROVE  Types' /\ GoesOn(t) /\ messages' = messages
  <2>1. PICK parts \in {locals.partly \union {c}, locals.partly \ {c}} :
            Adds(t, c, [locals EXCEPT !.partly = parts])
    BY <1>6 DEF Part, Completes
  <2> DEFINE rest == [locals EXCEPT !.partly = parts]
  <2>2. rest \in TurnRecord /\ rest.cancelled = turn[t].cancelled
        /\ rest.stops = turn[t].stops /\ rest.first = turn[t].first
    BY <1>6 DEF TurnRecord
  <2> HIDE DEF rest
  <2>3. GoesOn(t) /\ turn' \in [Turns -> TurnRecord] /\ pending' \in Pending
        /\ UNCHANGED <<messages, running, late>>
    BY <1>3, <2>1, <2>2 DEF rest
  <2>4. /\ Run(c) \/ Refuse(c) \/ UNCHANGED tool
        /\ inputs' \subseteq Calls /\ (running = 0 => inputs' = {})
    BY <1>1, <1>6 DEF Part, Completes
  <2>5. tool' \in [Runs -> {"none", "running", "ended", "over"}]
    BY <1>4, <2>4
  <2> QED
    BY <1>1, <2>3, <2>4, <2>5 DEF Types
<1>7. ASSUME NEW c \in turn[t].partly, Part(t, c, turn[t]) \/ Completes(t, c, turn[t])
      PROVE  Types' /\ GoesOn(t) /\ messages' = messages
  <2>1. c \in Calls
    BY <1>1 DEF TurnRecord
  <2> QED
    BY <1>1, <1>6, <1>7, <2>1
<1> DEFINE n == turn[t].named + 1
           named == [turn[t] EXCEPT !.named = n]
<1>8. ASSUME n <= MaxCalls, Part(t, <<t, n>>, named) \/ Completes(t, <<t, n>>, named)
      PROVE  Types' /\ GoesOn(t) /\ messages' = messages
  <2>1. n \in 0 .. MaxCalls /\ <<t, n>> \in Calls
    BY <1>5, <1>8
  <2> HIDE DEF n
  <2>2. named \in TurnRecord /\ named.cancelled = turn[t].cancelled
        /\ named.stops = turn[t].stops /\ named.first = turn[t].first
    BY <1>1, <2>1 DEF TurnRecord
  <2> HIDE DEF named
  <2> QED
    BY <1>6, <1>8, <2>1, <2>2
<1>9. CASE PartialUse(t) \/ WholeUse(t)
  BY <1>7, <1>8, <1>9 DEF PartialUse, WholeUse
<1> QED
  BY <1>2, <1>9

\* A tool ends, and its result is taken in.
LEMMA ToolsCome ==
    ASSUME Types,
           (\E t \in Turns : TakesResult(t)) \/ (\E r \in Runs : ToolEnds(r))
    PROVE  Types' /\ UNCHANGED <<messages, running, turn, late>>
<1>1. /\ pending \in Pending /\ tool \in [Runs -> {"none", "running", "ended", "over"}]
  BY DEF Types
<1>2. ASSUME NEW r \in Runs, ToolEnds(r) PROVE Types' /\ UNCHANGED <<messages, running, turn, late>>
  BY <1>1, <1>2 DEF ToolEnds, Types
<1>3. ASSUME NEW t \in Turns, TakesResult(t)
      PROVE  Types' /\ UNCHANGED <<messages, running, turn, late>>
  <2> PICK r \in RunsIn(t, {"running"}) : pending' = WithResults({r[1]}) /\ tool' = Over({r})
    BY <1>3 DEF TakesResult
  <2>1. r \in Runs /\ r[1] \in Calls
    BY Names DEF RunsIn, RunsOf
  <2>2. pending' \in Pending
    BY <1>1, <2>1 DEF WithResults, Pending
  <2>3. tool' \in [Runs -> {"none", "running", "ended", "over"}]
    BY <1>1 DEF Over
  <2> QED
    BY <1>3, <2>2, <2>3 DEF TakesResult, Types
<1> QED
  BY <1>2, <1>3

\* The answer has come to its end, one way or another.
LEMMA AnswersEnd ==
    ASSUME Types, NEW t \in Turns,
           StreamEnds(t) \/ ToolFails(t) \/ StreamFails(t) \/ NoticesCancel(t) \/ Fallback(t)
    PROVE  Types' /\ GoesOn(t) /\ messages' = messages
<1>1. /\ pending \in Pending /\ tool \in [Runs -> {"none", "running", "ended", "over"}]
      /\ turn \in [Turns -> TurnRecord] /\ turn[t] \in TurnRecord
      /\ messages \in Seq(Message) /\ Empty \in Pending
      /\ running \in 0 .. MaxTurns /\ late \subseteq Turns
  BY DEF Types, Empty, Pending
<1>2. Active(t)
  BY DEF StreamEnds, ToolFails, StreamFails, NoticesCancel, Fallback, Streaming, At, Active
<1>3. ASSUME NEW runs PROVE Over(runs) \in [Runs -> {"none", "running", "ended", "over"}]
  BY <1>1 DEF Over
<1>4. ASSUME NEW why, Leaves(t, why) PROVE Types' /\ GoesOn(t) /\ messages' = messages
  <2> DEFINE ended == RunsIn(t, {"ended"})
             next == IF why = "ended" /\ RunsIn(t, {"running", "ended"}) # {}
                     THEN "acted" ELSE IF why = "failed" THEN why ELSE "end"
             x == [turn[t] EXCEPT !.at = "tools", !.partly = {}, !.why = next]
  <2>1. turn' = [turn EXCEPT ![t] = x]
    BY <1>1, <1>4 DEF Leaves, TurnRecord
  <2>2. next \in {"none", "failed", "acted", "end"}
    OBVIOUS
  <2> HIDE DEF next
  <2>3. x \in TurnRecord /\ x.at = "tools" /\ x.cancelled = turn[t].cancelled
        /\ x.stops = turn[t].stops /\ x.first = turn[t].first
    BY <1>1, <2>2 DEF TurnRecord
  <2> HIDE DEF x
  <2>4. UNCHANGED <<messages, running, late>> /\ inputs' = {} /\ tool' = Over(ended)
        /\ pending' = WithResults(CallsOf(ended))
    BY <1>4 DEF Leaves, Drained
  <2>5. GoesOn(t) /\ turn' \in [Turns -> TurnRecord]
    BY <1>2, <2>1, <2>3, <2>4, LocalsChange
  <2>6. CallsOf(ended) \subseteq Calls
    BY Names DEF CallsOf, RunsIn, RunsOf
  <2> HIDE DEF ended
  <2>7. pending' \in Pending
    BY <1>1, <2>4, <2>6 DEF WithResults, Pending
  <2>8. tool' \in [Runs -> {"none", "running", "ended", "over"}]
    BY <1>3, <2>4
  <2> QED
    BY <1>1, <2>4, <2>5, <2>7, <2>8 DEF Types
<1>5. CASE Fallback(t)
  <2>1. turn[t].attempt \in 0 .. MaxAttempts
    BY <1>1 DEF TurnRecord
  <2>2. Ask(t, turn[t].attempt) /\ UNCHANGED <<messages, running, late>>
        /\ pending' = Empty /\ inputs' = {} /\ tool' = Over(RunsIn(t, {"running", "ended"}))
    BY <1>5 DEF Fallback, Drained, Drop
  <2>3. GoesOn(t) /\ turn' \in [Turns -> TurnRecord]
    BY <1>2, <2>1, <2>2, Asks
  <2>4. tool' \in [Runs -> {"none", "running", "ended", "over"}]
    BY <1>3, <2>2
  <2> QED
    BY <1>1, <2>2, <2>3, <2>4 DEF Types
<1> QED
  BY <1>4, <1>5 DEF StreamEnds, ToolFails, StreamFails, NoticesCancel

\* What is kept of the messages when a turn ends, and whose refusal cuts them.
Kept(t, reason) ==
    IF reason = "refusal" /\ turn[t].first < Len(Flushed(messages, pending))
    THEN SubSeq(Flushed(messages, pending), 1, turn[t].first)
    ELSE Flushed(messages, pending)

\* A turn ends in the midst of an answer.
LEMMA TurnsBreakOff ==
    ASSUME Types, NEW t \in Turns, Refusal(t) \/ OutOfTokens(t)
    PROVE  \E reason \in {"refusal", "max_tokens"} :
            /\ Types' /\ Stops(t, reason)
            /\ IF turn[t].cancelled THEN messages' = messages ELSE messages' = Kept(t, reason)
<1>1. /\ pending \in Pending /\ tool \in [Runs -> {"none", "running", "ended", "over"}]
      /\ turn \in [Turns -> TurnRecord] /\ turn[t] \in TurnRecord
      /\ messages \in Seq(Message) /\ Empty \in Pending
      /\ running \in 0 .. MaxTurns /\ late \subseteq Turns
      /\ inputs \subseteq Calls /\ (running = 0 => inputs = {})
  BY DEF Types, Empty, Pending
<1>2. PICK reason \in {"refusal", "max_tokens"} :
        /\ Ends(t, reason) /\ tool' = Over(RunsIn(t, {"running", "ended"}))
        /\ inputs' = {} \/ inputs' = InputsLeft(t)
        /\ Active(t)
  BY DEF Refusal, OutOfTokens, Drained, Drop, Streaming, At, Active
<1>3. Finish(t, reason) /\ UNCHANGED late /\ reason \in Reasons
  BY <1>2 DEF Ends, Reasons
<1>4. /\ Stops(t, reason) /\ turn' \in [Turns -> TurnRecord]
      /\ running' \in 0 .. MaxTurns /\ (~ turn[t].cancelled \/ running' = running)
  BY <1>2, <1>3, Finishes
<1>5. IF turn[t].cancelled THEN UNCHANGED <<messages, pending>>
      ELSE messages' = Kept(t, reason) /\ pending' = Empty
  BY <1>2 DEF Ends, WasCancelled, Kept
<1>6. Kept(t, reason) \in Seq(Message)
  <2> DEFINE ms == Flushed(messages, pending)
  <2>1. ms \in Seq(Message) /\ Len(ms) \in Nat
    BY <1>1, WhatIsFlushed
  <2> HIDE DEF ms
  <2>2. turn[t].first \in Nat
    BY <1>1 DEF TurnRecord
  <2>3. turn[t].first < Len(ms) => SubSeq(ms, 1, turn[t].first) \in Seq(Message)
    BY <2>1, <2>2, WhatIsLeft
  <2> QED
    BY <2>1, <2>3 DEF Kept, ms
<1>7. messages' \in Seq(Message) /\ pending' \in Pending
  BY <1>1, <1>5, <1>6
<1>8. tool' \in [Runs -> {"none", "running", "ended", "over"}]
  BY <1>1, <1>2 DEF Over
<1>9. inputs' \subseteq Calls /\ (running' = 0 => inputs' = {})
  BY <1>1, <1>2, <1>4 DEF InputsLeft, WasCancelled
<1> QED
  BY <1>1, <1>3, <1>4, <1>5, <1>7, <1>8, <1>9 DEF Types

\* A turn ends after its tools, or goes on to another request.
LEMMA AnswersAreOver ==
    ASSUME Types, NEW t \in Turns,
           Done(t) \/ GivesUp(t) \/ AsksAgain(t) \/ WillRetry(t)
    PROVE  /\ Types' /\ (GoesOn(t) \/ Stops(t, "ended"))
           /\ messages' = Flushed(messages, pending)
<1>1. /\ pending \in Pending /\ tool \in [Runs -> {"none", "running", "ended", "over"}]
      /\ turn \in [Turns -> TurnRecord] /\ turn[t] \in TurnRecord
      /\ messages \in Seq(Message) /\ Empty \in Pending
      /\ running \in 0 .. MaxTurns /\ late \subseteq Turns
      /\ inputs \subseteq Calls /\ (running = 0 => inputs = {})
  BY DEF Types, Empty, Pending
<1>2. /\ Active(t) /\ UNCHANGED <<late, tool>>
      /\ messages' = Flushed(messages, pending) /\ pending' = Empty
  BY DEF Done, GivesUp, AsksAgain, WillRetry, Answered, Flush, At, Active
<1>3. messages' \in Seq(Message)
  BY <1>1, <1>2, WhatIsFlushed
<1>4. CASE Done(t) \/ GivesUp(t)
  <2>1. Finish(t, "ended") /\ inputs' = InputsLeft(t) /\ "ended" \in Reasons
    BY <1>4 DEF Done, GivesUp, Reasons
  <2>2. /\ Stops(t, "ended") /\ turn' \in [Turns -> TurnRecord]
        /\ running' \in 0 .. MaxTurns /\ (~ turn[t].cancelled \/ running' = running)
    BY <1>2, <2>1, Finishes
  <2>3. inputs' \subseteq Calls /\ (running' = 0 => inputs' = {})
    BY <1>1, <2>1, <2>2 DEF InputsLeft, WasCancelled
  <2> QED
    BY <1>1, <1>2, <1>3, <2>2, <2>3 DEF Types
<1>5. CASE AsksAgain(t)
  <2>1. Ask(t, 0) /\ UNCHANGED <<running, inputs>> /\ 0 \in 0 .. MaxAttempts
    BY <1>5, ThreadAssumption DEF AsksAgain
  <2>2. GoesOn(t) /\ turn' \in [Turns -> TurnRecord]
    BY <1>2, <2>1, Asks
  <2> QED
    BY <1>1, <1>2, <1>3, <2>1, <2>2 DEF Types
<1>6. CASE WillRetry(t)
  <2> DEFINE x == [turn[t] EXCEPT !.at = "delay", !.why = "none", !.attempt = turn[t].attempt + 1]
  <2>1. turn' = [turn EXCEPT ![t] = x] /\ UNCHANGED <<running, inputs>>
    BY <1>1, <1>6 DEF WillRetry, TurnRecord
  <2>2. turn[t].attempt + 1 \in 0 .. MaxAttempts
    BY <1>1, <1>6, ThreadAssumption DEF WillRetry, Exhausted, TurnRecord
  <2>3. x \in TurnRecord /\ x.at = "delay" /\ x.cancelled = turn[t].cancelled
        /\ x.stops = turn[t].stops /\ x.first = turn[t].first
    BY <1>1, <2>2 DEF TurnRecord
  <2> HIDE DEF x
  <2>4. GoesOn(t) /\ turn' \in [Turns -> TurnRecord]
    BY <1>2, <2>1, <2>3, LocalsChange
  <2> QED
    BY <1>1, <1>2, <1>3, <2>1, <2>4 DEF Types
<1> QED
  BY <1>2, <1>4, <1>5, <1>6

\* A retry's delay ends.
LEMMA DelaysEnd ==
    ASSUME Types, NEW t \in Turns, Retries(t) \/ StopsWaiting(t)
    PROVE  /\ Types' /\ (GoesOn(t) \/ Stops(t, "ended"))
           /\ messages' = messages \/ messages' = Append(messages, Resume)
<1>1. /\ pending \in Pending /\ tool \in [Runs -> {"none", "running", "ended", "over"}]
      /\ turn \in [Turns -> TurnRecord] /\ turn[t] \in TurnRecord
      /\ messages \in Seq(Message)
      /\ running \in 0 .. MaxTurns /\ late \subseteq Turns
      /\ inputs \subseteq Calls /\ (running = 0 => inputs = {})
  BY DEF Types, Pending
<1>2. Active(t) /\ UNCHANGED <<pending, inputs, late, tool>>
      /\ (messages' = messages \/ messages' = Append(messages, Resume))
  BY DEF Retries, StopsWaiting, At, Active
<1>3. messages' \in Seq(Message)
  <2>1. Resume \in Message
    BY DEF Resume, Message
  <2>2. Append(messages, Resume) \in Seq(Message)
    BY <1>1, <2>1, WhatIsAdded
  <2> QED
    BY <1>1, <1>2, <2>2
<1>4. CASE Retries(t)
  <2>1. Ask(t, turn[t].attempt) /\ turn[t].attempt \in 0 .. MaxAttempts /\ UNCHANGED running
    BY <1>1, <1>4 DEF Retries, TurnRecord
  <2>2. GoesOn(t) /\ turn' \in [Turns -> TurnRecord]
    BY <1>2, <2>1, Asks
  <2> QED
    BY <1>1, <1>2, <1>3, <2>1, <2>2 DEF Types
<1>5. CASE StopsWaiting(t)
  <2>1. Finish(t, "ended") /\ "ended" \in Reasons /\ turn[t].cancelled
    BY <1>5 DEF StopsWaiting, Reasons
  <2>2. /\ Stops(t, "ended") /\ turn' \in [Turns -> TurnRecord] /\ running' = running
    BY <1>2, <2>1, Finishes
  <2> QED
    BY <1>1, <1>2, <1>3, <2>2 DEF Types
<1> QED
  BY <1>2, <1>4, <1>5

\* What a turn's step does to the turns and to what the user said.
NothingIsSaid ==
    \A i \in DOMAIN messages' : messages'[i].kind = "user" =>
        i \in DOMAIN messages /\ messages'[i] = messages[i]

\* A flush, or a resumed turn, says nothing in the name of the agent that it did not say.
LEMMA Saying ==
    ASSUME messages \in Seq(Message), pending \in Pending,
           \/ messages' = messages
           \/ messages' = Flushed(messages, pending)
           \/ messages' = Append(messages, Resume)
    PROVE  NothingIsSaid
<1>1. CASE messages' = messages
  BY <1>1 DEF NothingIsSaid
<1>2. CASE messages' = Flushed(messages, pending)
  <2>1. /\ Agent(pending).kind = "agent"
        /\ \A i \in DOMAIN messages : messages'[i] = messages[i]
        /\ \A i \in DOMAIN messages' : i \in DOMAIN messages \/ messages'[i] = Agent(pending)
    BY <1>2, WhatIsFlushed
  <2> HIDE DEF Agent
  <2> QED
    BY <2>1 DEF NothingIsSaid
<1>3. CASE messages' = Append(messages, Resume)
  <2>1. Resume \in Message /\ Resume.kind = "resume"
    BY DEF Resume, Message
  <2>2. /\ Len(messages) \in Nat /\ DOMAIN messages = 1 .. Len(messages)
        /\ DOMAIN messages' = 1 .. (Len(messages) + 1)
        /\ \A i \in DOMAIN messages : messages'[i] = messages[i]
        /\ messages'[Len(messages) + 1] = Resume
    BY <1>3, <2>1, WhatIsAdded
  <2> QED
    BY <2>1, <2>2 DEF NothingIsSaid
<1> QED
  BY <1>1, <1>2, <1>3

\* What a step of a turn, or of a tool, does to the turns and the messages.
LEMMA StepsOfTurns ==
    ASSUME Types, NEW t \in Turns, Step(t)
    PROVE  /\ Types'
           /\ \/ GoesOn(t) /\ NothingIsSaid
              \/ Stops(t, "ended") /\ NothingIsSaid
              \/ Stops(t, "max_tokens") /\ NothingIsSaid
              \/ Stops(t, "refusal") /\ turn[t].cancelled /\ NothingIsSaid
              \/ Stops(t, "refusal") /\ ~ turn[t].cancelled /\ messages' = Kept(t, "refusal")
              \/ UNCHANGED <<messages, running, turn, late>>
           /\ messages' \in {messages, Flushed(messages, pending), Append(messages, Resume),
                             Kept(t, "refusal")}
<1>1. messages \in Seq(Message) /\ pending \in Pending
  BY DEF Types
<1>2. CASE StartMessage(t) \/ PartialUse(t) \/ WholeUse(t)
  BY <1>1, <1>2, AnswersComeIn, Saying
<1>3. CASE TakesResult(t)
  BY <1>3, ToolsCome
<1>4. CASE StreamEnds(t) \/ ToolFails(t) \/ StreamFails(t) \/ NoticesCancel(t) \/ Fallback(t)
  BY <1>1, <1>4, AnswersEnd, Saying
<1>5. CASE Refusal(t) \/ OutOfTokens(t)
  <2> PICK reason \in {"refusal", "max_tokens"} :
        /\ Types' /\ Stops(t, reason)
        /\ IF turn[t].cancelled THEN messages' = messages ELSE messages' = Kept(t, reason)
    BY <1>5, TurnsBreakOff
  <2>1. CASE turn[t].cancelled
    <3>1. NothingIsSaid
      BY <1>1, <2>1, Saying
    <3> QED
      BY <2>1, <3>1
  <2>2. CASE ~ turn[t].cancelled /\ reason = "max_tokens"
    <3>1. messages' = Flushed(messages, pending)
      BY <2>2 DEF Kept
    <3>2. NothingIsSaid
      BY <1>1, <3>1, Saying
    <3> QED
      BY <2>2, <3>1, <3>2
  <2>3. CASE ~ turn[t].cancelled /\ reason = "refusal"
    BY <2>3
  <2> QED
    BY <2>1, <2>2, <2>3
<1>6. CASE Done(t) \/ GivesUp(t) \/ AsksAgain(t) \/ WillRetry(t)
  BY <1>1, <1>6, AnswersAreOver, Saying
<1>7. CASE Retries(t) \/ StopsWaiting(t)
  BY <1>1, <1>7, DelaysEnd, Saying
<1> QED
  BY <1>2, <1>3, <1>4, <1>5, <1>6, <1>7 DEF Step

\* Every step keeps the types.
LEMMA TypesStep == Types /\ [Next]_vars => Types'
<1> SUFFICES ASSUME Types, [Next]_vars PROVE Types'
  OBVIOUS
<1>1. CASE UNCHANGED vars
  BY <1>1 DEF vars, Types
<1>2. CASE Cancel \/ \E t \in Turns : Send(t) \/ ResumeTurn(t) \/ Truncate(t) \/ LateFlush(t)
  BY <1>2, CallsKeepTypes
<1>3. CASE \E t \in Turns : Step(t)
  BY <1>3, StepsOfTurns
<1>4. CASE \E r \in Runs : ToolEnds(r)
  BY <1>4, ToolsCome
<1> QED
  BY <1>1, <1>2, <1>3, <1>4 DEF Next

\* In every state the messages, the turns and the tools are such as the functions that
\* work on them take: tool uses are those the turns have named, and a thread without
\* a turn waits for no input.
THEOREM TypeCorrect == Spec => []TypeOK
<1>1. Types => TypeOK
  <2> SUFFICES ASSUME Types PROVE TypeOK
    OBVIOUS
  <2>1. \A i \in DOMAIN messages : messages[i] \in Message
    BY ElementOfSeq, LenProperties DEF Types
  <2>2. \A t \in Turns : turn[t] \in TurnRecord
    BY DEF Types
  <2> QED
    BY <2>1, <2>2 DEF Types, TypeOK, TurnRecord, Pending
<1>2. Types /\ [Next]_vars => Types'
  BY TypesStep
<1> QED
  BY <1>1, <1>2, TypesInit, PTL DEF Spec

\* Of a turn that has not begun, or has told its client how it ended.
Told(t) ==
    /\ turn[t].at = "none" => ~ turn[t].cancelled /\ turn[t].stops = <<>>
    /\ turn[t].cancelled => turn[t].stops = <<"cancelled">>
    /\ ~ turn[t].cancelled /\ Active(t) => turn[t].stops = <<>>
    /\ ~ turn[t].cancelled /\ turn[t].at = "over" =>
        \E why \in Reasons : turn[t].stops = <<why>>

TurnsAreKnown ==
    /\ running # 0 => Active(running) /\ ~ turn[running].cancelled
    /\ \A t \in Turns : Active(t) /\ ~ turn[t].cancelled => running = t
    /\ \A t \in Turns : Told(t)
    /\ \A t \in late : turn[t].cancelled

\* The turn that is cancelled is the one that runs.
LEMMA WhatCancelDoes ==
    ASSUME Types, TurnsAreKnown
    PROVE  /\ \A u \in Turns : u # running => Cancelled[u] = turn[u]
           /\ running \in Turns =>
                /\ Cancelled[running].cancelled /\ Cancelled[running].stops = <<"cancelled">>
                /\ Cancelled[running].at = turn[running].at
           /\ running # 0 => running \in Turns
<1>1. turn \in [Turns -> TurnRecord] /\ (running # 0 => running \in Turns)
  BY Names DEF Types
<1>2. CASE running = 0
  BY <1>2, Names DEF Cancelled
<1>3. CASE running # 0
  <2>1. turn[running].stops = <<>> /\ running \in Turns /\ turn[running] \in TurnRecord
    BY <1>1, <1>3 DEF TurnsAreKnown, Told
  <2>2. Append(turn[running].stops, "cancelled") = <<"cancelled">>
    BY <2>1
  <2> DEFINE stops == Append(turn[running].stops, "cancelled")
             x == [turn[running] EXCEPT !.cancelled = TRUE, !.stops = stops]
  <2>3. Cancelled = [turn EXCEPT ![running] = x]
    BY <1>1, <1>3, <2>1 DEF Cancelled, TurnRecord
  <2> HIDE DEF stops
  <2>4. x.cancelled /\ x.stops = stops /\ x.at = turn[running].at
    BY <2>1 DEF TurnRecord
  <2> HIDE DEF x
  <2>5. stops = <<"cancelled">>
    BY <2>2 DEF stops
  <2> QED
    BY <1>1, <1>3, <2>1, <2>3, <2>4, <2>5
<1> QED
  BY <1>2, <1>3

\* No turn runs at first.
LEMMA KnownInit == Init => TurnsAreKnown
BY Names DEF Init, TurnsAreKnown, Told, Active, NewTurn

\* One turn runs at most: a new one cancels its predecessor, and a late flush starts none.
LEMMA KnownStep == Types /\ TurnsAreKnown /\ [Next]_vars => TurnsAreKnown'
<1> SUFFICES ASSUME Types, TurnsAreKnown, [Next]_vars PROVE TurnsAreKnown'
  OBVIOUS
<1>1. turn \in [Turns -> TurnRecord] /\ late \subseteq Turns /\ 0 \notin Turns
  BY Names DEF Types
<1>2. /\ running # 0 => Active(running) /\ ~ turn[running].cancelled
      /\ \A t \in Turns : Active(t) /\ ~ turn[t].cancelled => running = t
      /\ \A t \in Turns : Told(t)
      /\ \A t \in late : turn[t].cancelled
      /\ \A u \in Turns : u # running => Cancelled[u] = turn[u]
      /\ running # 0 =>
            /\ running \in Turns
            /\ Cancelled[running].cancelled /\ Cancelled[running].stops = <<"cancelled">>
            /\ Cancelled[running].at = turn[running].at
  BY WhatCancelDoes DEF TurnsAreKnown
<1>3. CASE UNCHANGED <<running, turn, late>>
  BY <1>3 DEF TurnsAreKnown, Told, Active
<1>4. ASSUME NEW t \in Turns, GoesOn(t) PROVE TurnsAreKnown'
  <2>1. \A u \in Turns : u # t => turn'[u] = turn[u]
    BY <1>4 DEF GoesOn
  <2>2. /\ turn'[t].cancelled = turn[t].cancelled /\ turn'[t].stops = turn[t].stops
        /\ running' = running /\ late' = late
    BY <1>4 DEF GoesOn
  <2>3. Active(t) /\ Active(t)' /\ Told(t)
    BY <1>2, <1>4 DEF GoesOn
  <2>4. Told(t)'
    BY <2>2, <2>3 DEF Told, Active
  <2>5. \A u \in Turns : u # t => (Told(u) /\ Told(u)' /\ (Active(u)' <=> Active(u)))
    BY <1>2, <2>1 DEF Told, Active
  <2>6. \A u \in Turns : turn'[u].cancelled = turn[u].cancelled /\ (Active(u)' <=> Active(u))
    BY <2>1, <2>2, <2>3, <2>5
  <2>7. running' # 0 => Active(running)' /\ ~ turn'[running].cancelled
    BY <1>2, <2>2, <2>6
  <2> QED
    BY <1>1, <1>2, <2>2, <2>4, <2>5, <2>6, <2>7 DEF TurnsAreKnown, Active
<1>5. ASSUME NEW t \in Turns, NEW reason \in Reasons, Stops(t, reason) PROVE TurnsAreKnown'
  <2>1. CASE turn[t].cancelled
    <3>1. running' = running /\ late' = late /\ turn'[t].at = "over" /\ turn'[t].cancelled
          /\ turn'[t].stops = turn[t].stops /\ turn[t].stops = <<"cancelled">>
      BY <1>2, <1>5, <2>1 DEF Stops, Told
    <3>2. \A u \in Turns : u # t => turn'[u] = turn[u]
      BY <1>5 DEF Stops
    <3>3. running # t
      BY <1>1, <1>2, <2>1
    <3>4. \A u \in Turns : Told(u)'
      BY <1>2, <3>1, <3>2 DEF Told, Active
    <3>5. \A u \in late' : turn'[u].cancelled
      BY <1>1, <1>2, <3>1, <3>2
    <3>6. running # 0 => turn'[running] = turn[running]
      BY <1>2, <3>2, <3>3
    <3>7. running' # 0 => Active(running)' /\ ~ turn'[running].cancelled
      BY <1>2, <3>1, <3>6 DEF Active
    <3>8. \A u \in Turns : (Active(u) /\ ~ turn[u].cancelled)' => running' = u
      BY <1>2, <3>1, <3>2 DEF Active
    <3> QED
      BY <3>1, <3>4, <3>5, <3>7, <3>8 DEF TurnsAreKnown
  <2>2. CASE ~ turn[t].cancelled
    <3>1. running = t /\ running' = 0 /\ turn[t].stops = <<>>
          /\ turn'[t].stops = Append(turn[t].stops, reason)
      BY <1>2, <1>5, <2>2 DEF Stops, Told
    <3>2. turn'[t].stops = <<reason>>
      BY <3>1
    <3>3. Told(t)'
      BY <1>5, <2>2, <3>2 DEF Stops, Told, Active
    <3>4. \A u \in Turns : u # t => turn'[u] = turn[u] /\ Told(u)'
      BY <1>2, <1>5 DEF Stops, Told, Active
    <3>5. \A u \in Turns : ~ (Active(u) /\ ~ turn[u].cancelled)'
      BY <1>2, <1>5, <3>1, <3>4 DEF Stops, Active
    <3>6. \A u \in late' : turn'[u].cancelled
      BY <1>1, <1>2, <1>5, <2>2, <3>4 DEF Stops
    <3> QED
      BY <3>1, <3>3, <3>4, <3>5, <3>6 DEF TurnsAreKnown
  <2> QED
    BY <2>1, <2>2
<1>6. CASE turn' = Cancelled /\ late' = Awaited /\ running' = 0
  <2>1. \A u \in Turns : Told(u)' /\ ~ (Active(u) /\ ~ turn[u].cancelled)'
    BY <1>1, <1>2, <1>6 DEF Told, Active
  <2>2. \A u \in late' : turn'[u].cancelled
    BY <1>1, <1>2, <1>6 DEF Awaited
  <2> QED
    BY <1>6, <2>1, <2>2 DEF TurnsAreKnown
<1>7. ASSUME NEW t \in Turns, NEW ms, RunTurn(t, ms) PROVE TurnsAreKnown'
  <2> DEFINE first == MessageIx(messages')
             x == [NewTurn EXCEPT !.at = "asking", !.first = first]
  <2>1. /\ turn' = [Cancelled EXCEPT ![t] = x] /\ late' = Awaited /\ running' = t
        /\ turn[t].at = "none"
    BY <1>7 DEF RunTurn
  <2>2. x.at = "asking" /\ ~ x.cancelled /\ x.stops = <<>>
    BY DEF NewTurn
  <2> HIDE DEF x
  <2>3. Cancelled \in [Turns -> TurnRecord]
    BY TurnTypes
  <2>4. turn'[t] = x /\ \A u \in Turns : u # t => turn'[u] = Cancelled[u]
    BY <2>1, <2>3
  <2>5. t # running /\ ~ turn[t].cancelled
    <3>1. Told(t) /\ 0 # t
      BY <1>1, <1>2
    <3> QED
      BY <1>2, <2>1, <3>1 DEF Active, Told
  <2>6. t \notin late
    BY <1>2, <2>5
  <2>7. \A u \in Turns : Told(u)'
    <3>1. Told(t)'
      BY <2>2, <2>4 DEF Told, Active
    <3>2. ASSUME NEW u \in Turns, u # t PROVE Told(u)'
      <4>1. turn'[u] = Cancelled[u] /\ Told(u)
        BY <1>2, <2>4, <3>2
      <4>2. CASE u = running
        BY <1>1, <1>2, <4>1, <4>2 DEF Told, Active
      <4>3. CASE u # running
        BY <1>2, <4>1, <4>3 DEF Told, Active
      <4> QED
        BY <4>2, <4>3
    <3> QED
      BY <3>1, <3>2
  <2>8. ASSUME NEW u \in Turns, u # t PROVE ~ (Active(u) /\ ~ turn[u].cancelled)'
    <3>1. turn'[u] = Cancelled[u]
      BY <2>4, <2>8
    <3>2. CASE u = running
      BY <1>1, <1>2, <3>1, <3>2 DEF Active
    <3>3. CASE u # running
      BY <1>2, <3>1, <3>3 DEF Active
    <3> QED
      BY <3>2, <3>3
  <2>9. \A u \in late' : turn'[u].cancelled
    BY <1>1, <1>2, <2>1, <2>4, <2>5, <2>6 DEF Awaited
  <2>10. Active(t)' /\ ~ turn'[t].cancelled
    BY <2>2, <2>4 DEF Active
  <2> QED
    BY <2>1, <2>7, <2>8, <2>9, <2>10 DEF TurnsAreKnown
<1>8. CASE UNCHANGED vars
  BY <1>3, <1>8 DEF vars
<1>9. CASE \E t \in Turns : Send(t) \/ ResumeTurn(t)
  BY <1>7, <1>9 DEF Send, ResumeTurn
<1>10. CASE Cancel \/ \E t \in Turns : Truncate(t)
  BY <1>6, <1>10 DEF Cancel, Truncate
<1>11. ASSUME NEW t \in Turns, LateFlush(t) PROVE TurnsAreKnown'
  BY <1>2, <1>11 DEF LateFlush, TurnsAreKnown, Told, Active
<1>12. ASSUME NEW t \in Turns, Step(t) PROVE TurnsAreKnown'
  <2>1. {"ended", "max_tokens", "refusal"} \subseteq Reasons
    BY DEF Reasons
  <2> QED
    BY <1>3, <1>4, <1>5, <1>12, <2>1, StepsOfTurns
<1>13. CASE \E r \in Runs : ToolEnds(r)
  BY <1>3, <1>13, ToolsCome
<1> QED
  BY <1>8, <1>9, <1>10, <1>11, <1>12, <1>13 DEF Next

\* The types and what is known of the turns hold together.
LEMMA TurnsHold == Spec => [](Types /\ TurnsAreKnown)
<1>1. Init => Types /\ TurnsAreKnown
  BY TypesInit, KnownInit
<1>2. Types /\ TurnsAreKnown /\ [Next]_vars => Types' /\ TurnsAreKnown'
  BY TypesStep, KnownStep
<1> QED
  BY <1>1, <1>2, PTL DEF Spec

\* A thread knows the one turn that was not cancelled, however many tasks of cancelled
\* turns still come to their end, and in whatever order they do.
THEOREM OneTurnRunsHolds == Spec => []OneTurnRuns
<1>1. TurnsAreKnown => OneTurnRuns
  BY DEF TurnsAreKnown, OneTurnRuns, Active, At
<1> QED
  BY <1>1, TurnsHold, PTL

\* The client of a turn is told one reason for its end, and told once: by the one that
\* cancels it, or by its task.
THEOREM OneStopEachHolds == Spec => []OneStopEach
<1>1. Types /\ TurnsAreKnown => OneStopEach
  <2> SUFFICES ASSUME Types, TurnsAreKnown, NEW t \in Turns
               PROVE  Len(turn[t].stops) <= 1 /\ (At(t, {"over"}) => turn[t].stops # <<>>)
    BY DEF OneStopEach
  <2>1. turn[t].at \in {"none", "over"} \/ Active(t)
    BY DEF Active
  <2>2. \/ turn[t].stops = <<>> /\ turn[t].at # "over"
        \/ turn[t].stops = <<"cancelled">>
        \/ \E why \in Reasons : turn[t].stops = <<why>>
    <3>1. Told(t) /\ turn[t].cancelled \in BOOLEAN
      BY DEF TurnsAreKnown, Types, TurnRecord
    <3> QED
      BY <2>1, <3>1 DEF Told, Active
  <2>3. Len(<<>>) = 0 /\ \A why \in Reasons : Len(<<why>>) = 1 /\ <<why>> # <<>>
    OBVIOUS
  <2>4. Len(<<"cancelled">>) = 1 /\ <<"cancelled">> # <<>>
    OBVIOUS
  <2>5. Len(turn[t].stops) <= 1
    <3>1. CASE turn[t].stops = <<>>
      BY <2>3, <3>1
    <3>2. CASE turn[t].stops = <<"cancelled">>
      BY <2>4, <3>2
    <3>3. ASSUME NEW why \in Reasons, turn[t].stops = <<why>> PROVE Len(turn[t].stops) <= 1
      BY <2>3, <3>3
    <3> QED
      BY <2>2, <3>1, <3>2, <3>3
  <2>6. turn[t].at = "over" => turn[t].stops # <<>>
    BY <2>2, <2>3, <2>4
  <2> QED
    BY <2>5, <2>6 DEF At
<1> QED
  BY <1>1, TurnsHold, PTL

\* What came before a turn is before the index it remembers.
CutIsRight ==
    running # 0 => \A i \in DOMAIN messages :
        messages[i].kind = "user" => i <= turn[running].first \/ messages[i] = User(running)

\* What the user says after the start of a turn that runs is its own message.
LEMMA CutStep ==
    Types /\ TurnsAreKnown /\ CutIsRight /\ [Next]_vars => CutIsRight'
<1> SUFFICES ASSUME Types, TurnsAreKnown, CutIsRight, [Next]_vars PROVE CutIsRight'
  OBVIOUS
<1>1. /\ turn \in [Turns -> TurnRecord] /\ messages \in Seq(Message) /\ pending \in Pending
      /\ (running # 0 => running \in Turns)
  BY Names DEF Types
<1>2. CASE running' = 0
  BY <1>2 DEF CutIsRight
<1>3. ASSUME running' = running, running # 0, turn'[running].first = turn[running].first,
             NothingIsSaid
      PROVE  CutIsRight'
  BY <1>3 DEF NothingIsSaid, CutIsRight, User
<1>4. CASE UNCHANGED <<messages, running, turn>>
  BY <1>4 DEF CutIsRight
<1>5. ASSUME NEW t \in Turns, NEW m \in {User(t), Resume}, RunTurn(t, Append(messages, m))
      PROVE  CutIsRight'
  <2>1. m \in Message /\ (m.kind = "user" => m = User(t))
    BY DEF User, Resume, Message
  <2> DEFINE ms == Append(messages, m)
  <2>2. /\ ms \in Seq(Message) /\ Len(ms) = Len(messages) + 1 /\ Len(messages) \in Nat
        /\ DOMAIN ms = 1 .. (Len(messages) + 1) /\ ms[Len(messages) + 1] = m
    BY <1>1, <2>1, WhatIsAdded
  <2>3. messages' = Flushed(ms, pending)
    BY <1>5 DEF RunTurn
  <2> HIDE DEF ms
  <2>4. /\ Agent(pending).kind = "agent"
        /\ Len(messages') \in Nat /\ DOMAIN messages' = 1 .. Len(messages')
        /\ Len(ms) <= Len(messages')
        /\ \A i \in DOMAIN ms : messages'[i] = ms[i]
        /\ \A i \in DOMAIN messages' : i \in DOMAIN ms \/ messages'[i] = Agent(pending)
    <3>1. ms \in Seq(Message) /\ pending \in Pending
      BY <1>1, <2>2
    <3> HIDE DEF Agent
    <3> QED
      BY ONLY <2>3, <3>1, WhatIsFlushed
  <2> HIDE DEF Agent
  <2> DEFINE first == MessageIx(messages')
             x == [NewTurn EXCEPT !.at = "asking", !.first = first]
  <2>5. turn' = [Cancelled EXCEPT ![t] = x] /\ running' = t
    BY <1>5 DEF RunTurn
  <2>6. x.first = first
    BY DEF NewTurn
  <2> HIDE DEF x
  <2>7. Cancelled \in [Turns -> TurnRecord]
    BY TurnTypes
  <2>8. turn'[t].first = Len(messages') - 1
    BY <2>5, <2>6, <2>7 DEF MessageIx
  <2>9. ASSUME NEW i \in DOMAIN messages', messages'[i].kind = "user"
        PROVE  i <= turn'[t].first \/ messages'[i] = User(t)
    <3>1. i \in DOMAIN ms /\ messages'[i] = ms[i]
      BY <2>4, <2>9
    <3>2. i = Len(messages) + 1 => messages'[i] = User(t)
      BY <2>1, <2>2, <2>9, <3>1
    <3> QED
      BY <2>2, <2>4, <2>8, <3>1, <3>2
  <2> QED
    BY <2>5, <2>9 DEF CutIsRight
<1>6. CASE Cancel \/ \E t \in Turns : Truncate(t)
  BY <1>2, <1>6 DEF Cancel, Truncate
<1>7. ASSUME NEW t \in Turns, LateFlush(t) PROVE CutIsRight'
  <2>1. messages' = Flushed(messages, pending) /\ UNCHANGED <<running, turn>>
    BY <1>7 DEF LateFlush, Flush
  <2>2. NothingIsSaid
    BY <1>1, <2>1, Saying
  <2> QED
    BY <1>2, <1>3, <2>1, <2>2
<1>8. ASSUME NEW t \in Turns, Step(t) PROVE CutIsRight'
  <2>1. ASSUME GoesOn(t), NothingIsSaid, running' # 0 PROVE CutIsRight'
    <3>1. running' = running /\ running \in Turns
      BY <1>1, <2>1 DEF GoesOn
    <3>2. turn'[running].first = turn[running].first
      BY <2>1, <3>1 DEF GoesOn
    <3> QED
      BY <1>3, <2>1, <3>1, <3>2
  <2>2. ASSUME NEW reason, Stops(t, reason), turn[t].cancelled, NothingIsSaid, running' # 0
        PROVE  CutIsRight'
    <3>1. running' = running /\ running \in Turns /\ running # t
      BY <1>1, <2>2 DEF Stops, TurnsAreKnown
    <3>2. turn'[running] = turn[running]
      BY <2>2, <3>1 DEF Stops
    <3> QED
      BY <1>3, <2>2, <3>1, <3>2
  <2>3. ASSUME NEW reason, Stops(t, reason), ~ turn[t].cancelled PROVE running' = 0
    BY <2>3 DEF Stops
  <2> QED
    BY <1>2, <1>4, <1>8, <2>1, <2>2, <2>3, StepsOfTurns
<1>9. CASE UNCHANGED vars
  BY <1>4, <1>9 DEF vars
<1>10. CASE \E r \in Runs : ToolEnds(r)
  BY <1>4, <1>10, ToolsCome
<1>11. CASE \E t \in Turns : Send(t) \/ ResumeTurn(t)
  BY <1>5, <1>11 DEF Send, ResumeTurn
<1> QED
  BY <1>6, <1>7, <1>8, <1>9, <1>10, <1>11 DEF Next

\* A refusal takes back at most the message that was refused, also when the turn that
\* was refused began while another's answer was still coming in: the index it cuts at,
\* taken when it began, is not below what the user had said before.
THEOREM RefusalSparesOthersHolds == Spec => RefusalSparesOthers
<1>1. Init => CutIsRight
  BY DEF Init, CutIsRight
<1>2. Types /\ TurnsAreKnown /\ CutIsRight /\ [Next]_vars
      => [\A t \in Turns : turn[t].stops = <<>> /\ turn'[t].stops = <<"refusal">> =>
                \A u \in Before(t) :
                    User(u) \in ToSet(messages) => User(u) \in ToSet(messages')]_vars
  <2> SUFFICES ASSUME Types, TurnsAreKnown, CutIsRight, [Next]_vars,
                      NEW t \in Turns, turn[t].stops = <<>>, turn'[t].stops = <<"refusal">>,
                      NEW u \in Before(t), User(u) \in ToSet(messages)
               PROVE  User(u) \in ToSet(messages')
    OBVIOUS
  <2>1. /\ messages \in Seq(Message) /\ pending \in Pending /\ turn \in [Turns -> TurnRecord]
        /\ 0 \notin Turns /\ turn[t].first \in Nat
    BY Names DEF Types, TurnRecord
  <2>2. <<"refusal">> # <<>> /\ <<"refusal">> # <<"cancelled">>
    OBVIOUS
  <2>3. turn[t] # turn'[t] /\ turn'[t].stops # <<>> /\ turn'[t].stops # <<"cancelled">>
    BY <2>2
  <2>4. Cancelled[t] = turn[t] \/ Cancelled[t].stops = <<"cancelled">>
    BY WhatCancelDoes
  <2>5. ~ (Cancel \/ \E s \in Turns : Truncate(s) \/ LateFlush(s))
    BY <2>3, <2>4 DEF Cancel, Truncate, LateFlush
  <2>6. ASSUME NEW s \in Turns, Send(s) \/ ResumeTurn(s) PROVE FALSE
    <3> DEFINE first == MessageIx(messages')
               x == [NewTurn EXCEPT !.at = "asking", !.first = first]
    <3>1. turn' = [Cancelled EXCEPT ![s] = x]
      BY <2>6 DEF Send, ResumeTurn, RunTurn
    <3>2. x.stops = <<>>
      BY DEF NewTurn
    <3> HIDE DEF x
    <3>3. Cancelled \in [Turns -> TurnRecord]
      BY TurnTypes
    <3> QED
      BY <2>3, <2>4, <3>1, <3>2, <3>3
  <2>7. ~ (UNCHANGED vars \/ \E r \in Runs : ToolEnds(r))
    BY <2>3, ToolsCome DEF vars
  <2>8. PICK s \in Turns : Step(s)
    BY <2>5, <2>6, <2>7 DEF Next
  <2>9. ~ GoesOn(s) /\ ~ UNCHANGED turn
    BY <2>3 DEF GoesOn
  <2>10. ASSUME NEW reason, Stops(s, reason)
         PROVE  s = t /\ ~ turn[t].cancelled /\ running = t /\ turn'[t].stops = <<reason>>
    <3>1. s = t
      BY <2>3, <2>10 DEF Stops
    <3>2. ~ turn[t].cancelled
      BY <2>2, <2>10, <3>1 DEF Stops
    <3>3. running = t /\ turn'[t].stops = Append(turn[t].stops, reason)
      BY <2>10, <3>1, <3>2 DEF Stops, TurnsAreKnown
    <3> QED
      BY <3>1, <3>2, <3>3
  <2>11. /\ <<"ended">> # <<"refusal">> /\ <<"max_tokens">> # <<"refusal">>
    OBVIOUS
  <2>12. /\ s = t /\ running = t /\ messages' = Kept(t, "refusal")
    <3>1. \/ Stops(s, "ended") \/ Stops(s, "max_tokens")
          \/ Stops(s, "refusal") /\ turn[s].cancelled
          \/ Stops(s, "refusal") /\ messages' = Kept(s, "refusal")
      BY <2>8, <2>9, StepsOfTurns
    <3>2. ~ Stops(s, "ended") /\ ~ Stops(s, "max_tokens")
      BY <2>10, <2>11
    <3> QED
      BY <2>10, <3>1, <3>2
  <2>13. User(u) # User(t) /\ User(u).kind = "user"
    BY Names DEF User, Before
  <2> PICK i \in DOMAIN messages : messages[i] = User(u)
    BY DEF ToSet
  <2>14. i <= turn[t].first
    BY <2>1, <2>12, <2>13 DEF CutIsRight
  <2> DEFINE ms == Flushed(messages, pending)
  <2>15. ms \in Seq(Message) /\ i \in DOMAIN ms /\ ms[i] = User(u) /\ DOMAIN ms = 1 .. Len(ms)
         /\ Len(ms) \in Nat
    BY <2>1, WhatIsFlushed
  <2>16. messages' = IF turn[t].first < Len(ms) THEN SubSeq(ms, 1, turn[t].first) ELSE ms
    BY <2>12 DEF Kept
  <2> HIDE DEF ms
  <2>17. CASE turn[t].first < Len(ms)
    <3> DEFINE n == turn[t].first
    <3>1. n \in 0 .. Len(ms) /\ i \in 1 .. n
      BY <2>1, <2>14, <2>15, <2>17
    <3> HIDE DEF n
    <3>2. DOMAIN SubSeq(ms, 1, n) = 1 .. n /\ \A j \in 1 .. n : SubSeq(ms, 1, n)[j] = ms[j]
      BY <2>15, <3>1, WhatIsLeft
    <3>3. messages' = SubSeq(ms, 1, n)
      BY <2>16, <2>17 DEF n
    <3>4. i \in DOMAIN messages' /\ messages'[i] = User(u)
      BY <2>15, <3>1, <3>2, <3>3
    <3> QED
      BY <3>4 DEF ToSet
  <2>18. CASE ~ (turn[t].first < Len(ms))
    BY <2>15, <2>16, <2>18 DEF ToSet
  <2> QED
    BY <2>17, <2>18
<1>3. Types /\ TurnsAreKnown /\ CutIsRight /\ [Next]_vars => CutIsRight'
  BY CutStep
<1> QED
  BY <1>1, <1>2, <1>3, TurnsHold, PTL DEF Spec, RefusalSparesOthers

\* The messages of the model are those there were, and what was pending.
Later ==
    \A i \in DOMAIN messages' : messages'[i].kind = "agent" =>
        messages'[i] = Agent(pending) \/ \E j \in DOMAIN messages : messages'[i] = messages[j]

\* Every step leaves the messages so.
LEMMA LaterStep ==
    ASSUME Types, [Next]_vars
    PROVE  Later
<1>1. messages \in Seq(Message) /\ pending \in Pending /\ turn \in [Turns -> TurnRecord]
  BY DEF Types
<1> DEFINE FromOld(ms) ==
            \A i \in DOMAIN ms : ms[i].kind = "agent" =>
                ms[i] = Agent(pending) \/ \E j \in DOMAIN messages : ms[i] = messages[j]
           flushed == Flushed(messages, pending)
<1>2. FromOld(messages)
  OBVIOUS
<1>3. ASSUME NEW ms \in Seq(Message), FromOld(ms) PROVE FromOld(Flushed(ms, pending))
  <2>1. /\ \A i \in DOMAIN ms : Flushed(ms, pending)[i] = ms[i]
        /\ \A i \in DOMAIN Flushed(ms, pending) :
              i \in DOMAIN ms \/ Flushed(ms, pending)[i] = Agent(pending)
    BY <1>1, WhatIsFlushed
  <2> HIDE DEF Agent
  <2> QED
    BY <1>3, <2>1
<1>4. ASSUME NEW m \in Message, m.kind # "agent" PROVE FromOld(Append(messages, m))
  <2>1. /\ Len(messages) \in Nat /\ DOMAIN messages = 1 .. Len(messages)
        /\ DOMAIN Append(messages, m) = 1 .. (Len(messages) + 1)
        /\ \A i \in DOMAIN messages : Append(messages, m)[i] = messages[i]
        /\ Append(messages, m)[Len(messages) + 1] = m
    BY <1>1, WhatIsAdded
  <2> DEFINE all == Append(messages, m)
  <2>2. ASSUME NEW i \in DOMAIN all, all[i].kind = "agent"
        PROVE  \E j \in DOMAIN messages : all[i] = messages[j]
    <3>1. i # Len(messages) + 1
      BY <1>4, <2>1, <2>2
    <3>2. i \in DOMAIN messages
      BY <2>1, <3>1
    <3> QED
      BY <2>1, <3>2
  <2> QED
    BY <2>2
<1>5. ASSUME NEW ms \in Seq(Message), FromOld(ms), NEW n \in 0 .. Len(ms)
      PROVE  FromOld(SubSeq(ms, 1, n))
  <2>1. /\ DOMAIN SubSeq(ms, 1, n) = 1 .. n
        /\ \A i \in 1 .. n : i \in DOMAIN ms /\ SubSeq(ms, 1, n)[i] = ms[i]
    BY WhatIsLeft
  <2> QED
    BY <1>5, <2>1
<1>6. flushed \in Seq(Message) /\ FromOld(flushed) /\ Len(flushed) \in Nat
      /\ DOMAIN flushed = 1 .. Len(flushed)
  BY <1>1, <1>2, <1>3, WhatIsFlushed
<1>7. Resume \in Message /\ Resume.kind # "agent"
  BY DEF Resume, Message
<1>8. FromOld(messages') => Later
  BY DEF Later
<1> HIDE DEF FromOld, flushed
<1>9. CASE messages' = messages
  BY <1>2, <1>8, <1>9
<1>10. CASE messages' = Flushed(messages, pending)
  BY <1>6, <1>8, <1>10 DEF flushed
<1>11. ASSUME NEW t \in Turns, Step(t) PROVE Later
  <2>1. turn[t].first \in Nat
    BY <1>1 DEF TurnRecord
  <2>2. FromOld(Append(messages, Resume))
    BY <1>4, <1>7
  <2>3. FromOld(Kept(t, "refusal"))
    <3>1. CASE turn[t].first < Len(flushed)
      <4> DEFINE n == turn[t].first
      <4>1. n \in 0 .. Len(flushed)
        BY <1>6, <2>1, <3>1
      <4>2. Kept(t, "refusal") = SubSeq(flushed, 1, n)
        BY <3>1 DEF Kept, flushed
      <4> HIDE DEF n
      <4> QED
        BY <1>5, <1>6, <4>1, <4>2
    <3>2. CASE ~ (turn[t].first < Len(flushed))
      BY <1>6, <3>2 DEF Kept, flushed
    <3> QED
      BY <3>1, <3>2
  <2>4. messages' \in {messages, flushed, Append(messages, Resume), Kept(t, "refusal")}
    BY <1>11, StepsOfTurns DEF flushed
  <2> QED
    BY <1>2, <1>6, <1>8, <2>2, <2>3, <2>4
<1>12. ASSUME NEW m \in Message, m.kind # "agent",
              messages' = Flushed(Append(messages, m), pending)
       PROVE  Later
  <2>1. Append(messages, m) \in Seq(Message) /\ FromOld(Append(messages, m))
    BY <1>1, <1>4, <1>12, WhatIsAdded
  <2> QED
    BY <1>3, <1>8, <1>12, <2>1
<1>13. ASSUME NEW t \in Turns, Send(t) \/ ResumeTurn(t) PROVE Later
  <2>1. User(t) \in Message /\ User(t).kind # "agent"
    BY DEF User, Message
  <2>2. \/ messages' = Flushed(Append(messages, User(t)), pending)
        \/ messages' = Flushed(Append(messages, Resume), pending)
    BY <1>13 DEF Send, ResumeTurn, RunTurn
  <2> QED
    BY <1>7, <1>12, <2>1, <2>2
<1>14. ASSUME NEW t \in Turns, Truncate(t) PROVE Later
  <2> DEFINE ms == IF running = 0 THEN Flushed(messages, pending) ELSE messages
  <2>1. ms \in Seq(Message) /\ FromOld(ms)
    BY <1>1, <1>2, <1>6 DEF flushed
  <2> HIDE DEF ms
  <2> PICK i \in DOMAIN ms : messages' = SubSeq(ms, 1, i - 1)
    BY <1>14 DEF Truncate, ms
  <2>2. i - 1 \in 0 .. Len(ms)
    BY <2>1, LenProperties
  <2> QED
    BY <1>5, <1>8, <2>1, <2>2
<1>15. CASE Cancel \/ \E t \in Turns : LateFlush(t)
  BY <1>9, <1>10, <1>15 DEF Cancel, LateFlush, Flush
<1>16. CASE UNCHANGED vars
  BY <1>9, <1>16 DEF vars
<1>17. CASE \E r \in Runs : ToolEnds(r)
  BY <1>9, <1>17, ToolsCome
<1> QED
  BY <1>11, <1>13, <1>14, <1>15, <1>16, <1>17 DEF Next

UsesAreAnswered ==
    \A i \in DOMAIN messages : messages[i].kind = "agent" =>
        Uses(messages[i].content) \subseteq messages[i].done \union messages[i].canceled

\* A message of the agent gets into the history with a result for every tool use.
LEMMA UsesStep == Types /\ UsesAreAnswered /\ [Next]_vars => UsesAreAnswered'
<1> SUFFICES ASSUME Types, UsesAreAnswered, [Next]_vars,
                    NEW i \in DOMAIN messages', messages'[i].kind = "agent"
             PROVE  Uses(messages'[i].content) \subseteq messages'[i].done \union messages'[i].canceled
  BY DEF UsesAreAnswered
<1>1. CASE messages'[i] = Agent(pending)
  BY <1>1 DEF Agent
<1>2. CASE \E j \in DOMAIN messages : messages'[i] = messages[j]
  BY <1>2 DEF UsesAreAnswered
<1> QED
  BY <1>1, <1>2, LaterStep DEF Later

\* As long as no turn was cancelled.
Calm == \A t \in Turns : ~ turn[t].cancelled

\* The tool of a use is run, and there is no answer to a use.
Started(c) == tool[<<c, 1>>] # "none"
Untouched(c) == \A k \in {0, 1} : tool[<<c, k>>] = "none"

\* What is pending is of the turn that runs, and is complete where no answer comes in.
PendingIsOfTheTurn ==
    /\ pending.done \subseteq pending.content
    /\ (running = 0 \/ turn[running].at \in {"asking", "delay"}) => pending = Empty
    /\ \A c \in Uses(pending.content) : c[1] = running /\ c[2] <= turn[running].named

\* A tool runs once; it, and an answer at once, is not there for longer than its turn.
ToolIsOfTheTurn(c) ==
    /\ tool[<<c, 2>>] = "none"
    /\ \A k \in {0, 1} :
        /\ tool[<<c, k>>] = "running" => turn[c[1]].at \in {"streaming", "tools"}
        /\ tool[<<c, k>>] = "ended" => turn[c[1]].at = "streaming"
        /\ tool[<<c, k>>] \in {"running", "ended"} => c \in pending.content
        /\ tool[<<c, k>>] = "over" /\ c \in pending.content => c \in pending.done
        /\ tool[<<c, k>>] # "none" =>
            turn[c[1]].at = "over" \/ (Active(c[1]) /\ c[2] <= turn[c[1]].named)

\* A use that has come in part waits for the rest of its input.
PartsOf(t) ==
    /\ turn[t].at # "streaming" => turn[t].partly = {}
    /\ \A c \in turn[t].partly :
        /\ c[1] = t /\ c[2] <= turn[t].named /\ c \in pending.content
        /\ c \in inputs \/ ~ Started(c)

\* The turn will not start this use any more.
Closed(c) ==
    \/ turn[c[1]].at = "over"
    \/ Active(c[1]) /\ c[2] <= turn[c[1]].named /\ c \notin turn[c[1]].partly

\* What a message says of its tool uses stays true.
Settled(m) ==
    /\ m.done \subseteq m.content
    /\ \A c \in m.canceled :
        Closed(c) /\ (Untouched(c) \/ turn[c[1]].stops = <<"max_tokens">>)

MessagesAreSettled ==
    /\ running # 0 => turn[running].first < Len(messages)
    /\ \A i \in DOMAIN messages : messages[i].kind = "agent" => Settled(messages[i])

CalmTurns ==
    /\ PendingIsOfTheTurn /\ (\A c \in Calls : ToolIsOfTheTurn(c))
    /\ (\A t \in Turns : PartsOf(t)) /\ MessagesAreSettled

\* A turn that runs is the only one that goes on.
LEMMA CalmFacts ==
    ASSUME Types, TurnsAreKnown, Calm
    PROVE  /\ \A t \in Turns : Active(t) => running = t /\ turn[t].stops = <<>>
           /\ \A t \in Turns : running = t => Active(t) /\ running # 0
           /\ running # 0 => running \in Turns
           /\ late = {}
<1>1. 0 \notin Turns /\ (running # 0 => running \in Turns) /\ late \subseteq Turns
  BY Names DEF Types
<1>2. \A t \in Turns : Told(t) /\ ~ turn[t].cancelled
  BY DEF TurnsAreKnown, Calm
<1>3. \A t \in Turns : Active(t) => running = t /\ turn[t].stops = <<>>
  BY <1>2 DEF TurnsAreKnown, Told
<1>4. \A t \in Turns : running = t => Active(t) /\ running # 0
  BY <1>1 DEF TurnsAreKnown
<1>5. late = {}
  BY <1>1, <1>2 DEF TurnsAreKnown
<1> QED
  BY <1>1, <1>3, <1>4, <1>5

\* A cancelled turn stays one.
LEMMA CalmBefore ==
    ASSUME Types, TurnsAreKnown, [Next]_vars, Calm'
    PROVE  Calm
<1>1. turn \in [Turns -> TurnRecord]
  BY DEF Types
<1> SUFFICES ASSUME NEW u \in Turns, turn[u].cancelled PROVE turn'[u].cancelled
  BY DEF Calm
<1>2. Cancelled[u].cancelled
  <2>1. u # running => Cancelled[u] = turn[u]
    BY WhatCancelDoes
  <2>2. u = running => Cancelled[u].cancelled
    BY WhatCancelDoes
  <2> QED
    BY <2>1, <2>2
<1>3. ASSUME NEW t \in Turns, Step(t) PROVE turn'[u].cancelled
  <2>1. \/ GoesOn(t) \/ (\E reason \in Reasons : Stops(t, reason)) \/ UNCHANGED turn
    BY <1>3, StepsOfTurns DEF Reasons
  <2>2. CASE GoesOn(t)
    BY <2>2 DEF GoesOn
  <2>3. ASSUME NEW reason \in Reasons, Stops(t, reason) PROVE turn'[u].cancelled
    BY <2>3 DEF Stops
  <2> QED
    BY <2>1, <2>2, <2>3
<1>4. ASSUME NEW t \in Turns, NEW ms, RunTurn(t, ms) PROVE turn'[u].cancelled
  <2>1. turn[t].at = "none" /\ Told(t)
    BY <1>4 DEF RunTurn, TurnsAreKnown
  <2>2. u # t
    BY <2>1 DEF Told
  <2> DEFINE first == MessageIx(messages')
             x == [NewTurn EXCEPT !.at = "asking", !.first = first]
  <2>3. turn' = [Cancelled EXCEPT ![t] = x]
    BY <1>4 DEF RunTurn
  <2> HIDE DEF x
  <2>4. Cancelled \in [Turns -> TurnRecord]
    BY TurnTypes
  <2> QED
    BY <1>2, <2>2, <2>3, <2>4
<1>5. CASE Cancel \/ \E t \in Turns : Truncate(t)
  BY <1>2, <1>5 DEF Cancel, Truncate
<1>6. CASE \E t \in Turns : LateFlush(t)
  BY <1>6 DEF LateFlush
<1>7. CASE \E r \in Runs : ToolEnds(r)
  BY <1>7, ToolsCome
<1>8. CASE UNCHANGED vars
  BY <1>8 DEF vars
<1> QED
  BY <1>3, <1>4, <1>5, <1>6, <1>7, <1>8 DEF Next, Send, ResumeTurn

\* Uses that are closed stay closed, and if they have no answer none is given.
Stays(c) == Closed(c) => Closed(c)' /\ (Untouched(c) => Untouched(c)')

\* What joins the thread has its results, and the uses without one are closed.
Joins ==
    /\ pending.done \subseteq pending.content
    /\ \A c \in Uses(pending.content) \ pending.done :
        Closed(c)' /\ (Untouched(c)' \/ turn'[c[1]].stops = <<"max_tokens">>)

\* The messages are settled after a step that closes no use again.
LEMMA MessagesStaySettled ==
    ASSUME Types, MessagesAreSettled, Later,
           \A c \in Calls : Stays(c),
           \A u \in Turns : turn[u].stops = <<"max_tokens">> => turn'[u].stops = <<"max_tokens">>,
           \/ Joins
           \/ \A i \in DOMAIN messages' : messages'[i].kind = "agent" =>
                \E j \in DOMAIN messages : messages'[i] = messages[j]
    PROVE  \A i \in DOMAIN messages' : messages'[i].kind = "agent" => Settled(messages[i])'
<1> SUFFICES ASSUME NEW i \in DOMAIN messages', messages'[i].kind = "agent"
             PROVE  Settled(messages[i])'
  OBVIOUS
<1>1. messages \in Seq(Message) /\ \A c \in Calls : c[1] \in Turns
  BY Names DEF Types
<1>2. ASSUME NEW j \in DOMAIN messages, messages'[i] = messages[j] PROVE Settled(messages[i])'
  <2>1. Settled(messages[j])
    BY <1>2 DEF MessagesAreSettled
  <2>2. messages[j] \in Message /\ messages[j].kind = "agent"
    BY <1>1, <1>2, ElementOfSeq, LenProperties
  <2>3. messages[j].canceled \subseteq Calls
    BY <2>2 DEF Message
  <2>4. \A c \in messages[j].canceled :
            Closed(c)' /\ (Untouched(c)' \/ turn'[c[1]].stops = <<"max_tokens">>)
    BY <1>1, <2>1, <2>3 DEF Settled, Stays
  <2>5. messages[j].done \subseteq messages[j].content
    BY <2>1 DEF Settled
  <2> HIDE DEF Closed, Untouched
  <2> QED
    BY <1>2, <2>4, <2>5 DEF Settled
<1>3. CASE Joins /\ messages'[i] = Agent(pending)
  <2>1. messages'[i].done = pending.done /\ messages'[i].content = pending.content
        /\ messages'[i].canceled = Uses(pending.content) \ pending.done
    BY <1>3 DEF Agent
  <2> QED
    BY <1>3, <2>1 DEF Settled, Joins
<1> QED
  BY <1>2, <1>3 DEF Later

\* A step of the turn that runs concerns no other turn.
LEMMA OneTurnMoves ==
    ASSUME Types, TurnsAreKnown, Calm, CalmTurns, Later, NEW t \in Turns, running = t,
           \A u \in Turns : u # t => turn'[u] = turn[u],
           \A c \in Calls, k \in {0, 1} : c[1] # t => tool'[<<c, k>>] = tool[<<c, k>>],
           \A c \in Calls : tool'[<<c, 2>>] = "none",
           pending'.done \subseteq pending'.content,
           running' = 0 => pending' = Empty,
           running' # 0 => /\ running' = t /\ turn'[t].first < Len(messages')
                           /\ turn'[t].at \in {"asking", "delay"} => pending' = Empty
                           /\ \A c \in Uses(pending'.content) :
                                c[1] = t /\ c[2] <= turn'[t].named,
           \A c \in Calls : c[1] = t => ToolIsOfTheTurn(c)' /\ Stays(c),
           PartsOf(t)',
           Joins \/ \A i \in DOMAIN messages' : messages'[i].kind = "agent" =>
                        \E j \in DOMAIN messages : messages'[i] = messages[j]
    PROVE  CalmTurns'
<1>1. /\ \A u \in Turns : u # t => ~ Active(u) /\ turn'[u] = turn[u]
      /\ turn[t].stops = <<>> /\ running # 0
      /\ \A c \in Calls : c[1] \in Turns
  BY CalmFacts, Names
<1>2. \A c \in Uses(pending'.content) : c \in Calls /\ c[1] = t
  BY DEF Uses, Empty
<1>3. ASSUME NEW c \in Calls, c[1] # t PROVE ToolIsOfTheTurn(c)' /\ Stays(c)
  <2>1. ToolIsOfTheTurn(c) /\ turn'[c[1]] = turn[c[1]] /\ ~ Active(c[1])
        /\ (\A k \in {0, 1} : tool'[<<c, k>>] = tool[<<c, k>>]) /\ tool'[<<c, 2>>] = "none"
    BY <1>1, <1>3 DEF CalmTurns
  <2>2. c \notin pending'.content
    BY <1>2, <1>3 DEF Uses
  <2>3. \A k \in {0, 1} : tool[<<c, k>>] \notin {"running", "ended"}
    BY <2>1 DEF ToolIsOfTheTurn, Active
  <2>4. ToolIsOfTheTurn(c)'
    BY <2>1, <2>2, <2>3 DEF ToolIsOfTheTurn, Active
  <2>5. Stays(c)
    BY <2>1 DEF Stays, Closed, Untouched, Active
  <2> QED
    BY <2>4, <2>5
<1>4. \A c \in Calls : ToolIsOfTheTurn(c)' /\ Stays(c)
  BY <1>3
<1>5. ASSUME NEW u \in Turns PROVE PartsOf(u)'
  <2>1. CASE u # t
    <3>1. PartsOf(u) /\ turn'[u] = turn[u] /\ turn[u].at # "streaming"
      BY <1>1, <2>1 DEF CalmTurns, Active
    <3> QED
      BY <3>1 DEF PartsOf
  <2> QED
    BY <2>1
<1>6. PendingIsOfTheTurn'
  BY <1>2 DEF PendingIsOfTheTurn, Empty, Uses
<1>7. \A u \in Turns : turn[u].stops = <<"max_tokens">> => turn'[u].stops = <<"max_tokens">>
  <2>1. <<"max_tokens">> # <<>>
    OBVIOUS
  <2> QED
    BY <1>1, <2>1
<1>8. MessagesAreSettled
  BY DEF CalmTurns
<1>9. \A i \in DOMAIN messages' : messages'[i].kind = "agent" => Settled(messages[i])'
  BY <1>4, <1>7, <1>8, MessagesStaySettled
<1>10. MessagesAreSettled'
  BY <1>9 DEF MessagesAreSettled
<1> QED
  BY <1>4, <1>5, <1>6, <1>10 DEF CalmTurns

\* What is so of the turn that runs, before its step.
LEMMA TheTurn ==
    ASSUME Types, TurnsAreKnown, Calm, CalmTurns, NEW t \in Turns, Active(t)
    PROVE  /\ running = t /\ running # 0 /\ turn[t].stops = <<>> /\ ~ turn[t].cancelled
           /\ turn \in [Turns -> TurnRecord] /\ turn[t] \in TurnRecord
           /\ tool \in [Runs -> {"none", "running", "ended", "over"}]
           /\ pending \in Pending /\ pending.done \subseteq pending.content
           /\ \A c \in Uses(pending.content) : c[1] = t /\ c[2] <= turn[t].named
           /\ turn[t].at \in {"asking", "delay"} => pending = Empty
           /\ turn[t].first < Len(messages)
           /\ \A c \in Calls : ToolIsOfTheTurn(c)
           /\ PartsOf(t)
           /\ \A c \in Calls : tool[<<c, 2>>] = "none"
<1>1. running = t /\ running # 0 /\ turn[t].stops = <<>>
  BY CalmFacts
<1>2. \A c \in Calls : tool[<<c, 2>>] = "none"
  BY DEF CalmTurns, ToolIsOfTheTurn
<1> QED
  BY <1>1, <1>2
  DEF Types, Calm, CalmTurns, PendingIsOfTheTurn, MessagesAreSettled

\* An answer begins.
LEMMA CalmStart ==
    ASSUME Types, TurnsAreKnown, Calm, CalmTurns, Later, NEW t \in Turns, StartMessage(t)
    PROVE  CalmTurns'
<1>1. Active(t) /\ turn[t].at = "asking"
  BY DEF StartMessage, At, Active
<1>2. /\ running = t /\ running # 0 /\ turn[t].stops = <<>>
      /\ turn \in [Turns -> TurnRecord] /\ turn[t] \in TurnRecord
      /\ tool \in [Runs -> {"none", "running", "ended", "over"}]
      /\ pending = Empty /\ turn[t].first < Len(messages)
      /\ \A c \in Calls : ToolIsOfTheTurn(c)
      /\ PartsOf(t)
      /\ \A c \in Calls : tool[<<c, 2>>] = "none"
  BY <1>1, TheTurn
<1>3. /\ messages' = messages /\ pending' = [content |-> {<<t, 0>>}, done |-> {}]
      /\ UNCHANGED <<running, inputs, tool>>
  BY <1>2 DEF StartMessage, Flushed, Empty
<1>4. turn' = [turn EXCEPT ![t].at = "streaming"]
  BY DEF StartMessage
<1>5. /\ turn'[t].at = "streaming" /\ turn'[t].first = turn[t].first
      /\ turn'[t].named = turn[t].named /\ turn'[t].partly = turn[t].partly
      /\ \A u \in Turns : u # t => turn'[u] = turn[u]
  BY <1>2, <1>4 DEF TurnRecord
<1>6. Uses(pending'.content) = {}
  BY <1>3, Names DEF Uses
<1>7. turn[t].partly = {}
  BY <1>1, <1>2 DEF PartsOf
<1>8. ASSUME NEW c \in Calls, c[1] = t PROVE ToolIsOfTheTurn(c)' /\ Stays(c)
  <2>1. ToolIsOfTheTurn(c) /\ c \notin pending'.content
    BY <1>2, <1>6, <1>8 DEF Uses
  <2>2. \A k \in {0, 1} : tool[<<c, k>>] \notin {"running", "ended"}
    BY <1>1, <1>8, <2>1 DEF ToolIsOfTheTurn
  <2>3. ToolIsOfTheTurn(c)'
    BY <1>1, <1>3, <1>5, <1>8, <2>1, <2>2 DEF ToolIsOfTheTurn, Active
  <2>4. Stays(c)
    BY <1>1, <1>3, <1>5, <1>8 DEF Stays, Closed, Untouched, Active
  <2> QED
    BY <2>3, <2>4
<1>9. PartsOf(t)'
  BY <1>5, <1>7 DEF PartsOf
<1>10. \A i \in DOMAIN messages' : \E j \in DOMAIN messages : messages'[i] = messages[j]
  BY <1>3
<1>11. /\ running' = t /\ running' # 0 /\ turn'[t].first < Len(messages')
       /\ turn'[t].at \notin {"asking", "delay"}
       /\ pending'.done \subseteq pending'.content
       /\ \A c \in Calls, k \in {0, 1} : c[1] # t => tool'[<<c, k>>] = tool[<<c, k>>]
       /\ \A c \in Calls : tool'[<<c, 2>>] = "none"
  BY <1>2, <1>3, <1>5
<1> QED
  BY <1>2, <1>5, <1>6, <1>8, <1>9, <1>10, <1>11, OneTurnMoves

\* The use of a tool joins the message, of one that has been named or of the next.  It may
\* be answered at once, or its tool started if it has not been.
LEMMA CalmUse ==
    ASSUME Types, TurnsAreKnown, Calm, CalmTurns, Later, NEW t \in Turns,
           NEW c \in Calls, c[1] = t, NEW n \in 0 .. MaxCalls,
           c[2] <= n, turn[t].named <= n, c \in turn[t].partly \/ turn[t].named < c[2],
           Part(t, c, [turn[t] EXCEPT !.named = n])
                \/ Completes(t, c, [turn[t] EXCEPT !.named = n])
    PROVE  CalmTurns'
<1> DEFINE locals == [turn[t] EXCEPT !.named = n]
<1>1. Active(t) /\ turn[t].at \in {"asking", "streaming"}
  BY DEF Part, Completes, Adds, Streaming, At, Active
<1>2. /\ running = t /\ running # 0 /\ turn[t].stops = <<>>
      /\ turn \in [Turns -> TurnRecord] /\ turn[t] \in TurnRecord
      /\ tool \in [Runs -> {"none", "running", "ended", "over"}]
      /\ pending \in Pending /\ pending.done \subseteq pending.content
      /\ \A d \in Uses(pending.content) : d[1] = t /\ d[2] <= turn[t].named
      /\ turn[t].first < Len(messages)
      /\ \A d \in Calls : ToolIsOfTheTurn(d)
      /\ PartsOf(t)
      /\ \A d \in Calls : tool[<<d, 2>>] = "none"
  BY <1>1, TheTurn
<1>3. turn[t].named \in Nat /\ n \in Nat /\ \A d \in Calls : d[2] \in Nat
  BY <1>2, ThreadAssumption DEF TurnRecord, Calls
<1>4. locals \in TurnRecord /\ locals.named = n /\ locals.partly = turn[t].partly
      /\ locals.first = turn[t].first
  BY <1>2 DEF TurnRecord
<1>5. turn[t].named < c[2] => Untouched(c) /\ c \notin pending.content
  <2>1. ToolIsOfTheTurn(c) /\ turn[t].at # "over"
    BY <1>1, <1>2
  <2>2. turn[t].named < c[2] => Untouched(c)
    BY <1>3, <2>1 DEF ToolIsOfTheTurn, Untouched
  <2> QED
    BY <1>2, <1>3, <2>2 DEF Uses
<1>6. /\ c \in inputs \/ ~ Started(c)
      /\ c \in pending.content \/ Untouched(c)
  BY <1>2, <1>5 DEF PartsOf, Started, Untouched
<1>7. PICK parts \in {turn[t].partly \union {c}, turn[t].partly \ {c}} :
        /\ Adds(t, c, [locals EXCEPT !.partly = parts])
        /\ UNCHANGED tool \/ Refuse(c) \/ (Run(c) /\ ~ Started(c))
        /\ inputs \ {c} \subseteq inputs'
        /\ c \in parts =>
            c \in inputs' \/ (~ Started(c) /\ (UNCHANGED tool \/ Refuse(c)))
  <2>1. CASE Part(t, c, locals)
    BY <1>2, <1>4, <1>6, <2>1 DEF Part
  <2>2. CASE Completes(t, c, locals)
    BY <1>2, <1>4, <1>6, <2>2 DEF Completes
  <2> QED
    BY <2>1, <2>2
<1> HIDE DEF locals
<1>8. /\ messages' = messages /\ running' = running
      /\ pending' = [pending EXCEPT !.content = pending.content \union {c}]
      /\ turn' = [turn EXCEPT ![t] = [[locals EXCEPT !.partly = parts] EXCEPT !.at = "streaming"]]
  BY <1>7 DEF Adds
<1>9. /\ turn'[t].at = "streaming" /\ turn'[t].first = turn[t].first
      /\ turn'[t].named = n /\ turn'[t].partly = parts
      /\ \A u \in Turns : u # t => turn'[u] = turn[u]
  BY <1>2, <1>4, <1>8 DEF TurnRecord
<1>10. pending'.content = pending.content \union {c} /\ pending'.done = pending.done
  BY <1>2, <1>8 DEF Pending
<1>11. /\ \A d \in Calls, k \in {0, 1, 2} : d # c \/ k = 2 => tool'[<<d, k>>] = tool[<<d, k>>]
       /\ \A k \in {0, 1} : tool'[<<c, k>>] \in {tool[<<c, k>>], "running", "ended"}
       /\ UNCHANGED tool \/ Refuse(c) => tool'[<<c, 1>>] = tool[<<c, 1>>]
  <2>1. ASSUME NEW k \in {0, 1}, \A r \in Runs : r # <<c, k>> => tool'[r] = tool[r]
        PROVE  \A d \in Calls, j \in {0, 1, 2} :
                    d # c \/ j = 2 => tool'[<<d, j>>] = tool[<<d, j>>]
    <3> SUFFICES ASSUME NEW d \in Calls, NEW j \in {0, 1, 2}, d # c \/ j = 2
                 PROVE  tool'[<<d, j>>] = tool[<<d, j>>]
      OBVIOUS
    <3>1. <<d, j>> # <<c, k>>
      OBVIOUS
    <3> QED
      BY <2>1, <3>1, Names
  <2>2. <<c, 0>> \in Runs /\ <<c, 1>> \in Runs /\ <<c, 0>> # <<c, 1>>
    <3>1. <<c, 0>> # <<c, 1>>
      OBVIOUS
    <3> QED
      BY <3>1, Names
  <2>3. CASE UNCHANGED tool
    BY <2>3
  <2>4. CASE Refuse(c)
    <3>1. tool'[<<c, 0>>] = "ended" /\ \A r \in Runs : r # <<c, 0>> => tool'[r] = tool[r]
      BY <1>2, <2>2, <2>4 DEF Refuse
    <3>2. tool'[<<c, 1>>] = tool[<<c, 1>>]
      BY <2>2, <3>1
    <3>3. \A d \in Calls, j \in {0, 1, 2} : d # c \/ j = 2 => tool'[<<d, j>>] = tool[<<d, j>>]
      BY <2>1, <3>1
    <3> QED
      BY <3>1, <3>2, <3>3
  <2>5. CASE Run(c) /\ ~ Started(c)
    <3>1. tool' = [tool EXCEPT ![<<c, 1>>] = "running"] /\ tool[<<c, 1>>] = "none"
      BY <2>5 DEF Run, Started
    <3>2. tool'[<<c, 1>>] = "running" /\ \A r \in Runs : r # <<c, 1>> => tool'[r] = tool[r]
      BY <1>2, <2>2, <3>1
    <3>3. ~ UNCHANGED tool
      BY <3>1, <3>2
    <3>4. ~ Refuse(c)
      <4>1. Refuse(c) => tool'[<<c, 1>>] = tool[<<c, 1>>]
        BY <1>2, <2>2 DEF Refuse
      <4> QED
        BY <3>1, <3>2, <4>1
    <3>5. tool'[<<c, 0>>] = tool[<<c, 0>>]
      BY <2>2, <3>2
    <3>6. \A d \in Calls, j \in {0, 1, 2} : d # c \/ j = 2 => tool'[<<d, j>>] = tool[<<d, j>>]
      BY <2>1, <3>2
    <3> QED
      BY <3>2, <3>3, <3>4, <3>5, <3>6
  <2> QED
    BY <1>7, <2>3, <2>4, <2>5
<1>12. ASSUME NEW d \in Calls, d[1] = t PROVE ToolIsOfTheTurn(d)' /\ Stays(d)
  <2>1. CASE d = c
    <3>1. ~ Closed(d)
      BY <1>1, <1>3, <2>1 DEF Closed, Active
    <3>2. ToolIsOfTheTurn(c) /\ c \in pending'.content /\ tool'[<<c, 2>>] = "none"
          /\ c[2] <= turn'[c[1]].named /\ turn'[c[1]].at = "streaming"
      BY <1>2, <1>9, <1>10, <1>11
    <3>3. \A k \in {0, 1} : tool'[<<c, k>>] = "over" => c \in pending'.done
      BY <1>6, <1>10, <1>11, <3>2 DEF ToolIsOfTheTurn, Untouched
    <3>4. ToolIsOfTheTurn(d)'
      BY <2>1, <3>2, <3>3 DEF ToolIsOfTheTurn, Active
    <3> QED
      BY <3>1, <3>4 DEF Stays
  <2>2. CASE d # c
    <3>1. ToolIsOfTheTurn(d) /\ d[2] \in Nat
          /\ \A k \in {0, 1, 2} : tool'[<<d, k>>] = tool[<<d, k>>]
      BY <1>2, <1>3, <1>11, <2>2
    <3>2. d \in pending'.content <=> d \in pending.content
      BY <1>10, <2>2
    <3>3. ToolIsOfTheTurn(d)'
      BY <1>1, <1>3, <1>9, <1>10, <1>12, <3>1, <3>2 DEF ToolIsOfTheTurn, Active
    <3>4. d \in parts <=> d \in turn[t].partly
      BY <1>7, <2>2
    <3>5. Stays(d)
      BY <1>1, <1>3, <1>9, <1>12, <3>1, <3>4 DEF Stays, Closed, Untouched, Active
    <3> QED
      BY <3>3, <3>5
  <2> QED
    BY <2>1, <2>2
<1>13. PartsOf(t)'
  <2> SUFFICES ASSUME NEW d \in parts
               PROVE  /\ d[1] = t /\ d[2] <= n /\ d \in pending'.content
                      /\ d \in inputs' \/ ~ Started(d)'
    BY <1>9 DEF PartsOf
  <2>1. CASE d = c
    <3>1. d \in inputs' \/ ~ Started(d)'
      BY <1>7, <1>11, <2>1 DEF Started
    <3> QED
      BY <1>10, <2>1, <3>1
  <2>2. CASE d # c
    <3>1. d \in turn[t].partly
      BY <1>7, <2>2
    <3>2. d[1] = t /\ d[2] <= turn[t].named /\ d \in pending.content /\ d \in Calls
          /\ (d \in inputs \/ ~ Started(d))
      BY <1>2, <3>1 DEF PartsOf, TurnRecord
    <3>3. tool'[<<d, 1>>] = tool[<<d, 1>>]
      BY <1>11, <2>2, <3>2
    <3>4. d \in inputs => d \in inputs'
      BY <1>7, <2>2
    <3> QED
      BY <1>3, <1>10, <3>2, <3>3, <3>4 DEF Started
  <2> QED
    BY <2>1, <2>2
<1>14. ASSUME NEW d \in Uses(pending'.content) PROVE d[1] = t /\ d[2] <= turn'[t].named
  <2>1. CASE d = c
    BY <1>9, <2>1
  <2>2. CASE d # c
    <3>1. d \in Uses(pending.content) /\ d[2] \in Nat
      BY <1>3, <1>10, <2>2 DEF Uses
    <3> QED
      BY <1>2, <1>3, <1>9, <3>1
  <2> QED
    BY <2>1, <2>2
<1>15. /\ running' = t /\ running' # 0 /\ turn'[t].first < Len(messages')
       /\ turn'[t].at \notin {"asking", "delay"}
       /\ pending'.done \subseteq pending'.content
       /\ \A d \in Calls, k \in {0, 1} : d[1] # t => tool'[<<d, k>>] = tool[<<d, k>>]
       /\ \A d \in Calls : tool'[<<d, 2>>] = "none"
  <2>1. ASSUME NEW d \in Calls, NEW k \in {0, 1}, d[1] # t
        PROVE  tool'[<<d, k>>] = tool[<<d, k>>]
    <3>1. d # c
      BY <2>1
    <3> QED
      BY <1>11, <3>1
  <2>2. ASSUME NEW d \in Calls PROVE tool'[<<d, 2>>] = "none"
    BY <1>2, <1>11
  <2>3. running' = t /\ running' # 0 /\ turn'[t].first < Len(messages')
    BY <1>2, <1>8, <1>9
  <2>4. turn'[t].at \notin {"asking", "delay"} /\ pending'.done \subseteq pending'.content
    BY <1>2, <1>9, <1>10
  <2> QED
    BY <2>1, <2>2, <2>3, <2>4
<1>16. \A i \in DOMAIN messages' : \E j \in DOMAIN messages : messages'[i] = messages[j]
  BY <1>8
<1> QED
  BY <1>2, <1>9, <1>12, <1>13, <1>14, <1>15, <1>16, OneTurnMoves

\* A tool use, or part of one, whose tool is run or told more of its input.
LEMMA CalmUses ==
    ASSUME Types, TurnsAreKnown, Calm, CalmTurns, Later, NEW t \in Turns,
           PartialUse(t) \/ WholeUse(t)
    PROVE  CalmTurns'
<1>1. Active(t)
  BY DEF PartialUse, WholeUse, Part, Completes, Adds, Streaming, At, Active
<1>2. turn[t] \in TurnRecord /\ PartsOf(t)
  BY <1>1, TheTurn
<1>3. turn[t].named \in 0 .. MaxCalls /\ turn[t].named \in Nat
  BY <1>2, ThreadAssumption DEF TurnRecord
<1>4. [turn[t] EXCEPT !.named = turn[t].named] = turn[t]
  BY <1>2 DEF TurnRecord
<1>5. ASSUME NEW c \in turn[t].partly, Part(t, c, turn[t]) \/ Completes(t, c, turn[t])
      PROVE  CalmTurns'
  <2>1. c \in Calls /\ c[1] = t /\ c[2] <= turn[t].named
    BY <1>2 DEF TurnRecord, PartsOf
  <2> DEFINE n == turn[t].named
  <2>2. n \in 0 .. MaxCalls /\ c[2] <= n /\ turn[t].named <= n
        /\ (Part(t, c, [turn[t] EXCEPT !.named = n])
                \/ Completes(t, c, [turn[t] EXCEPT !.named = n]))
    BY <1>3, <1>4, <1>5, <2>1
  <2> HIDE DEF n
  <2> QED
    BY <1>5, <2>1, <2>2, CalmUse
<1>6. ASSUME turn[t].named + 1 <= MaxCalls,
             \/ Part(t, <<t, turn[t].named + 1>>, [turn[t] EXCEPT !.named = turn[t].named + 1])
             \/ Completes(t, <<t, turn[t].named + 1>>,
                             [turn[t] EXCEPT !.named = turn[t].named + 1])
      PROVE  CalmTurns'
  <2> DEFINE n == turn[t].named + 1
             c == <<t, n>>
  <2>1. n \in 0 .. MaxCalls /\ turn[t].named <= n /\ turn[t].named < n /\ n <= n
        /\ c \in Calls /\ c[1] = t /\ c[2] = n
    BY <1>3, <1>6, ThreadAssumption DEF Calls
  <2>2. Part(t, c, [turn[t] EXCEPT !.named = n]) \/ Completes(t, c, [turn[t] EXCEPT !.named = n])
    BY <1>6
  <2> HIDE DEF n, c
  <2> QED
    BY <2>1, <2>2, CalmUse
<1> QED
  BY <1>5, <1>6 DEF PartialUse, WholeUse

\* Tools are told to end, and their results may be taken in.
LEMMA WhichAreOver ==
    ASSUME Types, NEW t \in Turns, NEW states, \A c \in Calls : tool[<<c, 2>>] = "none",
           "none" \notin states
    PROVE  LET over == Over(RunsIn(t, states)) IN
           /\ \A c \in Calls : over[<<c, 2>>] = "none"
           /\ \A c \in Calls, k \in {0, 1} : over[<<c, k>>] =
                IF c[1] = t /\ tool[<<c, k>>] \in states THEN "over" ELSE tool[<<c, k>>]
           /\ CallsOf(RunsIn(t, states)) =
                {c \in Calls : c[1] = t /\ \E k \in {0, 1} : tool[<<c, k>>] \in states}
<1> DEFINE runs == RunsIn(t, states)
           ofTurn == {c \in Calls : c[1] = t /\ \E k \in {0, 1} : tool[<<c, k>>] \in states}
<1>1. \A c \in Calls : <<c, 2>> \in Runs /\ <<c, 2>> \notin runs
  BY Names DEF RunsIn, RunsOf
<1>2. \A c \in Calls, k \in {0, 1} :
        <<c, k>> \in Runs /\ (<<c, k>> \in runs <=> (c[1] = t /\ tool[<<c, k>>] \in states))
  <2> SUFFICES ASSUME NEW c \in Calls, NEW k \in {0, 1}
               PROVE  <<c, k>> \in Runs
                      /\ (<<c, k>> \in runs <=> (c[1] = t /\ tool[<<c, k>>] \in states))
    OBVIOUS
  <2>1. <<c, k>> \in Runs /\ <<c, k>>[1] = c
    BY Names
  <2> QED
    BY <2>1 DEF RunsIn, RunsOf
<1>3. \A r \in runs : r[1] \in Calls /\ r[2] \in {0, 1} /\ r = <<r[1], r[2]>>
  <2> SUFFICES ASSUME NEW r \in runs PROVE r[1] \in Calls /\ r[2] \in {0, 1} /\ r = <<r[1], r[2]>>
    OBVIOUS
  <2>1. r \in Runs /\ tool[r] # "none"
    BY DEF RunsIn, RunsOf
  <2>2. r[1] \in Calls /\ r[2] \in {0, 1, 2} /\ r = <<r[1], r[2]>>
    BY <2>1, Names
  <2>3. r[2] # 2
    BY <2>1, <2>2
  <2> QED
    BY <2>2, <2>3
<1> HIDE DEF runs
<1>4. \A r \in Runs : Over(runs)[r] = IF r \in runs THEN "over" ELSE tool[r]
  BY DEF Over
<1>5. \A c \in Calls : Over(runs)[<<c, 2>>] = "none"
  BY <1>1, <1>4
<1>6. \A c \in Calls, k \in {0, 1} : Over(runs)[<<c, k>>] =
        IF c[1] = t /\ tool[<<c, k>>] \in states THEN "over" ELSE tool[<<c, k>>]
  BY <1>2, <1>4
<1>7. CallsOf(runs) = ofTurn
  <2>1. ASSUME NEW c \in CallsOf(runs) PROVE c \in ofTurn
    <3> PICK r \in runs : c = r[1]
      BY DEF CallsOf
    <3>1. c \in Calls /\ r[2] \in {0, 1} /\ <<c, r[2]>> \in runs
      BY <1>3
    <3> QED
      BY <1>2, <3>1
  <2>2. ASSUME NEW c \in ofTurn PROVE c \in CallsOf(runs)
    <3> PICK k \in {0, 1} : tool[<<c, k>>] \in states
      OBVIOUS
    <3>1. <<c, k>> \in runs /\ <<c, k>>[1] = c
      BY <1>2
    <3> QED
      BY <3>1 DEF CallsOf
  <2> HIDE DEF ofTurn
  <2> QED
    BY <2>1, <2>2
<1> QED
  BY <1>5, <1>6, <1>7 DEF runs

\* The answer is over, and its tools go on.
LEMMA CalmLeaves ==
    ASSUME Types, TurnsAreKnown, Calm, CalmTurns, Later, NEW t \in Turns, NEW why,
           Streaming(t), Leaves(t, why)
    PROVE  CalmTurns'
<1>1. Active(t) /\ turn[t].at \in {"asking", "streaming"}
  BY DEF Streaming, At, Active
<1>2. /\ running = t /\ running # 0 /\ turn[t].stops = <<>>
      /\ turn \in [Turns -> TurnRecord] /\ turn[t] \in TurnRecord
      /\ pending \in Pending /\ pending.done \subseteq pending.content
      /\ \A d \in Uses(pending.content) : d[1] = t /\ d[2] <= turn[t].named
      /\ turn[t].first < Len(messages)
      /\ \A d \in Calls : ToolIsOfTheTurn(d)
      /\ \A d \in Calls : tool[<<d, 2>>] = "none"
  BY <1>1, TheTurn
<1> DEFINE ended == {d \in Calls : d[1] = t /\ \E k \in {0, 1} : tool[<<d, k>>] \in {"ended"}}
<1>3. /\ messages' = messages /\ running' = running
      /\ pending' = [pending EXCEPT !.done = pending.done \union ended]
      /\ \A d \in Calls : tool'[<<d, 2>>] = "none"
      /\ \A d \in Calls, k \in {0, 1} : tool'[<<d, k>>] =
            IF d[1] = t /\ tool[<<d, k>>] \in {"ended"} THEN "over" ELSE tool[<<d, k>>]
  <2>1. CallsOf(RunsIn(t, {"ended"})) = ended
    BY <1>2, WhichAreOver
  <2>2. /\ \A d \in Calls : Over(RunsIn(t, {"ended"}))[<<d, 2>>] = "none"
        /\ \A d \in Calls, k \in {0, 1} : Over(RunsIn(t, {"ended"}))[<<d, k>>] =
                IF d[1] = t /\ tool[<<d, k>>] \in {"ended"} THEN "over" ELSE tool[<<d, k>>]
    BY <1>2, WhichAreOver
  <2>3. pending' = WithResults(CallsOf(RunsIn(t, {"ended"}))) /\ tool' = Over(RunsIn(t, {"ended"}))
        /\ messages' = messages /\ running' = running
    BY DEF Leaves
  <2> QED
    BY <2>1, <2>2, <2>3 DEF WithResults
<1> DEFINE next == IF why = "ended" /\ RunsIn(t, {"running", "ended"}) # {}
                   THEN "acted" ELSE IF why = "failed" THEN why ELSE "end"
<1>4. turn' = [turn EXCEPT ![t].at = "tools", ![t].partly = {}, ![t].why = next]
  BY DEF Leaves
<1> HIDE DEF next
<1>5. /\ turn'[t].at = "tools" /\ turn'[t].first = turn[t].first
      /\ turn'[t].named = turn[t].named /\ turn'[t].partly = {}
      /\ \A u \in Turns : u # t => turn'[u] = turn[u]
  BY <1>2, <1>4 DEF TurnRecord
<1>6. pending'.content = pending.content /\ pending'.done = pending.done \union ended
  BY <1>2, <1>3 DEF Pending
<1>7. \A d \in ended : d \in pending.content
  BY <1>2 DEF ToolIsOfTheTurn
<1>8. ASSUME NEW d \in Calls, d[1] = t PROVE ToolIsOfTheTurn(d)' /\ Stays(d)
  <2>1. ToolIsOfTheTurn(d) /\ tool'[<<d, 2>>] = "none"
        /\ \A k \in {0, 1} :
            tool'[<<d, k>>] = IF tool[<<d, k>>] = "ended" THEN "over" ELSE tool[<<d, k>>]
    BY <1>2, <1>3, <1>8
  <2>2. \A k \in {0, 1} : tool[<<d, k>>] = "ended" => d \in pending'.done
    BY <1>6, <1>8
  <2>3. ToolIsOfTheTurn(d)'
    BY <1>1, <1>5, <1>6, <1>8, <2>1, <2>2 DEF ToolIsOfTheTurn, Active
  <2>4. Stays(d)
    BY <1>1, <1>5, <1>8, <2>1 DEF Stays, Closed, Untouched, Active
  <2> QED
    BY <2>3, <2>4
<1>9. PartsOf(t)'
  BY <1>5 DEF PartsOf
<1>10. /\ running' = t /\ running' # 0 /\ turn'[t].first < Len(messages')
       /\ turn'[t].at \notin {"asking", "delay"}
       /\ pending'.done \subseteq pending'.content
       /\ \A d \in Calls, k \in {0, 1} : d[1] # t => tool'[<<d, k>>] = tool[<<d, k>>]
       /\ \A d \in Uses(pending'.content) : d[1] = t /\ d[2] <= turn'[t].named
  BY <1>2, <1>3, <1>5, <1>6, <1>7
<1>11. \A i \in DOMAIN messages' : \E j \in DOMAIN messages : messages'[i] = messages[j]
  BY <1>3
<1> QED
  BY <1>2, <1>3, <1>5, <1>8, <1>9, <1>10, <1>11, OneTurnMoves

\* A tool ends, while the answer comes in or after it.
LEMMA CalmTools ==
    ASSUME Types, TurnsAreKnown, Calm, CalmTurns, Later,
           (\E r \in Runs : ToolEnds(r)) \/ (\E t \in Turns : TakesResult(t))
    PROVE  CalmTurns'
<1>1. \A c \in Calls : ToolIsOfTheTurn(c) /\ tool[<<c, 2>>] = "none"
  BY DEF CalmTurns, ToolIsOfTheTurn
<1> DEFINE Moves(c, k, t) ==
            /\ c[1] = t /\ tool[<<c, k>>] = "running" /\ Active(t)
            /\ UNCHANGED <<messages, running, turn, inputs>>
            /\ \/ turn[t].at \in {"asking", "streaming"} /\ pending' = pending
                  /\ tool' = [tool EXCEPT ![<<c, k>>] = "ended"]
               \/ turn[t].at = "tools" /\ pending' = WithResults({c})
                  /\ tool' = Over({<<c, k>>})
<1>2. \E c \in Calls, k \in {0, 1}, t \in Turns : Moves(c, k, t)
  <2>1. ASSUME NEW r \in Runs, tool[r] = "running"
        PROVE  r = <<r[1], r[2]>> /\ r[1] \in Calls /\ r[2] \in {0, 1} /\ r[1][1] \in Turns
    <3>1. r[1] \in Calls /\ r[2] \in {0, 1, 2} /\ r = <<r[1], r[2]>>
      BY Names
    <3>2. r[2] # 2
      BY <1>1, <2>1, <3>1
    <3> QED
      BY <3>1, <3>2, Names
  <2>2. ASSUME NEW r \in Runs, ToolEnds(r)
        PROVE  \E c \in Calls, k \in {0, 1}, t \in Turns : Moves(c, k, t)
    <3>1. /\ tool[r] = "running" /\ Active(r[1][1])
          /\ UNCHANGED <<messages, running, turn, inputs>>
          /\ turn[r[1][1]].at \in {"asking", "streaming"} /\ pending' = pending
          /\ tool' = [tool EXCEPT ![r] = "ended"]
      BY <2>2 DEF ToolEnds, Streaming, At, Active
    <3> DEFINE c == r[1]
               k == r[2]
    <3>2. r = <<c, k>> /\ c \in Calls /\ k \in {0, 1} /\ c[1] \in Turns
      BY <2>1, <3>1
    <3> HIDE DEF c, k
    <3>3. Moves(c, k, c[1])
      BY <3>1, <3>2
    <3> QED
      BY <3>2, <3>3
  <2>3. ASSUME NEW t \in Turns, TakesResult(t)
        PROVE  \E c \in Calls, k \in {0, 1}, u \in Turns : Moves(c, k, u)
    <3> PICK r \in RunsIn(t, {"running"}) : pending' = WithResults({r[1]}) /\ tool' = Over({r})
      BY <2>3 DEF TakesResult
    <3>1. r \in Runs /\ r[1][1] = t /\ tool[r] = "running"
      BY DEF RunsIn, RunsOf
    <3> DEFINE c == r[1]
               k == r[2]
    <3>2. r = <<c, k>> /\ c \in Calls /\ k \in {0, 1}
      BY <2>1, <3>1
    <3>3. pending' = WithResults({c}) /\ tool' = Over({r}) /\ c[1] = t
      BY <3>1
    <3> HIDE DEF c, k
    <3>4. tool[<<c, k>>] = "running" /\ tool' = Over({<<c, k>>})
      BY <3>1, <3>2, <3>3
    <3>5. turn[t].at = "tools" /\ Active(t) /\ UNCHANGED <<messages, running, turn, inputs>>
      BY <2>3 DEF TakesResult, At, Active
    <3>6. Moves(c, k, t)
      BY <3>3, <3>4, <3>5
    <3> QED
      BY <3>2, <3>6
  <2> HIDE DEF Moves
  <2> QED
    BY <2>2, <2>3
<1> PICK c \in Calls, k \in {0, 1}, t \in Turns : Moves(c, k, t)
  BY <1>2
<1>3. /\ running = t /\ running # 0 /\ turn[t].stops = <<>>
      /\ turn \in [Turns -> TurnRecord] /\ turn[t] \in TurnRecord
      /\ tool \in [Runs -> {"none", "running", "ended", "over"}]
      /\ pending \in Pending /\ pending.done \subseteq pending.content
      /\ \A d \in Uses(pending.content) : d[1] = t /\ d[2] <= turn[t].named
      /\ turn[t].first < Len(messages)
      /\ PartsOf(t)
      /\ turn[t].at \in {"asking", "delay"} => pending = Empty
  BY TheTurn
<1>4. turn[t].at \in {"streaming", "tools"} /\ c \in pending.content
  BY <1>1 DEF ToolIsOfTheTurn
<1>5. <<c, k>> \in Runs /\ \A d, j : (d # c \/ j # k) => <<d, j>> # <<c, k>>
  BY Names
<1>6. /\ \A d \in Calls, j \in {0, 1, 2} :
            (d # c \/ j # k) => tool'[<<d, j>>] = tool[<<d, j>>]
      /\ pending'.content = pending.content
      /\ \/ tool'[<<c, k>>] = "ended" /\ turn[t].at = "streaming" /\ pending'.done = pending.done
         \/ tool'[<<c, k>>] = "over" /\ pending'.done = pending.done \union {c}
  <2>1. CASE turn[t].at \in {"asking", "streaming"} /\ pending' = pending
             /\ tool' = [tool EXCEPT ![<<c, k>>] = "ended"]
    <3>1. tool'[<<c, k>>] = "ended" /\ \A r \in Runs : r # <<c, k>> => tool'[r] = tool[r]
      BY <1>3, <1>5, <2>1
    <3>2. \A d \in Calls, j \in {0, 1, 2} :
            (d # c \/ j # k) => tool'[<<d, j>>] = tool[<<d, j>>]
      BY <1>5, <3>1, Names
    <3> QED
      BY <1>4, <2>1, <3>1, <3>2
  <2>2. CASE pending' = WithResults({c}) /\ tool' = Over({<<c, k>>})
    <3>1. tool'[<<c, k>>] = "over" /\ \A r \in Runs : r # <<c, k>> => tool'[r] = tool[r]
      BY <1>5, <2>2 DEF Over
    <3>2. \A d \in Calls, j \in {0, 1, 2} :
            (d # c \/ j # k) => tool'[<<d, j>>] = tool[<<d, j>>]
      BY <1>5, <3>1, Names
    <3>3. pending'.content = pending.content /\ pending'.done = pending.done \union {c}
      BY <1>3, <2>2 DEF WithResults, Pending
    <3> QED
      BY <3>1, <3>2, <3>3
  <2> QED
    BY <2>1, <2>2
<1>7. ASSUME NEW d \in Calls, d[1] = t PROVE ToolIsOfTheTurn(d)' /\ Stays(d)
  <2>1. ToolIsOfTheTurn(d) /\ turn' = turn /\ (Untouched(d) => Untouched(d)')
    BY <1>1, <1>6 DEF Untouched
  <2>2. ToolIsOfTheTurn(d)'
    BY <1>1, <1>4, <1>6, <1>7, <2>1 DEF ToolIsOfTheTurn, Active
  <2>3. Stays(d)
    BY <2>1 DEF Stays, Closed, Active
  <2> QED
    BY <2>2, <2>3
<1>8. PartsOf(t)'
  <2>1. ASSUME NEW d \in turn[t].partly PROVE d \in Calls /\ (Started(d)' => Started(d))
    <3>1. d \in Calls
      BY <1>3 DEF TurnRecord
    <3>2. d # c \/ k # 1 => tool'[<<d, 1>>] = tool[<<d, 1>>]
      BY <1>6, <3>1
    <3> QED
      BY <3>1, <3>2 DEF Started
  <2> QED
    BY <1>3, <1>6, <2>1 DEF PartsOf
<1>9. /\ running' = t /\ running' # 0 /\ turn'[t].first < Len(messages')
      /\ turn'[t].at \notin {"asking", "delay"} /\ turn' = turn
      /\ pending'.done \subseteq pending'.content
      /\ \A d \in Calls, j \in {0, 1} : d[1] # t => tool'[<<d, j>>] = tool[<<d, j>>]
      /\ \A d \in Uses(pending'.content) : d[1] = t /\ d[2] <= turn'[t].named
      /\ \A d \in Calls : tool'[<<d, 2>>] = "none"
  BY <1>1, <1>3, <1>4, <1>6
<1>10. \A i \in DOMAIN messages' : \E j \in DOMAIN messages : messages'[i] = messages[j]
  OBVIOUS
<1> QED
  BY <1>3, <1>6, <1>7, <1>8, <1>9, <1>10, OneTurnMoves

\* An answer is dropped, with the tools it has started: another model is asked, or the
\* turn ends.
LEMMA CalmDrops ==
    ASSUME Types, TurnsAreKnown, Calm, CalmTurns, Later, NEW t \in Turns,
           Fallback(t) \/ Refusal(t) \/ OutOfTokens(t)
    PROVE  CalmTurns'
<1>1. Active(t) /\ turn[t].at \in {"asking", "streaming"} /\ tool' = Over(RunsIn(t, {"running", "ended"}))
  BY DEF Fallback, Refusal, OutOfTokens, Drop, Streaming, At, Active
<1>2. /\ running = t /\ running # 0 /\ turn[t].stops = <<>> /\ ~ turn[t].cancelled
      /\ turn \in [Turns -> TurnRecord] /\ turn[t] \in TurnRecord
      /\ tool \in [Runs -> {"none", "running", "ended", "over"}]
      /\ pending \in Pending /\ pending.done \subseteq pending.content
      /\ \A d \in Uses(pending.content) : d[1] = t
      /\ turn[t].first < Len(messages)
      /\ \A d \in Calls : ToolIsOfTheTurn(d)
      /\ \A d \in Calls : tool[<<d, 2>>] = "none"
  BY <1>1, TheTurn
<1>3. /\ \A d \in Calls : tool'[<<d, 2>>] = "none"
      /\ \A d \in Calls, k \in {0, 1} : tool'[<<d, k>>] =
            IF d[1] = t /\ tool[<<d, k>>] \in {"running", "ended"} THEN "over" ELSE tool[<<d, k>>]
  <2>1. "none" \notin {"running", "ended"}
    OBVIOUS
  <2> QED
    BY <1>1, <1>2, <2>1, WhichAreOver
<1>4. \A d \in Calls, k \in {0, 1} : tool[<<d, k>>] \in {"none", "running", "ended", "over"}
  BY <1>2, Names
<1>5. CASE Fallback(t)
  <2>1. messages' = messages /\ running' = running /\ pending' = Empty /\ Ask(t, turn[t].attempt)
    BY <1>5 DEF Fallback
  <2>2. /\ turn'[t].at = "asking" /\ turn'[t].first = turn[t].first
        /\ turn'[t].named = turn[t].named /\ turn'[t].partly = {}
        /\ \A u \in Turns : u # t => turn'[u] = turn[u]
    BY <1>2, <2>1 DEF Ask, TurnRecord
  <2>3. ASSUME NEW d \in Calls, d[1] = t PROVE ToolIsOfTheTurn(d)' /\ Stays(d)
    <3>1. ToolIsOfTheTurn(d) /\ tool'[<<d, 2>>] = "none" /\ d \notin pending'.content
          /\ (\A k \in {0, 1} : tool'[<<d, k>>] \in {"none", "over"})
          /\ (Untouched(d) => Untouched(d)')
      BY <1>2, <1>3, <1>4, <2>1, <2>3 DEF Untouched, Empty
    <3>2. \A k \in {0, 1} : tool'[<<d, k>>] # "none" => tool[<<d, k>>] # "none"
      BY <1>3, <2>3
    <3>3. ToolIsOfTheTurn(d)'
      BY <1>1, <2>2, <2>3, <3>1, <3>2 DEF ToolIsOfTheTurn, Active
    <3>4. Stays(d)
      BY <1>1, <2>2, <2>3, <3>1 DEF Stays, Closed, Active
    <3> QED
      BY <3>3, <3>4
  <2>4. PartsOf(t)'
    BY <2>2 DEF PartsOf
  <2>5. /\ running' = t /\ running' # 0 /\ turn'[t].first < Len(messages')
        /\ pending'.done \subseteq pending'.content
        /\ \A d \in Uses(pending'.content) : d[1] = t /\ d[2] <= turn'[t].named
        /\ \A d \in Calls, k \in {0, 1} : d[1] # t => tool'[<<d, k>>] = tool[<<d, k>>]
    BY <1>2, <1>3, <2>1, <2>2 DEF Empty, Uses
  <2>6. \A i \in DOMAIN messages' : \E j \in DOMAIN messages : messages'[i] = messages[j]
    BY <2>1
  <2> QED
    BY <1>2, <1>3, <2>1, <2>2, <2>3, <2>4, <2>5, <2>6, OneTurnMoves
<1>6. ASSUME NEW reason \in {"refusal", "max_tokens"}, Ends(t, reason)
      PROVE  CalmTurns'
  <2>1. /\ messages' = Kept(t, reason) /\ pending' = Empty /\ running' = 0
        /\ turn' = [turn EXCEPT ![t] = Gone(Append(turn[t].stops, reason), turn[t].cancelled)]
    BY <1>2, <1>6 DEF Ends, WasCancelled, Finish, Kept
  <2> DEFINE x == Gone(Append(turn[t].stops, reason), turn[t].cancelled)
  <2>2. x.at = "over" /\ x.partly = {} /\ x.stops = Append(turn[t].stops, reason)
    BY DEF Gone, NewTurn
  <2> HIDE DEF x
  <2>3. /\ turn'[t].at = "over" /\ turn'[t].partly = {}
        /\ turn'[t].stops = Append(turn[t].stops, reason)
        /\ \A u \in Turns : u # t => turn'[u] = turn[u]
    BY <1>2, <2>1, <2>2 DEF x
  <2>4. turn'[t].stops = <<reason>>
    BY <1>2, <2>3
  <2>5. ASSUME NEW d \in Calls, d[1] = t PROVE ToolIsOfTheTurn(d)' /\ Stays(d) /\ Closed(d)'
    <3>1. tool'[<<d, 2>>] = "none" /\ d \notin pending'.content
          /\ (\A k \in {0, 1} : tool'[<<d, k>>] \in {"none", "over"})
          /\ (Untouched(d) => Untouched(d)')
      BY <1>2, <1>3, <1>4, <2>1, <2>5 DEF Untouched, Empty
    <3>2. ToolIsOfTheTurn(d)'
      BY <2>3, <2>5, <3>1 DEF ToolIsOfTheTurn, Active
    <3>3. Closed(d)'
      BY <2>3, <2>5 DEF Closed
    <3> QED
      BY <3>1, <3>2, <3>3 DEF Stays
  <2>6. PartsOf(t)'
    BY <2>3 DEF PartsOf
  <2>7. CASE reason = "max_tokens"
    <3>1. \A d \in Uses(pending.content) : d \in Calls /\ d[1] = t
      BY <1>2 DEF Uses
    <3>2. Joins
      BY <1>2, <2>4, <2>5, <2>7, <3>1 DEF Joins
    <3>3. /\ pending'.done \subseteq pending'.content
          /\ \A d \in Calls, k \in {0, 1} : d[1] # t => tool'[<<d, k>>] = tool[<<d, k>>]
      BY <1>3, <2>1 DEF Empty
    <3> QED
      BY <1>2, <1>3, <2>1, <2>3, <2>5, <2>6, <3>2, <3>3, OneTurnMoves
  <2>8. CASE reason = "refusal"
    <3> DEFINE ms == Flushed(messages, pending)
               n == turn[t].first
    <3>1. messages \in Seq(Message) /\ n \in Nat
      BY <1>2 DEF Types, TurnRecord
    <3>2. ms \in Seq(Message) /\ Len(ms) \in Nat /\ Len(messages) \in Nat /\ Len(messages) <= Len(ms)
          /\ DOMAIN messages = 1 .. Len(messages) /\ \A i \in DOMAIN messages : ms[i] = messages[i]
      BY <1>2, <3>1, WhatIsFlushed
    <3>3. messages' = IF n < Len(ms) THEN SubSeq(ms, 1, n) ELSE ms
      BY <2>1, <2>8 DEF Kept
    <3>4. n < Len(messages)
      BY <1>2
    <3> HIDE DEF ms, n
    <3>5. n \in 0 .. Len(ms) /\ messages' = SubSeq(ms, 1, n)
      BY <3>1, <3>2, <3>3, <3>4
    <3>6. DOMAIN messages' = 1 .. n /\ \A i \in 1 .. n : messages'[i] = ms[i]
      BY <3>2, <3>5, WhatIsLeft
    <3>7. \A i \in DOMAIN messages' : i \in DOMAIN messages /\ messages'[i] = messages[i]
      BY <3>1, <3>2, <3>4, <3>6
    <3>8. \A i \in DOMAIN messages' : \E j \in DOMAIN messages : messages'[i] = messages[j]
      BY <3>7
    <3>9. /\ pending'.done \subseteq pending'.content
          /\ \A d \in Calls, k \in {0, 1} : d[1] # t => tool'[<<d, k>>] = tool[<<d, k>>]
      BY <1>3, <2>1 DEF Empty
    <3> QED
      BY <1>2, <1>3, <2>1, <2>3, <2>5, <2>6, <3>8, <3>9, OneTurnMoves
  <2> QED
    BY <2>7, <2>8
<1> QED
  BY <1>5, <1>6 DEF Refusal, OutOfTokens

\* All tools are done, and the message joins the thread.
LEMMA CalmAnswered ==
    ASSUME Types, TurnsAreKnown, Calm, CalmTurns, Later, NEW t \in Turns,
           Done(t) \/ GivesUp(t) \/ AsksAgain(t) \/ WillRetry(t)
    PROVE  CalmTurns'
<1>1. /\ Active(t) /\ turn[t].at = "tools" /\ tool' = tool /\ RunsIn(t, {"running"}) = {}
      /\ messages' = Flushed(messages, pending) /\ pending' = Empty
  BY DEF Done, GivesUp, AsksAgain, WillRetry, Answered, Flush, At, Active
<1>2. /\ running = t /\ running # 0 /\ turn[t].stops = <<>> /\ ~ turn[t].cancelled
      /\ turn \in [Turns -> TurnRecord] /\ turn[t] \in TurnRecord
      /\ tool \in [Runs -> {"none", "running", "ended", "over"}]
      /\ pending \in Pending /\ pending.done \subseteq pending.content
      /\ \A d \in Uses(pending.content) : d[1] = t /\ d[2] <= turn[t].named
      /\ turn[t].first < Len(messages)
      /\ \A d \in Calls : ToolIsOfTheTurn(d)
      /\ PartsOf(t)
      /\ \A d \in Calls : tool[<<d, 2>>] = "none"
  BY <1>1, TheTurn
<1>3. turn[t].partly = {}
  BY <1>1, <1>2 DEF PartsOf
<1>4. \/ /\ running' = t /\ turn'[t].at \in {"asking", "delay"} /\ turn'[t].first = turn[t].first
         /\ turn'[t].named = turn[t].named /\ turn'[t].partly = {}
      \/ running' = 0 /\ turn'[t].at = "over" /\ turn'[t].partly = {}
  <2>1. CASE Done(t) \/ GivesUp(t)
    <3> DEFINE stops == Append(turn[t].stops, "ended")
               x == Gone(stops, turn[t].cancelled)
    <3>1. turn' = [turn EXCEPT ![t] = x] /\ running' = 0
      BY <1>2, <2>1 DEF Done, GivesUp, Finish, WasCancelled
    <3> HIDE DEF stops
    <3>2. x.at = "over" /\ x.partly = {}
      BY DEF Gone, NewTurn
    <3> HIDE DEF x
    <3> QED
      BY <1>2, <3>1, <3>2
  <2>2. CASE AsksAgain(t)
    BY <1>2, <2>2 DEF AsksAgain, Ask, TurnRecord
  <2>3. CASE WillRetry(t)
    <3>1. turn' = [turn EXCEPT ![t].at = "delay", ![t].why = "none", ![t].attempt = turn[t].attempt + 1]
          /\ running' = running
      BY <2>3 DEF WillRetry
    <3> QED
      BY <1>2, <1>3, <3>1 DEF TurnRecord
  <2> QED
    BY <2>1, <2>2, <2>3
<1>5. \A u \in Turns : u # t => turn'[u] = turn[u]
  BY <1>2 DEF Done, GivesUp, AsksAgain, WillRetry, Finish, Ask
<1>6. ASSUME NEW d \in Calls, d[1] = t PROVE ToolIsOfTheTurn(d)' /\ Stays(d)
  <2>1. ToolIsOfTheTurn(d) /\ d \notin pending'.content /\ (Untouched(d)' <=> Untouched(d))
    BY <1>1, <1>2, <1>6 DEF Untouched, Empty
  <2>2. \A k \in {0, 1} : tool[<<d, k>>] \notin {"running", "ended"}
    <3>1. \A k \in {0, 1} : <<d, k>> \in Runs /\ <<d, k>>[1][1] = t
      BY <1>6, Names
    <3>2. \A k \in {0, 1} : tool[<<d, k>>] # "running"
      BY <1>1, <3>1 DEF RunsIn, RunsOf
    <3> QED
      BY <1>1, <1>6, <2>1, <3>2 DEF ToolIsOfTheTurn
  <2>3. ToolIsOfTheTurn(d)'
    BY <1>1, <1>4, <1>6, <2>1, <2>2 DEF ToolIsOfTheTurn, Active
  <2>4. Stays(d)
    BY <1>1, <1>3, <1>4, <1>6, <2>1 DEF Stays, Closed, Active
  <2> QED
    BY <2>3, <2>4
<1>7. PartsOf(t)'
  BY <1>4 DEF PartsOf
<1>8. Joins
  <2> SUFFICES ASSUME NEW d \in Uses(pending.content), d \notin pending.done
               PROVE  Closed(d)' /\ Untouched(d)'
    BY <1>2 DEF Joins
  <2>1. d \in Calls /\ d[1] = t /\ d[2] <= turn[t].named /\ d \in pending.content
        /\ \A k \in {0, 1} : <<d, k>> \in Runs /\ <<d, k>>[1][1] = t
    BY <1>2, Names DEF Uses
  <2>2. Closed(d)'
    BY <1>4, <2>1 DEF Closed, Active
  <2>3. ToolIsOfTheTurn(d)
        /\ \A k \in {0, 1} : tool[<<d, k>>] \in {"none", "running", "ended", "over"}
    BY <1>2, <2>1
  <2>4. \A k \in {0, 1} : tool[<<d, k>>] # "running"
    BY <1>1, <2>1 DEF RunsIn, RunsOf
  <2>5. \A k \in {0, 1} : tool[<<d, k>>] = "none"
    BY <1>1, <2>1, <2>3, <2>4 DEF ToolIsOfTheTurn
  <2> QED
    BY <1>1, <2>2, <2>5 DEF Untouched
<1>9. Len(messages) <= Len(messages') /\ Len(messages) \in Nat /\ Len(messages') \in Nat
      /\ turn[t].first \in Nat
  BY <1>1, <1>2, WhatIsFlushed DEF Types, TurnRecord
<1>10. /\ running' # 0 => turn'[t].first < Len(messages')
       /\ pending'.done \subseteq pending'.content
       /\ \A d \in Uses(pending'.content) : d[1] = t /\ d[2] <= turn'[t].named
       /\ \A d \in Calls, k \in {0, 1} : d[1] # t => tool'[<<d, k>>] = tool[<<d, k>>]
       /\ \A d \in Calls : tool'[<<d, 2>>] = "none"
       /\ running' # 0 => running' = t
  BY <1>1, <1>2, <1>4, <1>9 DEF Empty, Uses
<1> QED
  BY <1>1, <1>2, <1>5, <1>6, <1>7, <1>8, <1>10, OneTurnMoves

\* A retry begins.
LEMMA CalmRetries ==
    ASSUME Types, TurnsAreKnown, Calm, CalmTurns, Later, NEW t \in Turns, Retries(t)
    PROVE  CalmTurns'
<1>1. /\ Active(t) /\ turn[t].at = "delay" /\ UNCHANGED <<tool, pending, running>>
      /\ (messages' = messages \/ messages' = Append(messages, Resume))
      /\ Ask(t, turn[t].attempt)
  BY DEF Retries, At, Active
<1>2. /\ running = t /\ running # 0 /\ turn[t].stops = <<>>
      /\ turn \in [Turns -> TurnRecord] /\ turn[t] \in TurnRecord
      /\ pending = Empty
      /\ turn[t].first < Len(messages)
      /\ \A d \in Calls : ToolIsOfTheTurn(d)
      /\ PartsOf(t)
      /\ \A d \in Calls : tool[<<d, 2>>] = "none"
  BY <1>1, TheTurn
<1>3. /\ turn'[t].at = "asking" /\ turn'[t].first = turn[t].first
      /\ turn'[t].named = turn[t].named /\ turn'[t].partly = {}
      /\ \A u \in Turns : u # t => turn'[u] = turn[u]
  BY <1>1, <1>2 DEF Ask, TurnRecord
<1>4. turn[t].partly = {}
  BY <1>1, <1>2 DEF PartsOf
<1>5. ASSUME NEW d \in Calls, d[1] = t PROVE ToolIsOfTheTurn(d)' /\ Stays(d)
  <2>1. ToolIsOfTheTurn(d) /\ (Untouched(d)' <=> Untouched(d))
    BY <1>1, <1>2, <1>5 DEF Untouched
  <2>2. ToolIsOfTheTurn(d)'
    BY <1>1, <1>3, <1>5, <2>1 DEF ToolIsOfTheTurn, Active
  <2>3. Stays(d)
    BY <1>1, <1>3, <1>4, <1>5, <2>1 DEF Stays, Closed, Active
  <2> QED
    BY <2>2, <2>3
<1>6. PartsOf(t)'
  BY <1>3 DEF PartsOf
<1>7. /\ Len(messages) \in Nat /\ Len(messages') \in Nat /\ Len(messages) <= Len(messages')
      /\ \A i \in DOMAIN messages' : messages'[i].kind = "agent" =>
            \E j \in DOMAIN messages : messages'[i] = messages[j]
  <2>1. messages \in Seq(Message) /\ Resume \in Message /\ Resume.kind = "resume"
    BY DEF Types, Resume, Message
  <2>2. /\ Len(messages) \in Nat /\ DOMAIN messages = 1 .. Len(messages)
        /\ Len(Append(messages, Resume)) = Len(messages) + 1
        /\ DOMAIN Append(messages, Resume) = 1 .. (Len(messages) + 1)
        /\ \A i \in DOMAIN messages : Append(messages, Resume)[i] = messages[i]
        /\ Append(messages, Resume)[Len(messages) + 1] = Resume
    BY <2>1, WhatIsAdded
  <2>3. CASE messages' = messages
    BY <2>2, <2>3
  <2>4. CASE messages' = Append(messages, Resume)
    <3>1. ASSUME NEW i \in DOMAIN messages', messages'[i].kind = "agent"
          PROVE  \E j \in DOMAIN messages : messages'[i] = messages[j]
      <4>1. i \in DOMAIN messages
        BY <2>1, <2>2, <2>4, <3>1
      <4> QED
        BY <2>2, <2>4, <4>1
    <3> QED
      BY <2>2, <2>4, <3>1
  <2> QED
    BY <1>1, <2>3, <2>4
<1>8. turn[t].first \in Nat
  BY <1>2 DEF TurnRecord
<1>9. /\ running' = t /\ running' # 0 /\ turn'[t].first < Len(messages') /\ pending' = Empty
      /\ pending'.done \subseteq pending'.content
      /\ \A d \in Uses(pending'.content) : d[1] = t /\ d[2] <= turn'[t].named
      /\ \A d \in Calls, k \in {0, 1} : d[1] # t => tool'[<<d, k>>] = tool[<<d, k>>]
      /\ \A d \in Calls : tool'[<<d, 2>>] = "none"
  BY <1>1, <1>2, <1>3, <1>7, <1>8 DEF Empty, Uses
<1> QED
  BY <1>2, <1>3, <1>5, <1>6, <1>7, <1>9, OneTurnMoves

\* Calls to a thread of which no turn runs.
LEMMA CalmCalls ==
    ASSUME Types, TurnsAreKnown, Calm, CalmTurns, Later, Calm',
           \/ Cancel
           \/ \E t \in Turns : Send(t) \/ ResumeTurn(t) \/ Truncate(t) \/ LateFlush(t)
    PROVE  CalmTurns'
<1>1. /\ \A u \in Turns : Active(u) => running = u
      /\ \A u \in Turns : running = u => Active(u) /\ running # 0
      /\ running # 0 => running \in Turns
      /\ late = {}
  BY CalmFacts
<1>2. /\ turn \in [Turns -> TurnRecord] /\ messages \in Seq(Message)
      /\ tool \in [Runs -> {"none", "running", "ended", "over"}]
  BY DEF Types
<1>3. /\ \A c \in Calls : ToolIsOfTheTurn(c) /\ c[1] \in Turns
      /\ \A u \in Turns : PartsOf(u)
      /\ PendingIsOfTheTurn /\ MessagesAreSettled
  BY Names DEF CalmTurns
<1>4. ~ \E t \in Turns : LateFlush(t)
  BY <1>1 DEF LateFlush
<1>5. running = 0
  <2> SUFFICES ASSUME running # 0 PROVE FALSE
    OBVIOUS
  <2>1. running \in Turns /\ Cancelled[running].cancelled /\ Active(running)
    BY <1>1, WhatCancelDoes
  <2>2. CASE turn' = Cancelled
    BY <2>1, <2>2 DEF Calm
  <2>3. ASSUME NEW t \in Turns, NEW ms, RunTurn(t, ms) PROVE FALSE
    <3> DEFINE first == MessageIx(messages')
               x == [NewTurn EXCEPT !.at = "asking", !.first = first]
    <3>1. turn' = [Cancelled EXCEPT ![t] = x] /\ turn[t].at = "none"
      BY <2>3 DEF RunTurn
    <3> HIDE DEF x
    <3>2. t # running
      BY <2>1, <3>1 DEF Active
    <3>3. Cancelled \in [Turns -> TurnRecord]
      BY TurnTypes
    <3>4. turn'[running] = Cancelled[running]
      BY <2>1, <3>1, <3>2, <3>3
    <3> QED
      BY <2>1, <3>4 DEF Calm
  <2> QED
    BY <1>4, <2>2, <2>3 DEF Cancel, Truncate, Send, ResumeTurn
<1>6. Cancelled = turn /\ pending = Empty
  BY <1>3, <1>5 DEF Cancelled, PendingIsOfTheTurn
<1>7. Flushed(messages, pending) = messages
  BY <1>6 DEF Flushed, Empty
<1>8. CASE Cancel \/ \E t \in Turns : Truncate(t)
  <2>1. /\ turn' = turn /\ pending' = Empty /\ running' = 0 /\ tool' = tool
    BY <1>5, <1>6, <1>8 DEF Cancel, Truncate, Flush
  <2>2. \A i \in DOMAIN messages' : \E j \in DOMAIN messages : messages'[i] = messages[j]
    <3>1. CASE Cancel
      BY <1>5, <1>7, <3>1 DEF Cancel, Flush
    <3>2. ASSUME NEW t \in Turns, Truncate(t)
          PROVE  \A i \in DOMAIN messages' : \E j \in DOMAIN messages : messages'[i] = messages[j]
      <4> PICK i \in DOMAIN messages : messages' = SubSeq(messages, 1, i - 1)
        BY <1>5, <1>7, <3>2 DEF Truncate
      <4>1. i - 1 \in 0 .. Len(messages)
        BY <1>2, LenProperties
      <4> QED
        BY <1>2, <4>1, WhatIsLeft
    <3> QED
      BY <1>8, <3>1, <3>2
  <2>3. \A c \in Calls : Stays(c)
    BY <2>1 DEF Stays, Closed, Untouched, Active
  <2>4. \A i \in DOMAIN messages' : messages'[i].kind = "agent" => Settled(messages[i])'
    BY <1>3, <2>1, <2>2, <2>3, MessagesStaySettled
  <2>5. \A u \in Turns : PartsOf(u)'
    <3>1. \A u \in Turns : turn[u].at # "streaming"
      BY <1>1, <1>5 DEF Active
    <3> QED
      BY <1>3, <2>1, <3>1 DEF PartsOf
  <2>6. ASSUME NEW c \in Calls PROVE ToolIsOfTheTurn(c)'
    <3>1. ToolIsOfTheTurn(c) /\ ~ Active(c[1])
      BY <1>1, <1>3, <1>5
    <3>2. c \notin pending'.content
      BY <2>1 DEF Empty
    <3>3. \A k \in {0, 1} : tool[<<c, k>>] \notin {"running", "ended"}
      BY <3>1 DEF ToolIsOfTheTurn, Active
    <3> QED
      BY <2>1, <3>1, <3>2, <3>3 DEF ToolIsOfTheTurn, Active
  <2>7. PendingIsOfTheTurn'
    BY <2>1 DEF PendingIsOfTheTurn, Empty, Uses
  <2> QED
    BY <2>1, <2>4, <2>5, <2>6, <2>7 DEF CalmTurns, MessagesAreSettled
<1>9. ASSUME NEW t \in Turns, NEW m \in Message, m.kind # "agent",
             RunTurn(t, Append(messages, m))
      PROVE  CalmTurns'
  <2> DEFINE first == MessageIx(messages')
             x == [NewTurn EXCEPT !.at = "asking", !.first = first]
  <2>1. /\ turn' = [turn EXCEPT ![t] = x] /\ turn[t].at = "none"
        /\ messages' = Append(messages, m) /\ pending' = Empty
        /\ running' = t /\ tool' = tool
    BY <1>6, <1>9 DEF RunTurn, Flushed, Empty
  <2>2. x.at = "asking" /\ x.partly = {} /\ x.first = first
    BY DEF NewTurn
  <2> HIDE DEF x
  <2>3. /\ turn'[t].at = "asking" /\ turn'[t].partly = {} /\ turn'[t].first = Len(messages') - 1
        /\ \A u \in Turns : u # t => turn'[u] = turn[u]
    BY <1>2, <2>1, <2>2 DEF MessageIx
  <2>4. /\ Len(messages) \in Nat /\ DOMAIN messages = 1 .. Len(messages)
        /\ Len(messages') = Len(messages) + 1
        /\ DOMAIN messages' = 1 .. (Len(messages) + 1)
        /\ \A i \in DOMAIN messages : messages'[i] = messages[i]
        /\ messages'[Len(messages) + 1] = m
    BY <1>2, <2>1, WhatIsAdded
  <2>5. \A u \in Turns : ~ Active(u)
    BY <1>1, <1>5
  <2>6. ASSUME NEW c \in Calls PROVE ToolIsOfTheTurn(c)' /\ Stays(c)
    <3>1. ToolIsOfTheTurn(c) /\ ~ Active(c[1]) /\ c \notin pending'.content
      BY <1>3, <2>1, <2>5 DEF Empty
    <3>2. \A k \in {0, 1} : tool[<<c, k>>] \notin {"running", "ended"}
      BY <3>1 DEF ToolIsOfTheTurn, Active
    <3>3. c[1] = t => Untouched(c) /\ ~ Closed(c)
      BY <2>1, <3>1 DEF Untouched, ToolIsOfTheTurn, Active, Closed
    <3>4. ToolIsOfTheTurn(c)'
      <4>1. CASE c[1] = t
        BY <2>1, <3>1, <3>2, <3>3, <4>1 DEF ToolIsOfTheTurn
      <4>2. CASE c[1] # t
        <5>1. turn'[c[1]] = turn[c[1]]
          BY <1>3, <2>3, <4>2
        <5> QED
          BY <2>1, <3>1, <3>2, <5>1 DEF ToolIsOfTheTurn, Active
      <4> QED
        BY <4>1, <4>2
    <3>5. Stays(c)
      <4>1. CASE c[1] = t
        BY <3>3, <4>1 DEF Stays
      <4>2. CASE c[1] # t
        <5>1. turn'[c[1]] = turn[c[1]]
          BY <1>3, <2>3, <4>2
        <5> QED
          BY <2>1, <3>1, <5>1 DEF Stays, Closed, Untouched, Active
      <4> QED
        BY <4>1, <4>2
    <3> QED
      BY <3>4, <3>5
  <2>7. ASSUME NEW u \in Turns, turn[u].stops = <<"max_tokens">>
        PROVE  turn'[u].stops = <<"max_tokens">>
    <3>1. Told(t) /\ <<"max_tokens">> # <<>>
      BY DEF TurnsAreKnown
    <3>2. u # t
      BY <2>1, <2>7, <3>1 DEF Told
    <3> QED
      BY <2>3, <2>7, <3>2
  <2>8. \A i \in DOMAIN messages' : messages'[i].kind = "agent" =>
            \E j \in DOMAIN messages : messages'[i] = messages[j]
    <3>1. ASSUME NEW i \in DOMAIN messages', messages'[i].kind = "agent"
          PROVE  i \in DOMAIN messages
      BY <1>9, <2>4, <3>1
    <3> QED
      BY <2>4, <3>1
  <2>9. \A i \in DOMAIN messages' : messages'[i].kind = "agent" => Settled(messages[i])'
    BY <1>3, <2>6, <2>7, <2>8, MessagesStaySettled
  <2>10. ASSUME NEW u \in Turns PROVE PartsOf(u)'
    <3>1. CASE u = t
      BY <2>3, <3>1 DEF PartsOf
    <3>2. CASE u # t
      BY <1>3, <2>3, <2>5, <3>2 DEF PartsOf, Active
    <3> QED
      BY <3>1, <3>2
  <2>11. PendingIsOfTheTurn'
    BY <2>1 DEF PendingIsOfTheTurn, Empty, Uses
  <2>12. MessagesAreSettled'
    BY <2>1, <2>3, <2>4, <2>9 DEF MessagesAreSettled
  <2> QED
    BY <2>6, <2>10, <2>11, <2>12 DEF CalmTurns
<1>10. CASE \E t \in Turns : Send(t) \/ ResumeTurn(t)
  BY <1>9, <1>10 DEF Send, ResumeTurn, User, Resume, Message
<1> QED
  BY <1>4, <1>8, <1>10

\* What holds as long as no turn is cancelled, after every step.
LEMMA CalmStep ==
    Types /\ TurnsAreKnown /\ (Calm => CalmTurns) /\ [Next]_vars => (Calm => CalmTurns)'
<1> SUFFICES ASSUME Types, TurnsAreKnown, Calm => CalmTurns, [Next]_vars, Calm'
             PROVE  CalmTurns'
  OBVIOUS
<1>1. Calm /\ CalmTurns /\ Later
  BY CalmBefore, LaterStep
<1>2. CASE UNCHANGED vars
  <2>1. UNCHANGED <<messages, pending, running, inputs, turn, tool>>
    BY <1>2 DEF vars
  <2>2. PendingIsOfTheTurn' = PendingIsOfTheTurn
    BY <2>1 DEF PendingIsOfTheTurn, Active
  <2>3. ASSUME NEW c \in Calls PROVE ToolIsOfTheTurn(c)' = ToolIsOfTheTurn(c)
    BY <2>1 DEF ToolIsOfTheTurn, Untouched, Active
  <2>4. ASSUME NEW t \in Turns PROVE PartsOf(t)' = PartsOf(t)
    BY <2>1 DEF PartsOf, Started, Active
  <2>5. MessagesAreSettled' = MessagesAreSettled
    BY <2>1 DEF MessagesAreSettled, Settled, Closed, Untouched, Active
  <2> QED
    BY <1>1, <2>1, <2>2, <2>3, <2>4, <2>5 DEF CalmTurns
<1>3. CASE Cancel \/ \E t \in Turns : Send(t) \/ ResumeTurn(t) \/ Truncate(t) \/ LateFlush(t)
  BY <1>1, <1>3, CalmCalls
<1>4. ASSUME NEW t \in Turns, Step(t) PROVE CalmTurns'
  <2>1. CASE StartMessage(t)
    BY <1>1, <2>1, CalmStart
  <2>2. CASE PartialUse(t) \/ WholeUse(t)
    BY <1>1, <2>2, CalmUses
  <2>4. CASE ToolFails(t) \/ StreamEnds(t) \/ StreamFails(t)
    BY <1>1, <2>4, CalmLeaves DEF ToolFails, StreamEnds, StreamFails
  <2>5. CASE Fallback(t) \/ Refusal(t) \/ OutOfTokens(t)
    BY <1>1, <2>5, CalmDrops
  <2>6. CASE TakesResult(t)
    BY <1>1, <2>6, CalmTools
  <2>7. CASE Done(t) \/ GivesUp(t) \/ AsksAgain(t) \/ WillRetry(t)
    BY <1>1, <2>7, CalmAnswered
  <2>8. CASE Retries(t)
    BY <1>1, <2>8, CalmRetries
  <2>9. ~ NoticesCancel(t) /\ ~ StopsWaiting(t)
    BY <1>1 DEF Calm, NoticesCancel, StopsWaiting
  <2> QED
    BY <1>4, <2>1, <2>2, <2>4, <2>5, <2>6, <2>7, <2>8, <2>9 DEF Step
<1>5. CASE \E r \in Runs : ToolEnds(r)
  BY <1>1, <1>5, CalmTools
<1> QED
  BY <1>2, <1>3, <1>4, <1>5 DEF Next

\* Every use of a tool in the thread has a result or is said to have been cancelled; and
\* as long as no turn was cancelled results are with their uses, no tool runs twice, and
\* no tool that ran is said to have been cancelled but where the answer ran out of tokens.
THEOREM ToolsAreAnsweredHolds == Spec => []ToolsAreAnswered
<1>1. Init => UsesAreAnswered /\ (Calm => CalmTurns)
  <2> SUFFICES ASSUME Init PROVE UsesAreAnswered /\ CalmTurns
    OBVIOUS
  <2>1. DOMAIN messages = {} /\ running = 0 /\ pending = Empty
    BY DEF Init
  <2>2. UsesAreAnswered /\ MessagesAreSettled
    BY <2>1 DEF UsesAreAnswered, MessagesAreSettled
  <2>3. PendingIsOfTheTurn
    BY <2>1 DEF PendingIsOfTheTurn, Empty, Uses
  <2>4. \A c \in Calls : ToolIsOfTheTurn(c)
    BY Names DEF Init, ToolIsOfTheTurn
  <2>5. \A t \in Turns : PartsOf(t)
    BY DEF Init, PartsOf, NewTurn
  <2> QED
    BY <2>2, <2>3, <2>4, <2>5 DEF CalmTurns
<1>2. Types /\ UsesAreAnswered /\ [Next]_vars => UsesAreAnswered'
  BY UsesStep
<1>3. Types /\ TurnsAreKnown /\ (Calm => CalmTurns) /\ [Next]_vars => (Calm => CalmTurns)'
  BY CalmStep
<1>4. Types /\ UsesAreAnswered /\ (Calm => CalmTurns) => ToolsAreAnswered
  <2> SUFFICES ASSUME Types, UsesAreAnswered, Calm => CalmTurns PROVE ToolsAreAnswered
    OBVIOUS
  <2>1. \A m \in Agents : Uses(m.content) \subseteq m.done \union m.canceled
    BY DEF Agents, UsesAreAnswered
  <2>2. ASSUME CalmTurns, NEW m \in Agents
        PROVE  /\ m.done \subseteq m.content
               /\ \A c \in m.canceled :
                    (\A k \in 0 .. 2 : tool[<<c, k>>] = "none") \/ turn[c[1]].stops = <<"max_tokens">>
               /\ \A c \in Calls : tool[<<c, 2>>] = "none"
    <3> PICK i \in DOMAIN messages : m = messages[i] /\ messages[i].kind = "agent"
      BY DEF Agents
    <3>1. Settled(messages[i])
      BY <2>2 DEF CalmTurns, MessagesAreSettled
    <3>2. \A c \in Calls : tool[<<c, 2>>] = "none"
      BY <2>2 DEF CalmTurns, ToolIsOfTheTurn
    <3>3. m.canceled \subseteq Calls /\ 0 .. 2 = {0, 1, 2}
      BY <2>2, ElementOfSeq, LenProperties DEF Types, Message
    <3> QED
      BY <3>1, <3>2, <3>3 DEF Settled, Untouched
  <2> QED
    BY <2>1, <2>2 DEF ToolsAreAnswered, Calm
<1> QED
  BY <1>1, <1>2, <1>3, <1>4, TurnsHold, PTL DEF Spec
=============================================================================
