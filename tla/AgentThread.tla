----------------------------- MODULE AgentThread -----------------------------
(***************************************************************************)
(* agent::Thread: the turns of a conversation, each a task that asks the   *)
(* model, runs the tools of its answer and asks again.  A new turn cancels *)
(* the one under way, but does not wait for it: until its tools and its    *)
(* stream have come to an end the old task goes on, and both work on the   *)
(* thread's one pending message and its one list of messages.              *)
(*                                                                         *)
(* All tasks run on the foreground, so a step is what a task does between  *)
(* two awaits.  Of a message we keep whose text and which tool uses it     *)
(* holds, and which of them have results.  Compaction, titles, usage, the  *)
(* tools' own permission requests and subagents are left out.              *)
(*                                                                         *)
(* Unfilled, Undrained, Unchecked and Earlier are what a faulty version    *)
(* would do; no action uses them.                                          *)
(***************************************************************************)
EXTENDS Naturals, Sequences, SequencesExt

CONSTANTS
    MaxTurns,     \* bound on the turns of the thread
    MaxCalls,     \* bound on the tool uses of a turn
    MaxCancels,   \* bound on the turns that are cancelled
    MaxAttempts,  \* MAX_RETRY_ATTEMPTS and the limits of other strategies
    MaxExtras     \* bound on resumed turns, requests beyond the first of a turn,
                  \* and inputs that come in parts

ASSUME ThreadAssumption ==
    /\ MaxTurns \in Nat /\ MaxCalls \in Nat /\ MaxAttempts \in Nat
    /\ MaxExtras \in Nat /\ MaxCancels \in Nat

Turns == 1 .. MaxTurns
Calls == Turns \X (1 .. MaxCalls)
Items == Turns \X (0 .. MaxCalls)     \* 0 is text
Runs == Calls \X {0, 1, 2}            \* 0 is an answer at once; a call may run twice

VARIABLES
    messages,    \* of the thread
    pending,     \* pending_message; absent and empty are alike
    running,     \* running_turn, 0 if none
    inputs,      \* its streaming_tool_inputs
    turn,        \* the task and the locals of each turn
    late,        \* turns whose cancel waits to flush
    tool,        \* the task of each tool run, and of each answer at once
    extras       \* counts them

vars == <<messages, pending, running, inputs, turn, late, tool, extras>>

Empty == [content |-> {}, done |-> {}]
User(t) == [kind |-> "user", turn |-> t]
Resume == [kind |-> "resume"]

NewTurn == [at |-> "none", cancelled |-> FALSE, stops |-> <<>>, first |-> 0,
            attempt |-> 0, why |-> "none",
            named |-> 0, partly |-> {}]

Init ==
    /\ messages = <<>> /\ pending = Empty
    /\ running = 0 /\ inputs = {}
    /\ turn = [t \in Turns |-> NewTurn]
    /\ late = {}
    /\ tool = [r \in Runs |-> "none"] /\ extras = 0

-----------------------------------------------------------------------------
(* The pending message *)

Uses(content) == content \cap Calls

\* What has no result yet is said to be cancelled.
Unfilled(p) == [kind |-> "agent", content |-> p.content, done |-> p.done, canceled |-> {}]
Agent(p) == [kind |-> "agent", content |-> p.content, done |-> p.done,
             canceled |-> Uses(p.content) \ p.done]

Flushed(ms, p) == IF p.content = {} THEN ms ELSE Append(ms, Agent(p))

Unanswering(m) == m.kind = "agent" /\ m.done \union m.canceled = {}

Flush == messages' = Flushed(messages, pending) /\ pending' = Empty

\* A tool's result goes to whatever message is pending.
WithResults(calls) == [pending EXCEPT !.done = @ \union calls]

-----------------------------------------------------------------------------
(* Calls to the thread *)

Extra == extras < MaxExtras /\ extras' = extras + 1

\* RunningTurn::cancel tells the tools and the client, and drops the inputs.
Cancelled ==
    IF running = 0 THEN turn
    ELSE [turn EXCEPT ![running].cancelled = TRUE, ![running].stops = Append(@, "cancelled")]
MayCancel ==
    running = 0 \/ Cardinality({t \in Turns : turn[t].cancelled}) < MaxCancels
Awaited == IF running = 0 THEN late ELSE late \union {running}

\* Where a refusal cuts: at the last message, the one the turn is about.
Earlier(ms) == IF Len(ms) > 1 THEN Len(ms) - 2 ELSE 0
MessageIx(ms) == Len(ms) - 1

\* run_turn, after its message was added: it comes before what was pending.
RunTurn(t, ms) ==
    /\ MayCancel
    /\ turn[t].at = "none" /\ \A u \in 1 .. t - 1 : turn[u].at # "none"
    /\ messages' = Flushed(ms, pending) /\ pending' = Empty
    /\ turn' = [Cancelled EXCEPT ![t] =
            [NewTurn EXCEPT !.at = "asking", !.first = MessageIx(messages')]]
    /\ late' = Awaited
    /\ running' = t /\ inputs' = {}
    /\ UNCHANGED tool

Send(t) == RunTurn(t, Append(messages, User(t))) /\ UNCHANGED extras
ResumeTurn(t) == messages # <<>> /\ RunTurn(t, Append(messages, Resume)) /\ Extra

Cancel ==
    /\ MayCancel
    /\ IF running = 0 THEN Flush ELSE UNCHANGED <<messages, pending>>
    /\ turn' = Cancelled /\ late' = Awaited
    /\ running' = 0 /\ inputs' = {}
    /\ UNCHANGED <<tool, extras>>

\* Back to before the user's message of turn t.
Truncate(t) ==
    LET ms == IF running = 0 THEN Flushed(messages, pending) ELSE messages IN
    /\ MayCancel
    /\ \E i \in DOMAIN ms : ms[i] = User(t) /\ messages' = SubSeq(ms, 1, i - 1)
    /\ pending' = Empty
    /\ turn' = Cancelled /\ late' = Awaited
    /\ running' = 0 /\ inputs' = {}
    /\ UNCHANGED <<tool, extras>>

\* The rest of cancel, once the turn's task is over.
LateFlush(t) ==
    /\ t \in late /\ turn[t].at = "over"
    /\ Flush
    /\ late' = late \ {t}
    /\ UNCHANGED <<running, inputs, turn, tool, extras>>

-----------------------------------------------------------------------------
(* A turn *)

At(t, where) == turn[t].at \in where
\* The stream may open, and its first events arrive, at any time.
Streaming(t) == At(t, {"asking", "streaming"})

\* The next request is built and sent; nothing looks whether the turn was cancelled.
Ask(t, attempt) ==
    turn' = [turn EXCEPT ![t].at = "asking", ![t].why = "none", ![t].partly = {},
                            ![t].attempt = attempt]

Unchecked(t) == FALSE
WasCancelled(t) == turn[t].cancelled

InputsLeft(t) == IF WasCancelled(t) THEN inputs ELSE {}

Gone(stops, cancelled) ==
    [NewTurn EXCEPT !.at = "over", !.stops = stops, !.cancelled = cancelled]

\* A turn that was not cancelled tells how it ended, and leaves the thread.
Finish(t, reason) ==
    IF WasCancelled(t)
    THEN turn' = [turn EXCEPT ![t] = Gone(@.stops, TRUE)] /\ UNCHANGED running
    ELSE turn' = [turn EXCEPT ![t] = Gone(Append(@.stops, reason), @.cancelled)] /\ running' = 0

\* A refusal takes back the messages from the turn's own on.
Ends(t, reason) ==
    LET ms == Flushed(messages, pending)
        kept == IF reason = "refusal" /\ turn[t].first < Len(ms)
                THEN SubSeq(ms, 1, turn[t].first) ELSE ms IN
    /\ IF WasCancelled(t)
       THEN UNCHANGED <<messages, pending>>
       ELSE messages' = kept /\ pending' = Empty
    /\ Finish(t, reason)
    /\ UNCHANGED late

\* Its text comes in the same batch.
StartMessage(t) ==
    /\ At(t, {"asking"})
    /\ messages' = Flushed(messages, pending)
    /\ pending' = [Empty EXCEPT !.content = {<<t, 0>>}]
    /\ turn' = [turn EXCEPT ![t].at = "streaming"]
    /\ UNCHANGED <<running, inputs, late, tool>>

\* The use of a tool joins the pending message.
Adds(t, item, locals) ==
    /\ Streaming(t)
    /\ pending' = [pending EXCEPT !.content = @ \union {item}]
    /\ turn' = [turn EXCEPT ![t] = [locals EXCEPT !.at = "streaming"]]
    /\ UNCHANGED <<messages, running, late>>

\* Answered at once, and again at each event of the use: there is no such tool (and
\* without a running turn none by any name), or what came does not convert, or the
\* tool is not allowed in this workspace.
Refuse(c) == tool' = [tool EXCEPT ![<<c, 0>>] = "ended"]

\* A tool is run; that a call comes to run a third time is left out.
Run(c) ==
    LET k == IF tool[<<c, 1>>] = "none" THEN 1 ELSE 2 IN
    /\ running # 0
    /\ tool[<<c, k>>] = "none"
    /\ tool' = [tool EXCEPT ![<<c, k>>] = "running"]

\* Part of the input of a use.  A tool that can take it in parts is started with the
\* first of them; another waits for the whole.
Part(t, c, locals) ==
    /\ Adds(t, c, [locals EXCEPT !.partly = @ \union {c}])
    /\ \/ Refuse(c) /\ UNCHANGED inputs
       \/ /\ running # 0 /\ c \notin inputs
          /\ Run(c) \/ Refuse(c)
          /\ inputs' = inputs \union {c}
       \/ running # 0 /\ UNCHANGED <<inputs, tool>>

PartialUse(t) ==
    /\ Extra
    /\ \/ \E c \in turn[t].partly : Part(t, c, turn[t])
       \/ LET n == turn[t].named + 1 IN
            n <= MaxCalls /\ Part(t, <<t, n>>, [turn[t] EXCEPT !.named = n])

\* The whole of it.  A tool that waits for it gets it; else one is started.
Completes(t, c, locals) ==
    /\ Adds(t, c, [locals EXCEPT !.partly = @ \ {c}])
    /\ \/ Refuse(c) /\ UNCHANGED inputs
       \/ /\ running # 0
          /\ IF c \in inputs THEN UNCHANGED tool ELSE Run(c) \/ Refuse(c)
          /\ inputs' = inputs \ {c}

WholeUse(t) ==
    \/ \E c \in turn[t].partly : Completes(t, c, turn[t])
    \/ LET n == turn[t].named + 1 IN
        n <= MaxCalls /\ Completes(t, <<t, n>>, [turn[t] EXCEPT !.named = n])

-----------------------------------------------------------------------------
(* The tools *)

RunsOf(t) == {r \in Runs : r[1][1] = t}
RunsIn(t, states) == {r \in RunsOf(t) : tool[r] \in states}
CallsOf(runs) == {r[1] : r \in runs}
Over(runs) == [r \in Runs |-> IF r \in runs THEN "over" ELSE tool[r]]
Drop(t) == Over(RunsIn(t, {"running", "ended"}))

\* While the model is streaming.  A tool that waits for input can only have failed.
ToolEnds(r) ==
    /\ tool[r] = "running" /\ Streaming(r[1][1])
    /\ tool' = [tool EXCEPT ![r] = "ended"]
    /\ UNCHANGED <<messages, pending, running, inputs, turn, late, extras>>

\* The stream is dropped, and so are the inputs no tool will get the rest of.
\* The results that are there are taken in, those that came early among them.
Undrained(calls) == calls
Drained(calls) == {}

Leaves(t, why) ==
    LET ended == RunsIn(t, {"ended"}) IN
    /\ inputs' = Drained(inputs)
    /\ pending' = WithResults(CallsOf(ended))
    /\ tool' = Over(ended)
    /\ turn' = [turn EXCEPT ![t].at = "tools", ![t].partly = {},
            ![t].why = IF why = "ended" /\ RunsIn(t, {"running", "ended"}) # {}
                       THEN "acted" ELSE IF why = "failed" THEN why ELSE "end"]
    /\ UNCHANGED <<messages, running, late>>

\* The stream ends, or a tool has failed that had not got all its input.
StreamEnds(t) == Streaming(t) /\ Leaves(t, "ended")
ToolFails(t) ==
    /\ Streaming(t)
    /\ \E r \in RunsIn(t, {"ended"}) : r[1] \in inputs
    /\ Leaves(t, "ended")
StreamFails(t) == Streaming(t) /\ Leaves(t, "failed")

\* The cancellation is seen while streaming, and else only in a retry's delay.
NoticesCancel(t) ==
    /\ turn[t].cancelled
    /\ Streaming(t)
    /\ Leaves(t, "cancelled")

\* The model refuses, and another is asked in its place, once.
Fallback(t) ==
    /\ Streaming(t)
    /\ pending' = Empty /\ inputs' = Drained(inputs)
    /\ tool' = Drop(t)
    /\ Ask(t, turn[t].attempt) /\ Extra
    /\ UNCHANGED <<messages, running, late>>

Refusal(t) ==
    /\ Streaming(t)
    /\ Ends(t, "refusal") /\ inputs' = Drained(inputs)
    /\ tool' = Drop(t)

\* This error is no LanguageModelCompletionError, and leaves the loop at once.
OutOfTokens(t) ==
    /\ Streaming(t)
    /\ Ends(t, "max_tokens") /\ inputs' = InputsLeft(t)
    /\ tool' = Drop(t)

\* A tool ends whose input was complete, or has been dropped.
TakesResult(t) ==
    /\ At(t, {"tools"})
    /\ \E r \in RunsIn(t, {"running"}) :
        /\ r[1] \notin inputs
        /\ pending' = WithResults({r[1]})
        /\ tool' = Over({r})
    /\ UNCHANGED <<messages, running, inputs, turn, late>>

\* All tools are done.
Answered(t, whys) ==
    /\ At(t, {"tools"}) /\ turn[t].why \in whys
    /\ RunsIn(t, {"running"}) = {}
    /\ Flush
    /\ UNCHANGED <<late, tool>>

\* A steering message may be queued, which ends the turn after its tools.
Done(t) ==
    /\ Answered(t, {"end", "acted"})
    /\ Finish(t, "ended") /\ inputs' = InputsLeft(t)

AsksAgain(t) ==
    /\ Answered(t, {"acted"})
    /\ Ask(t, 0) /\ Extra
    /\ UNCHANGED <<running, inputs>>

Exhausted(t) == turn[t].attempt = MaxAttempts

WillRetry(t) ==
    /\ Answered(t, {"failed"}) /\ ~Exhausted(t) /\ Extra
    /\ turn' = [turn EXCEPT ![t].at = "delay", ![t].why = "none", ![t].attempt = @ + 1]
    /\ UNCHANGED <<running, inputs>>

GivesUp(t) ==
    /\ Answered(t, {"failed"})
    /\ Finish(t, "ended") /\ inputs' = InputsLeft(t)

\* The timer may win although the turn has been cancelled.
Retries(t) ==
    /\ At(t, {"delay"})
    /\ messages' = IF messages # <<>> /\ Unanswering(Last(messages))
                   THEN Append(messages, Resume) ELSE messages
    /\ Ask(t, turn[t].attempt)
    /\ UNCHANGED <<pending, running, inputs, late, tool>>

StopsWaiting(t) ==
    /\ At(t, {"delay"}) /\ turn[t].cancelled
    /\ Finish(t, "ended")
    /\ UNCHANGED <<messages, pending, inputs, late, tool>>

-----------------------------------------------------------------------------
Step(t) ==
    \/ /\ UNCHANGED extras
       /\ \/ StreamEnds(t) \/ Done(t) \/ GivesUp(t) \/ Retries(t)
          \/ StartMessage(t) \/ WholeUse(t) \/ ToolFails(t)
          \/ StreamFails(t) \/ NoticesCancel(t) \/ Refusal(t) \/ OutOfTokens(t)
          \/ TakesResult(t) \/ StopsWaiting(t)
    \/ PartialUse(t) \/ Fallback(t) \/ AsksAgain(t) \/ WillRetry(t)

Next ==
    \/ \E t \in Turns : Send(t) \/ ResumeTurn(t) \/ Truncate(t)
    \/ Cancel
    \/ \E t \in Turns : Step(t) \/ LateFlush(t)
    \/ \E r \in Runs : ToolEnds(r)

Spec == Init /\ [][Next]_vars

\* The executor runs every turn that can go on; streams and tools come to an end,
\* though a tool that waits for the rest of its input need not.
FairSpec == Spec /\ \A t \in Turns : WF_vars(Step(t))

-----------------------------------------------------------------------------
Message ==
    [kind : {"user"}, turn : Turns] \union [kind : {"resume"}]
        \union [kind : {"agent"}, content : SUBSET Items, done : SUBSET Calls,
                canceled : SUBSET Calls]

TypeOK ==
    /\ \A i \in DOMAIN messages : messages[i] \in Message
    /\ pending \in [content : SUBSET Items, done : SUBSET Calls]
    /\ running \in 0 .. MaxTurns /\ inputs \subseteq Calls
    /\ running = 0 => inputs = {}
    /\ \A t \in Turns :
        /\ turn[t].at \in {"none", "asking", "streaming", "tools",
                           "delay", "over"}
        /\ turn[t].attempt \in 0 .. MaxAttempts /\ turn[t].named \in 0 .. MaxCalls
        /\ turn[t].partly \subseteq Calls /\ turn[t].first \in Nat
    /\ late \subseteq Turns
    /\ tool \in [Runs -> {"none", "running", "ended", "over"}]

\* The thread knows the one turn that was not cancelled, so that it can be: a turn
\* that ends late does not unregister its successor, nor leave itself behind.
OneTurnRuns ==
    /\ running # 0 => ~turn[running].cancelled
    /\ \A t \in Turns :
        ~At(t, {"none", "over"}) /\ ~turn[t].cancelled => running = t

\* Whatever ends a turn, and however late its task does, its client is told one
\* reason, and told once.
OneStopEach ==
    \A t \in Turns :
        /\ Len(turn[t].stops) <= 1
        /\ At(t, {"over"}) => turn[t].stops # <<>>

Before(t) == {u \in Turns : u < t}
Agents == {messages[i] : i \in {j \in DOMAIN messages : messages[j].kind = "agent"}}

\* The model refuses a history with a tool use that has no result, or the reverse.
\* Every use in the thread has one, and as long as no turn was cancelled results
\* are with their uses, no tool runs twice, and a tool that ran is not said to have
\* been cancelled, unless the answer ran out of tokens.
ToolsAreAnswered ==
    /\ \A m \in Agents : Uses(m.content) \subseteq m.done \union m.canceled
    /\ (\A t \in Turns : ~turn[t].cancelled) => \A m \in Agents :
        /\ m.done \subseteq m.content
        /\ \A c \in m.canceled :
            (\A k \in 0 .. 2 : tool[<<c, k>>] = "none") \/ turn[c[1]].stops = <<"max_tokens">>
        /\ \A c \in Calls : tool[<<c, 2>>] = "none"

\* A refusal takes back at most the message that was refused: messages[..] is cut
\* at an index taken when the turn began.
RefusalSparesOthers ==
    [][\A t \in Turns : turn[t].stops = <<>> /\ turn'[t].stops = <<"refusal">> =>
        \A u \in Before(t) :
            User(u) \in ToSet(messages) => User(u) \in ToSet(messages')]_vars

\* Every turn's task ends, also when the stream breaks off inside the input of a
\* tool that waits for the rest of it, and the model keeps failing: as turns are
\* bounded, the thread comes to rest again and again.
EveryTurnEnds == []<>(\A t \in Turns : At(t, {"none", "over"}))

\* "Flush the old pending message synchronously before cancelling, to avoid a race
\* where the detached cancel task might flush the NEW turn's pending message": when
\* the rest of a cancel comes late, the turn that is streaming keeps its message.
NewTurnKeepsItsMessage ==
    [][\A u \in late \ late', t \in Turns : running = t /\ At(t, {"streaming"}) =>
            {i \in pending.content : i[1] = t} \subseteq pending'.content]_vars
=============================================================================
