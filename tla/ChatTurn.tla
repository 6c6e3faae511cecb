------------------------------ MODULE ChatTurn ------------------------------
(***************************************************************************)
(* One POST /chat of the aacode server: the worker that streams the        *)
(* model's answer, aa_session::run_turn, which runs the tools the model    *)
(* calls and asks it again, and chat_sse, which relays the turn to the     *)
(* client as AG-UI events and saves the session when it is done.           *)
(*                                                                         *)
(* The three are tokio tasks joined by bounded channels: worker -> stream  *)
(* -> run_turn -> session -> chat_sse.  A tool call is the request it came *)
(* with and its number there; text, arguments and results are left out.    *)
(* The client reads what it is sent, or is gone, which chat_sse ignores.   *)
(*                                                                         *)
(* StillDraining, KeepCalls, FirstOnly, LeftOpen, Newest and Forgotten are *)
(* what a faulty version would do; no action uses them.                    *)
(***************************************************************************)
EXTENDS Naturals, Sequences, SequencesExt

CONSTANTS
    Capacity,    \* of the two channels (64 in the code)
    MaxChunks,   \* bound on the pieces of text in one answer
    MaxCalls,    \* bound on the tool calls in one answer
    MaxRounds,   \* bound on the answers with tool calls, plus one
    MaxBreaks    \* bound on the answers that break off

ASSUME BoundsAssumption ==
    /\ Capacity \in Nat \ {0}
    /\ {MaxChunks, MaxCalls, MaxRounds, MaxBreaks} \subseteq Nat

Call == Nat \X (1 .. MaxCalls)
NoCall == <<0, 0>>

VARIABLES
    worker,      \* stream_worker of the latest request
    begun,       \* tool calls that have begun in the answer
    buffered,    \* its tool_buffers, by their number among those
    chunks,      \* pieces of text it has sent
    stream,      \* events between worker and run_turn
    turn,        \* where run_turn stands
    messages,    \* the conversation it carries
    calls,       \* its tool_calls; while it executes, those still to be done
    session,     \* events between run_turn and chat_sse
    relay,       \* where chat_sse stands
    inMessage,   \* in_message
    pending,     \* pending_tool_calls
    sse,         \* what the client was sent
    isUuid,      \* the client's thread id is a UUID
    saved,       \* messages of the session file
    round,       \* requests made to the provider
    whole,       \* the requests whose answer came to its end
    breaks       \* answers that broke off

workerVars == <<worker, begun, buffered, chunks, round, breaks, whole>>
turnVars == <<turn, messages, calls>>
relayVars == <<relay, inMessage, pending, sse, isUuid, saved>>
vars == <<worker, begun, buffered, chunks, round, breaks, whole, turn, messages, calls,
          relay, inMessage, pending, sse, isUuid, saved, stream, session>>

Message(role, call) == [role |-> role, call |-> call]
Event(type, call) == [type |-> type, call |-> call]

\* A session of the command line, to go on with, and one whose file is damaged.
Unreadable == <<Message("unreadable", NoCall)>>
Earlier == <<Message("system", NoCall), Message("user", NoCall),
             Message("assistant", NoCall)>>

Init ==
    /\ worker = "none"
    /\ begun = 0 /\ buffered = {}
    /\ chunks = 0
    /\ stream = <<>>
    /\ turn = "none"
    /\ messages = <<>>
    /\ calls = <<>>
    /\ session = <<>>
    /\ relay = "starting"
    /\ inMessage = FALSE
    /\ pending = <<>>
    /\ sse = <<>>
    /\ isUuid \in BOOLEAN
    /\ saved \in {<<>>, Earlier, Unreadable}
    /\ round = 0
    /\ breaks = 0
    /\ whole = {}

-----------------------------------------------------------------------------
(* stream_worker *)

Stream(event) == Len(stream) < Capacity /\ stream' = Append(stream, event)

WorkerChunk ==
    /\ worker = "open"
    /\ chunks < MaxChunks
    /\ chunks' = chunks + 1
    /\ Stream(Event("Chunk", NoCall))
    /\ UNCHANGED <<worker, begun, buffered, round, breaks, whole, turnVars, session, relayVars>>

\* The first delta of a tool call.
WorkerBuffers ==
    /\ worker = "open"
    /\ round < MaxRounds + breaks
    /\ begun < MaxCalls
    /\ begun' = begun + 1
    /\ buffered' = buffered \union {begun + 1}
    /\ UNCHANGED <<worker, chunks, round, breaks, whole, stream, turnVars, session, relayVars>>

\* finish_reason is tool_calls: they are sent in any order, and the worker goes on
\* reading.  Text and further calls may follow.
WorkerFinishes ==
    /\ worker = "open"
    /\ buffered # {}
    /\ worker' = "draining"
    /\ UNCHANGED <<begun, buffered, chunks, round, breaks, whole, stream, turnVars, session,
                    relayVars>>

StillDraining(left) == "draining"
AfterDrain(left) == IF left = {} THEN "open" ELSE "draining"

WorkerDrains ==
    /\ worker = "draining"
    /\ \E c \in buffered :
        /\ buffered' = buffered \ {c}
        /\ worker' = AfterDrain(buffered \ {c})
        /\ Stream(Event("ToolCall", <<round, c>>))
    /\ UNCHANGED <<begun, chunks, round, breaks, whole, turnVars, session, relayVars>>

\* The end of the answer.
WorkerEnds ==
    /\ worker = "open"
    /\ worker' = "gone"
    /\ whole' = whole \union {round}
    /\ Stream(Event("Done", NoCall))
    /\ UNCHANGED <<begun, buffered, chunks, round, breaks, turnVars, session, relayVars>>

\* The request or its answer fails: the worker logs it and sends nothing.
WorkerBreaks ==
    /\ worker = "open"
    /\ breaks < MaxBreaks
    /\ breaks' = breaks + 1
    /\ worker' = "gone"
    /\ UNCHANGED <<begun, buffered, chunks, round, whole, stream, turnVars, session, relayVars>>

\* The provider answers with an HTTP error.
WorkerRefused ==
    /\ worker = "open" /\ chunks = 0 /\ begun = 0
    /\ worker' = "gone"
    /\ Stream(Event("Error", NoCall))
    /\ UNCHANGED <<begun, buffered, chunks, round, breaks, whole, turnVars, session, relayVars>>

-----------------------------------------------------------------------------
(* run_turn *)

Tell(event) == Len(session) < Capacity /\ session' = Append(session, event)

\* The next event of the answer is of a type.
Take(type) ==
    /\ turn = "receiving"
    /\ stream # <<>>
    /\ Head(stream).type = type
    /\ stream' = Tail(stream)

\* Ask the model: at first, and whenever a stream has run dry.  No provider has
\* chat_stream itself fail.
KeepCalls == calls
FreshCalls == <<>>

Request ==
    /\ \/ turn = "requesting"
       \/ turn = "receiving" /\ stream = <<>> /\ worker = "gone"
    /\ turn' = "receiving"
    /\ calls' = FreshCalls
    /\ worker' = "open"
    /\ begun' = 0 /\ buffered' = {}
    /\ chunks' = 0
    /\ round' = round + 1
    /\ UNCHANGED <<breaks, whole, stream, messages, session, relayVars>>

TurnChunk ==
    /\ Take("Chunk")
    /\ Tell(Event("Token", NoCall))
    /\ UNCHANGED <<workerVars, turnVars, relayVars>>

TurnToolCall ==
    /\ Take("ToolCall")
    /\ Tell(Head(stream))
    /\ calls' = Append(calls, Head(stream).call)
    /\ UNCHANGED <<workerVars, turn, messages, relayVars>>

\* The model has answered: without tool calls, that ends the turn.
TurnDone ==
    /\ Take("Done")
    /\ messages' = Append(messages, Message("assistant", NoCall))
    /\ \/ /\ calls = <<>>
          /\ Tell(Event("Done", NoCall))
          /\ turn' = "returned"
       \/ /\ calls # <<>>
          /\ turn' = "executing"
          /\ UNCHANGED session
    /\ UNCHANGED <<workerVars, calls, relayVars>>

TurnError ==
    /\ Take("Error")
    /\ Tell(Event("Error", NoCall))
    /\ turn' = "returned"
    /\ UNCHANGED <<workerVars, messages, calls, relayVars>>

\* A tool is run, or is not found: its result goes into the conversation.
FirstOnly(left) == "receiving"
AfterTool(left) == IF left = <<>> THEN "receiving" ELSE "executing"

TurnExecutes ==
    /\ turn = "executing"
    /\ messages' = Append(messages, Message("tool", Head(calls)))
    /\ Tell(Event("ToolResult", Head(calls)))
    /\ calls' = Tail(calls)
    /\ turn' = AfterTool(Tail(calls))
    /\ UNCHANGED <<workerVars, stream, relayVars>>

-----------------------------------------------------------------------------
(* chat_sse *)

Sse(type, call, result) == [type |-> type, call |-> call, result |-> result]
Plain(type) == Sse(type, NoCall, NoCall)
Send(events) == sse' = sse \o events

\* The text message under way is ended first.
LeftOpen == <<>>
Closing == IF inMessage THEN <<Plain("TEXT_MESSAGE_END")>> ELSE <<>>
Close == inMessage' = FALSE

\* The conversation so far, if the thread id is a UUID and there is one to read,
\* and what the client says.
Loaded == IF isUuid /\ saved # Unreadable THEN saved ELSE <<>>
Conversation == Append(Loaded, Message("user", NoCall))

Start ==
    /\ relay = "starting"
    /\ relay' = "relaying"
    /\ Send(<<Plain("RUN_STARTED")>>)
    /\ messages' = Conversation
    /\ turn' = "requesting"
    /\ UNCHANGED <<workerVars, stream, calls, session, inMessage, pending, isUuid, saved>>

\* No key is configured.
Refuse ==
    /\ relay = "starting"
    /\ relay' = "ended"
    /\ Send(<<Plain("RUN_ERROR")>>)
    /\ UNCHANGED <<workerVars, stream, turnVars, session, inMessage, pending, isUuid, saved>>

Hear(type) ==
    /\ relay = "relaying"
    /\ session # <<>>
    /\ Head(session).type = type
    /\ session' = Tail(session)

RelayToken ==
    /\ Hear("Token")
    /\ Send((IF inMessage THEN <<>> ELSE <<Plain("TEXT_MESSAGE_START")>>)
                \o <<Plain("TEXT_MESSAGE_CONTENT")>>)
    /\ inMessage' = TRUE
    /\ UNCHANGED <<workerVars, stream, turnVars, relay, pending, isUuid, saved>>

RelayToolCall ==
    /\ Hear("ToolCall")
    /\ LET c == Head(session).call IN
        /\ Send(Closing \o <<Sse("TOOL_CALL_START", c, NoCall),
                             Sse("TOOL_CALL_ARGS", c, NoCall)>>)
        /\ pending' = Append(pending, c)
    /\ Close
    /\ UNCHANGED <<workerVars, stream, turnVars, relay, isUuid, saved>>

\* A result is taken for that of the call that has waited longest.
Newest == Last(pending)
Oldest == Head(pending)

RelayToolResult ==
    /\ Hear("ToolResult")
    /\ IF pending = <<>> THEN UNCHANGED <<pending, sse>>
       ELSE /\ Send(<<Sse("TOOL_CALL_END", Oldest, Head(session).call)>>)
            /\ pending' = Tail(pending)
    /\ UNCHANGED <<workerVars, stream, turnVars, relay, inMessage, isUuid, saved>>

\* save reads the file that is there, empties it and writes it anew: it fails on
\* a file it cannot read, or before it has emptied it, or half way.
Forgotten == Front(messages)
Outcome == messages

Save == saved' \in
    IF saved = Unreadable THEN {saved} ELSE {saved, Unreadable, Outcome}

\* The turn is over: it is saved, whether or not that succeeds.
RelayDone ==
    /\ Hear("Done")
    /\ turn = "returned"
    /\ Save
    /\ Send(Closing \o <<Plain("RUN_FINISHED")>>)
    /\ Close
    /\ relay' = "ended"
    /\ UNCHANGED <<workerVars, stream, turnVars, pending, isUuid>>

RelayError ==
    /\ Hear("Error")
    /\ Send(Closing \o <<Plain("RUN_ERROR")>>)
    /\ Close
    /\ relay' = "ended"
    /\ UNCHANGED <<workerVars, stream, turnVars, pending, isUuid, saved>>

-----------------------------------------------------------------------------
WorkerStep ==
    \/ WorkerChunk \/ WorkerBuffers \/ WorkerFinishes \/ WorkerDrains
    \/ WorkerEnds \/ WorkerBreaks \/ WorkerRefused

TurnStep ==
    \/ Request \/ TurnChunk \/ TurnToolCall \/ TurnDone \/ TurnError \/ TurnExecutes

RelayStep ==
    \/ Start \/ Refuse
    \/ RelayToken \/ RelayToolCall \/ RelayToolResult \/ RelayDone \/ RelayError

Next == WorkerStep \/ TurnStep \/ RelayStep

Spec == Init /\ [][Next]_vars

\* tokio runs every task that is ready, tools return, and the provider goes on
\* with its answer, ends it or fails.
FairSpec ==
    /\ Spec
    /\ WF_vars(WorkerStep) /\ WF_vars(TurnStep) /\ WF_vars(RelayStep)

-----------------------------------------------------------------------------
(* Properties *)

Role == {"system", "user", "assistant", "tool"}
StreamType == {"Chunk", "ToolCall", "Done", "Error"}
SessionType == {"Token", "ToolCall", "ToolResult", "Done", "Error"}
SseType == {"RUN_STARTED", "TEXT_MESSAGE_START", "TEXT_MESSAGE_CONTENT",
            "TEXT_MESSAGE_END", "TOOL_CALL_START", "TOOL_CALL_ARGS",
            "TOOL_CALL_END", "RUN_FINISHED", "RUN_ERROR"}
Messages == Seq([role : Role, call : Call \union {NoCall}])

TypeOK ==
    /\ worker \in {"none", "open", "draining", "gone"}
    /\ begun \in 0 .. MaxCalls /\ buffered \subseteq 1 .. begun
    /\ chunks \in Nat
    /\ stream \in Seq([type : StreamType, call : Call \union {NoCall}])
    /\ turn \in {"none", "requesting", "receiving", "executing", "returned"}
    /\ messages \in Messages
    /\ calls \in Seq(Call)
    /\ session \in Seq([type : SessionType, call : Call \union {NoCall}])
    /\ relay \in {"starting", "relaying", "ended"}
    /\ inMessage \in BOOLEAN
    /\ pending \in Seq(Call)
    /\ sse \in Seq([type : SseType, call : Call \union {NoCall},
                    result : Call \union {NoCall}])
    /\ isUuid \in BOOLEAN /\ saved \in Messages \union {Unreadable}
    /\ {round, breaks} \subseteq Nat
    /\ whole \subseteq Nat

Sent(type) == {i \in DOMAIN sse : sse[i].type = type}

\* A text message has been started before event i and not ended.
UnderWay(i) ==
    \E k \in 1 .. (i - 1) :
        /\ sse[k].type = "TEXT_MESSAGE_START"
        /\ \A m \in (k + 1) .. (i - 1) : sse[m].type # "TEXT_MESSAGE_END"

\* The client can follow the events: text comes inside a message, and no message is
\* under way when another or a tool call starts, or when the run is over; nothing
\* follows that.  A tool call may end inside a message, if the model has said
\* something after it, and comes after its start.
EventsAreBracketed ==
    \A i \in DOMAIN sse :
        /\ sse[i].type \in {"TEXT_MESSAGE_CONTENT", "TEXT_MESSAGE_END"} => UnderWay(i)
        /\ sse[i].type \in {"TEXT_MESSAGE_START", "TOOL_CALL_START", "TOOL_CALL_ARGS",
                            "RUN_FINISHED", "RUN_ERROR"} => ~UnderWay(i)
        /\ sse[i].type \in {"RUN_FINISHED", "RUN_ERROR"} => i = Len(sse)
        /\ sse[i].type = "TOOL_CALL_END" =>
            \E k \in 1 .. (i - 1) :
                sse[k].type = "TOOL_CALL_START" /\ sse[k].call = sse[i].call

\* As long as no answer has broken off, the client is shown each result with the
\* call it is the result of, though chat_sse only counts them off.
ResultsMatchCalls ==
    breaks = 0 => \A i \in Sent("TOOL_CALL_END") : sse[i].call = sse[i].result

\* A tool is run only for an answer that came to its end, and once for a call.
CallsRunOnce ==
    /\ \A i \in DOMAIN messages :
        messages[i].role = "tool" => messages[i].call[1] \in whole
    /\ \A i, j \in DOMAIN messages :
        messages[i].role = "tool" /\ messages[i] = messages[j] => i = j

\* When the model is asked again, it gets the result of every call it has made.
NothingUnanswered ==
    turn = "receiving" /\ worker = "open" =>
        \A i \in Sent("TOOL_CALL_START") :
            sse[i].call[1] \in whole =>
                \E j \in DOMAIN messages : messages[j] = Message("tool", sse[i].call)

\* A session file that was written whole has all results the client was shown and
\* the model's last word on them, after the conversation that was there; but for an
\* id that is not a UUID, whose conversation was not loaded and is overwritten.
SavedIsWhole ==
    [][saved' # saved /\ saved' # Unreadable =>
        /\ isUuid => IsPrefix(saved, saved')
        /\ Last(saved').role = "assistant"
        /\ \A i \in Sent("TOOL_CALL_END") :
            \E j \in DOMAIN saved' : saved'[j] = Message("tool", sse[i].result)]_vars

\* The client is told how the run ended.
EveryRunEnds == <>(Sent("RUN_FINISHED") \union Sent("RUN_ERROR") # {})
=============================================================================
