-------------------------------- MODULE Peer --------------------------------
(***************************************************************************)
(* One connection of an rpc Peer: the callers of request_dynamic and of    *)
(* request_stream_dynamic, the task that runs handle_io, and the task that *)
(* drives the incoming stream of register_connection.  They share the two  *)
(* tables of response channels, each an Option behind a lock of its own.   *)
(*                                                                         *)
(* A barrier makes the incoming stream wait until the caller an answer is  *)
(* for has taken it: in mailbox an answer not taken yet is its barrier.    *)
(* Envelopes are numbered in the order they are read from the socket.      *)
(* Timers are left out: handle_io may fail whenever it runs, as it does    *)
(* for a write, a read or a delivery that fails or takes too long.         *)
(*                                                                         *)
(* LeftOpen, Unnoticed and Barred are what a faulty version would do; no   *)
(* action uses them.                                                       *)
(***************************************************************************)
EXTENDS Naturals, Sequences, SequencesExt

CONSTANTS
    Single,       \* requests with one answer
    Streaming,    \* requests with a stream of answers
    Capacity,     \* of the incoming channel, INCOMING_BUFFER_SIZE + 1 in the code
    MaxEnvelopes  \* bound on what the other side sends

ASSUME PeerAssumption ==
    /\ Single \cap Streaming = {}
    /\ Capacity \in Nat \ {0}
    /\ MaxEnvelopes \in Nat

Callers == Single \union Streaming
NoRequest == "none"
ASSUME NoRequestAssumption == NoRequest \notin Callers

VARIABLES
    connected,        \* the connection is in Peer::connections
    io,               \* handle_io: running, or how far its end has come
    responses,        \* response_channels; Taken once the option is None
    streams,          \* stream_response_channels, likewise
    caller,           \* where each request stands
    mailbox,          \* what is in its channel
    told,             \* how a stream was told that it is over
    outgoing,         \* outgoing_rx
    incoming,         \* incoming_rx
    reader,           \* the task of the incoming stream, and what it holds
    written,          \* requests the other side has
    replied,          \* those it has answered to the end
    received,         \* envelopes read
    log               \* the numbers of those handled, in that order

ioVars == <<connected, io>>
tables == <<responses, streams>>
callerVars == <<caller, told>>
peerVars == <<written, replied, received>>
vars == <<connected, io, responses, streams, caller, told, mailbox, outgoing, incoming,
          reader, written, replied, received, log>>

Taken == Callers \union {NoRequest}     \* no table holds all of these

Envelope ==
    [n : 1 .. MaxEnvelopes, to : {NoRequest}, kind : {"message"}]
        \union [n : 1 .. MaxEnvelopes, to : Single, kind : {"answer"}]
        \union [n : 1 .. MaxEnvelopes, to : Streaming, kind : {"item", "end"}]
Idle == [at |-> "idle"]

Init ==
    /\ connected = TRUE
    /\ io = "running"
    /\ responses = {}
    /\ streams = {}
    /\ caller = [r \in Callers |-> "idle"]
    /\ mailbox = [r \in Callers |-> <<>>]
    /\ told = [r \in Streaming |-> "nothing"]
    /\ outgoing = <<>>
    /\ incoming = <<>>
    /\ reader = Idle
    /\ written = {}
    /\ replied = {}
    /\ received = 0
    /\ log = <<>>

Holds(table, r) == table # Taken /\ r \in table
Without(table, r) == IF table = Taken THEN Taken ELSE table \ {r}

\* The reader has the sending half of a request's channel in its hands.
Held(r) ==
    /\ reader.at \in {"response", "found"}
    /\ reader.envelope.to = r
    /\ reader.single \/ (reader.at = "found" /\ reader.stream)

Sender(r) == Held(r) \/ Holds(responses, r) \/ Holds(streams, r)

Move(r, from, to) == caller[r] \in from /\ caller' = [caller EXCEPT ![r] = to]

-----------------------------------------------------------------------------
(* Callers *)

\* connection_state: a copy of the entry, used after the lock is released.
Find(r) ==
    /\ Move(r, {"idle"}, IF connected THEN "found" ELSE "failed")
    /\ UNCHANGED <<ioVars, tables, told, mailbox, outgoing, incoming, reader, peerVars, log>>

Register(r) ==
    LET table == IF r \in Single THEN responses ELSE streams IN
    /\ Move(r, {"found"}, IF table = Taken THEN "failed" ELSE "registered")
    /\ responses' = IF r \in Single /\ table # Taken THEN responses \union {r} ELSE responses
    /\ streams' = IF r \in Streaming /\ table # Taken THEN streams \union {r} ELSE streams
    /\ UNCHANGED <<ioVars, told, mailbox, outgoing, incoming, reader, peerVars, log>>

Emit(r) ==
    /\ Move(r, {"registered"}, IF io = "ended" THEN "failed" ELSE "sent")
    /\ outgoing' = IF io = "ended" THEN outgoing ELSE Append(outgoing, r)
    /\ streams' = IF io = "ended" THEN Without(streams, r) ELSE streams
    /\ UNCHANGED <<ioVars, responses, told, mailbox, incoming, reader, peerVars, log>>

\* The future of a stream is polled: from now on dropping it cleans up.
Poll(s) ==
    /\ Move(s, {"sent"}, "streaming")
    /\ UNCHANGED <<ioVars, tables, told, mailbox, outgoing, incoming, reader, peerVars, log>>

\* The caller resumes with the answer, which releases the barrier.
Resume(r) ==
    /\ Move(r, {"sent"}, "answered")
    /\ mailbox[r] # <<>>
    /\ log' = Append(log, Head(mailbox[r]).n)
    /\ mailbox' = [mailbox EXCEPT ![r] = <<>>]
    /\ UNCHANGED <<ioVars, tables, told, outgoing, incoming, reader, peerVars>>

\* No one is left to answer.
Cancelled(r) ==
    /\ Move(r, {"sent"}, "failed")
    /\ mailbox[r] = <<>> /\ ~Sender(r)
    /\ UNCHANGED <<ioVars, tables, told, mailbox, outgoing, incoming, reader, peerVars, log>>

\* A stream takes its next item, and notes one that ends it.
Pull(s) ==
    /\ caller[s] = "streaming"
    /\ mailbox[s] # <<>>
    /\ mailbox' = [mailbox EXCEPT ![s] = Tail(@)]
    /\ LET item == Head(mailbox[s]) IN
        /\ log' = IF item.kind = "closed" THEN log ELSE Append(log, item.n)
        /\ told' = [told EXCEPT ![s] = IF item.kind = "item" THEN @ ELSE item.kind]
        /\ streams' = IF item.kind = "end" THEN Without(streams, s) ELSE streams
    /\ UNCHANGED <<ioVars, responses, caller, outgoing, incoming, reader, peerVars>>

EndOfStream(s) ==
    /\ Move(s, {"streaming"}, "ended")
    /\ mailbox[s] = <<>> /\ ~Sender(s)
    /\ UNCHANGED <<ioVars, tables, told, mailbox, outgoing, incoming, reader, peerVars, log>>

\* The future, or the stream, is dropped with what is in its channel.
Drop(r) ==
    /\ Move(r, {"sent", "streaming"}, "dropped")
    /\ mailbox' = [mailbox EXCEPT ![r] = <<>>]
    /\ streams' = IF caller[r] = "streaming" THEN Without(streams, r) ELSE streams
    /\ UNCHANGED <<ioVars, responses, told, outgoing, incoming, reader, peerVars, log>>

Disconnect ==
    /\ connected
    /\ connected' = FALSE
    /\ UNCHANGED <<io, tables, callerVars, mailbox, outgoing, incoming, reader, peerVars, log>>

-----------------------------------------------------------------------------
(* handle_io *)

IoWrites ==
    /\ io = "running"
    /\ outgoing # <<>>
    /\ outgoing' = Tail(outgoing)
    /\ written' = written \union {Head(outgoing)}
    /\ UNCHANGED <<ioVars, tables, callerVars, mailbox, incoming, reader, replied, received, log>>

\* What the other side may send: a message of its own, the answer to a request,
\* an item of a stream, or its end.
MaySend(to, kind) ==
    \/ kind = "message" /\ to = NoRequest
    \/ kind = "answer" /\ to \in (written \cap Single) \ replied
    \/ kind \in {"item", "end"} /\ to \in (written \cap Streaming) \ replied

\* Copies of outgoing_tx: the entry's, and those of callers about to send.
Senders == connected \/ \E r \in Callers : caller[r] \in {"found", "registered"}

Room == Len(incoming) < Capacity

\* The select is biased: what is outgoing comes first.
IoReads ==
    /\ io = "running" /\ Senders /\ outgoing = <<>>
    /\ reader.at # "gone"
    /\ Room
    /\ received < MaxEnvelopes
    /\ received' = received + 1
    /\ \E to \in Callers \union {NoRequest}, kind \in {"message", "answer", "item", "end"} :
        /\ MaySend(to, kind)
        /\ incoming' = Append(incoming, [n |-> received', to |-> to, kind |-> kind])
        /\ replied' = IF kind \in {"answer", "end"} THEN replied \union {to} ELSE replied
    /\ UNCHANGED <<ioVars, tables, callerVars, mailbox, outgoing, reader, written, log>>

Ending(from, to) == io = from /\ io' = to

IoFails ==
    /\ Ending("running", "failing")
    /\ UNCHANGED <<connected, tables, callerVars, mailbox, outgoing, incoming, reader, peerVars, log>>

\* All senders are gone, after a disconnect, and all is written.
IoIsDone ==
    /\ ~Senders /\ outgoing = <<>>
    /\ Ending("running", "failing")
    /\ UNCHANGED <<connected, tables, callerVars, mailbox, outgoing, incoming, reader, peerVars, log>>

\* The four steps of _end_connection and of what is dropped after it.
LeftOpen ==
    /\ Ending("failing", "responses taken")
    /\ responses' = {}
    /\ UNCHANGED <<connected, streams, callerVars, mailbox, outgoing, incoming, reader, peerVars, log>>

TakeResponses ==
    /\ Ending("failing", "responses taken")
    /\ responses' = Taken
    /\ UNCHANGED <<connected, streams, callerVars, mailbox, outgoing, incoming, reader, peerVars, log>>

Unnoticed ==
    /\ Ending("responses taken", "streams taken")
    /\ streams' = Taken
    /\ UNCHANGED <<connected, responses, callerVars, mailbox, outgoing, incoming, reader, peerVars, log>>

Closed == [n |-> 0, to |-> NoRequest, kind |-> "closed"]

\* Every stream of the table is told, one whose consumer has left excepted.
TakeStreams ==
    /\ Ending("responses taken", "streams taken")
    /\ streams' = Taken
    /\ mailbox' = [r \in Callers |->
            IF r \in streams /\ caller[r] # "dropped" THEN Append(mailbox[r], Closed)
                                                      ELSE mailbox[r]]
    /\ UNCHANGED <<connected, responses, callerVars, outgoing, incoming, reader, peerVars, log>>

RemoveConnection ==
    /\ Ending("streams taken", "removed")
    /\ connected' = FALSE
    /\ UNCHANGED <<tables, callerVars, mailbox, outgoing, incoming, reader, peerVars, log>>

DropChannels ==
    /\ Ending("removed", "ended")
    /\ outgoing' = <<>>
    /\ UNCHANGED <<connected, tables, callerVars, mailbox, incoming, reader, peerVars, log>>

-----------------------------------------------------------------------------
(* The incoming stream, and the task that handles the messages it yields *)

\* A message goes to its handler; an answer is looked up in response_channels,
\* and is lost when the connection has ended.
Take ==
    /\ reader.at = "idle"
    /\ incoming # <<>>
    /\ incoming' = Tail(incoming)
    /\ LET e == Head(incoming) IN
        \/ /\ e.kind = "message"
           /\ log' = Append(log, e.n)
           /\ UNCHANGED <<responses, reader>>
        \/ /\ e.kind # "message" /\ responses = Taken
           /\ UNCHANGED <<responses, reader, log>>
        \/ /\ e.kind # "message" /\ responses # Taken
           /\ responses' = responses \ {e.to}
           /\ reader' = [at |-> "response", envelope |-> e, single |-> e.to \in responses]
           /\ UNCHANGED log
    /\ UNCHANGED <<ioVars, streams, callerVars, mailbox, outgoing, peerVars>>

\* Then in stream_response_channels; both locks are released again.
LookUpStream ==
    /\ reader.at = "response"
    /\ LET e == reader.envelope IN
        /\ reader' = IF streams = Taken \/ ~(reader.single \/ e.to \in streams) THEN Idle
                     ELSE [at |-> "found", envelope |-> e, single |-> reader.single,
                           stream |-> e.to \in streams]
        /\ streams' = IF e.kind = "end" THEN Without(streams, e.to) ELSE streams
    /\ UNCHANGED <<ioVars, responses, callerVars, mailbox, outgoing, incoming, peerVars, log>>

\* The answer is sent, unless its caller has left.
Deliver ==
    /\ reader.at = "found"
    /\ LET e == reader.envelope  left == caller[e.to] = "dropped" IN
        /\ mailbox' = IF left THEN mailbox ELSE [mailbox EXCEPT ![e.to] = Append(@, e)]
        /\ reader' = IF left THEN Idle ELSE [at |-> "waiting", envelope |-> e]
        /\ streams' = IF left THEN Without(streams, e.to) ELSE streams
    /\ UNCHANGED <<ioVars, responses, callerVars, outgoing, incoming, peerVars, log>>

Barred == TRUE
Released == ~Contains(mailbox[reader.envelope.to], reader.envelope)

\* requester_resumed.1.await
GoOn ==
    /\ reader.at = "waiting"
    /\ Released
    /\ reader' = Idle
    /\ UNCHANGED <<ioVars, tables, callerVars, mailbox, outgoing, incoming, peerVars, log>>

\* The stream is at its end, or its task is cancelled at one of its awaits.
Leave ==
    /\ reader.at \in {"idle", "waiting"}
    /\ reader' = [at |-> "gone"]
    /\ incoming' = <<>>
    /\ UNCHANGED <<ioVars, tables, callerVars, mailbox, outgoing, peerVars, log>>

-----------------------------------------------------------------------------
Calls ==
    \/ \E r \in Callers : Find(r) \/ Register(r) \/ Emit(r) \/ Drop(r)
    \/ \E r \in Single : Resume(r) \/ Cancelled(r)
    \/ \E s \in Streaming : Poll(s) \/ Pull(s) \/ EndOfStream(s)

End == IoIsDone \/ TakeResponses \/ TakeStreams \/ RemoveConnection \/ DropChannels
Read == Take \/ LookUpStream \/ Deliver \/ GoOn

Next == Calls \/ Disconnect \/ IoWrites \/ IoReads \/ IoFails \/ End \/ Read \/ Leave

Spec == Init /\ [][Next]_vars

\* Tasks that can run do.  Nothing is assumed of the other side and its answers,
\* nor that a connection ever fails, or a caller calls.
FairSpec ==
    /\ Spec
    /\ WF_vars(IoWrites) /\ WF_vars(End) /\ WF_vars(Read)
    /\ \A r \in Callers : WF_vars(Register(r)) /\ WF_vars(Emit(r))
    /\ \A r \in Single : WF_vars(Resume(r)) /\ WF_vars(Cancelled(r))
    /\ \A s \in Streaming : WF_vars(Poll(s)) /\ WF_vars(Pull(s)) /\ WF_vars(EndOfStream(s))

-----------------------------------------------------------------------------
TypeOK ==
    /\ connected \in BOOLEAN
    /\ io \in {"running", "failing", "responses taken", "streams taken", "removed", "ended"}
    /\ responses \in (SUBSET Single) \union {Taken}
    /\ streams \in (SUBSET Streaming) \union {Taken}
    /\ caller \in [Callers -> {"idle", "found", "registered", "sent", "streaming",
                               "answered", "ended", "failed", "dropped"}]
    /\ told \in [Streaming -> {"nothing", "end", "closed"}]
    /\ mailbox \in [Callers -> Seq(Envelope \union {Closed})]
    /\ outgoing \in Seq(Callers)
    /\ incoming \in Seq(Envelope) /\ Len(incoming) <= Capacity
    /\ reader.at \in {"idle", "response", "found", "waiting", "gone"}
    /\ reader.at \in {"response", "found", "waiting"} => reader.envelope \in Envelope
    /\ replied \subseteq written /\ written \subseteq Callers
    /\ received \in 0 .. MaxEnvelopes
    /\ log \in Seq(1 .. MaxEnvelopes)

\* What came in one order is handled in that order: a caller resumes with its
\* answer after every message that came before it was handled, and before any
\* that came later, though callers and the handler are different tasks (the
\* barriers of request_dynamic and register_connection).
HandledInOrder == \A i, j \in DOMAIN log : i < j => log[i] < log[j]

\* A stream is never cut short unnoticed: when it ends its consumer has been
\* told so, by the other side or with an error, however the end of the
\* connection and the lookup of its items interleave.
StreamsAreToldTheirEnd ==
    \A s \in Streaming : caller[s] = "ended" => told[s] # "nothing"

Status(r) ==
    CASE caller[r] \in {"idle", "found"} -> "idle"
      [] caller[r] \in {"registered", "sent", "streaming"} -> "pending"
      [] caller[r] = "answered" -> "answered"
      [] caller[r] = "failed" -> "failed"
      [] caller[r] = "dropped" -> "abandoned"
      [] caller[r] = "ended" -> IF told[r] = "end" THEN "answered" ELSE "failed"

\* The connection as its callers see it keeps the promise of Requests: one
\* outcome for each, an answer only when the other side has given it, a failure
\* only when the connection is over, and then an outcome for all of them,
\* those included that are between connection_state and unbounded_send when
\* handle_io ends.
Table == INSTANCE Requests WITH
    status <- [r \in Callers |-> Status(r)],
    over <- ~connected \/ io # "running"

EveryRequestEnds == Table!Spec
=============================================================================
