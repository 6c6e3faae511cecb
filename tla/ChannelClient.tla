---------------------------- MODULE ChannelClient ----------------------------
(***************************************************************************)
(* The two ChannelClients of a remote project: the editor's ("client") and *)
(* the remote server's ("server").  Envelopes get increasing ids, the ones *)
(* sent with send_buffered stay in `buffer' until the other end's          *)
(* cumulative ack_id covers them, and after a reconnect the editor asks    *)
(* with FlushBufferedMessages for everything unacknowledged and resends    *)
(* its own buffer (resync).                                                *)
(*                                                                         *)
(* The editor's channel pair is replaced at each reconnect.  The server's  *)
(* outlives the connections: its main loop (start_server) attaches to one  *)
(* connection at a time and goes on draining the same outgoing queue.      *)
(*                                                                         *)
(* Payloads are abstracted to what an envelope is for (its kind).  Ids are *)
(* naturals: the u32 wraps after 2^32 envelopes, which is not modelled.    *)
(*                                                                         *)
(* CoversNext, ResendNothing, KeepId, Peeked and OneToGo are what a faulty *)
(* version would do; no action uses them.                                  *)
(***************************************************************************)
EXTENDS Naturals, Sequences, FiniteSets

CONSTANTS
    None,           \* "no id": an absent ack_id or responding_to
    Sends,          \* Sends[e][k]: how many envelopes of kind k end e may send
    Background,     \* Background[e]: sends of e in progress off the foreground
    MaxConnections, \* bound on the connections made, the first one included
    StreamLength    \* items a stream handler yields before it ends

End == {"client", "server"}
Peer(e) == IF e = "client" THEN "server" ELSE "client"

\* What an application sends.  "Unknown" is a request without a handler.
AppKind == {"Message", "Request", "Stream", "Unknown"}
ReplyKind == {"Response", "Item", "EndStream"}
ControlKind == {"RemoteStarted", "Flush", "Ack"}
Kind == AppKind \union ReplyKind \union ControlKind

ASSUME NoneAssumption == None \notin Nat
ASSUME BoundsAssumption ==
    /\ Sends \in [End -> [AppKind -> Nat]]
    /\ Background \in [End -> Nat]
    /\ MaxConnections \in Nat \ {0}
    /\ StreamLength \in Nat

Id == Nat \union {None}
Envelope == [id : Nat, kind : Kind, re : Id, ack : Id, item : Nat]

VARIABLES
    \* fields of ChannelClient, one per end
    nextId, maxReceived, buffer, outgoing, incoming,
    responseChannels, streamChannels, started,
    \* tasks of an end
    announcing,   \* the receive task was spawned and not yet polled
    blocked,      \* the stream whose consumer holds the receive task's barrier
    running,      \* handler futures not yet finished
    sending,      \* sends in progress on background threads
    \* the transport and the editor's resync
    conn,         \* number of the editor's current connection
    link,         \* whether that connection works
    attached,     \* the connection the server's main loop serves, 0 for none
    flushDue,     \* reconnect returned and resync has not sent its request yet
    flushId,      \* the FlushBufferedMessages request resync waits for
    \* what was done so far
    left,         \* sends the application may still make
    sent,         \* [id, kind] of every envelope given to send_buffered
    received,     \* ids of the envelopes the receive task dispatched
    answers       \* what requesters and stream consumers got

ids == <<nextId, maxReceived>>
channels == <<responseChannels, streamChannels>>
tasks == <<announcing, blocked, running, sending>>
transport == <<conn, link, attached>>
resync == <<flushDue, flushId>>
history == <<left, sent, received, answers>>
vars == <<nextId, maxReceived, buffer, outgoing, incoming, responseChannels,
          streamChannels, started, announcing, blocked, running, sending, conn,
          link, attached, flushDue, flushId, left, sent, received, answers>>

Init ==
    /\ nextId = [e \in End |-> 0]
    /\ maxReceived = [e \in End |-> 0]
    /\ buffer = [e \in End |-> <<>>]
    /\ outgoing = [e \in End |-> <<>>]
    /\ incoming = [e \in End |-> <<>>]
    /\ responseChannels = [e \in End |-> {}]
    /\ streamChannels = [e \in End |-> {}]
    /\ started = [e \in End |-> FALSE]
    /\ announcing = [e \in End |-> TRUE]
    /\ blocked = [e \in End |-> None]
    /\ running = [e \in End |-> {}]
    /\ sending = [e \in End |-> {}]
    /\ conn = 1
    /\ link = "up"
    /\ attached = 0
    /\ flushDue = FALSE
    /\ flushId = None
    /\ left = Sends
    /\ sent = [e \in End |-> <<>>]
    /\ received = [e \in End |-> <<>>]
    /\ answers = [e \in End |-> <<>>]

-----------------------------------------------------------------------------
(* Sending *)

Env(id, kind, re, ack, item) ==
    [id |-> id, kind |-> kind, re |-> re, ack |-> ack, item |-> item]

\* unbounded_send to outgoing_tx: the error of a dead connection is ignored.
Put(e, msgs) ==
    outgoing' = IF e = "client" /\ link = "down" THEN outgoing
                ELSE [outgoing EXCEPT ![e] = @ \o msgs]

\* The foreground of the editor is busy between reconnect and resync.
Foreground(e) == ~ (e = "client" /\ flushDue)

\* RemoteClient::new pings once the server has announced itself, and hands out
\* the client when the ping, its first request, is answered.
Pinged == \E i \in DOMAIN sent["client"] : sent["client"][i].kind = "Request"
Ready == answers["client"] # <<>>

\* The server may push messages early, but asks nothing of an unknown editor.
MaySend(e, k) ==
    /\ left[e][k] > 0
    /\ e = "client" => Ready
    /\ k # "Message" => started[e]

Register(e, k, id) ==
    /\ responseChannels' = IF k \in {"Request", "Unknown"}
                           THEN [responseChannels EXCEPT ![e] = @ \union {id}]
                           ELSE responseChannels
    /\ streamChannels' = IF k = "Stream"
                         THEN [streamChannels EXCEPT ![e] = @ \union {id}]
                         ELSE streamChannels

\* send_buffered: remember the envelope, then send it.  buf is the buffer after
\* the acknowledgement that the same step handled, if it handled one.
SendBuffered(e, env, buf) ==
    /\ buffer' = [buffer EXCEPT ![e] = Append(buf, env)]
    /\ sent' = [sent EXCEPT ![e] = Append(@, [id |-> env.id, kind |-> env.kind])]
    /\ Put(e, <<env>>)

SendNow(e, k) ==
    /\ nextId' = [nextId EXCEPT ![e] = @ + 1]
    /\ Register(e, k, nextId[e])
    /\ SendBuffered(e, Env(nextId[e], k, None, maxReceived[e], 0), buffer[e])
    /\ UNCHANGED <<maxReceived, incoming, started, received, answers>>
    /\ UNCHANGED <<tasks, transport, resync>>

Ping ==
    /\ started["client"]
    /\ ~ Pinged
    /\ SendNow("client", "Request")
    /\ UNCHANGED left

\* send, request or request_stream called on the foreground thread.
Send(e, k) ==
    /\ MaySend(e, k)
    /\ Foreground(e)
    /\ SendNow(e, k)
    /\ left' = [left EXCEPT ![e][k] = @ - 1]

\* The same calls on another thread take three steps: the id is drawn ...
SendAllocate(e, k) ==
    /\ MaySend(e, k)
    /\ Cardinality(sending[e]) < Background[e]
    /\ left' = [left EXCEPT ![e][k] = @ - 1]
    /\ nextId' = [nextId EXCEPT ![e] = @ + 1]
    /\ Register(e, k, nextId[e])
    /\ sending' = [sending EXCEPT ![e] =
           @ \union {[env |-> Env(nextId[e], k, None, None, 0), kept |-> FALSE]}]
    /\ UNCHANGED <<maxReceived, buffer, outgoing, incoming, started>>
    /\ UNCHANGED <<announcing, blocked, running, transport, resync>>
    /\ UNCHANGED <<sent, received, answers>>

\* ... the envelope is pushed to the buffer with the acknowledgement of now ...
SendKeep(e, s) ==
    /\ ~ s.kept
    /\ LET env == [s.env EXCEPT !.ack = maxReceived[e]] IN
       /\ buffer' = [buffer EXCEPT ![e] = Append(@, env)]
       /\ sent' = [sent EXCEPT ![e] =
                      Append(@, [id |-> env.id, kind |-> env.kind])]
       /\ sending' = [sending EXCEPT ![e] =
                         (@ \ {s}) \union {[env |-> env, kept |-> TRUE]}]
    /\ UNCHANGED <<ids, channels, outgoing, incoming, started>>
    /\ UNCHANGED <<announcing, blocked, running, transport, resync>>
    /\ UNCHANGED <<left, received, answers>>

\* ... and it goes out on the connection of that moment.
SendEmit(e, s) ==
    /\ s.kept
    /\ Put(e, <<s.env>>)
    /\ sending' = [sending EXCEPT ![e] = @ \ {s}]
    /\ UNCHANGED <<ids, channels, buffer, incoming, started>>
    /\ UNCHANGED <<announcing, blocked, running, transport, resync, history>>

-----------------------------------------------------------------------------
(* Receiving: start_handling_messages *)

\* The first poll of a new receive task announces the end.
Announce(e) ==
    /\ announcing[e]
    /\ Foreground(e)
    /\ Put(e, <<Env(0, "RemoteStarted", None, None, 0)>>)
    /\ announcing' = [announcing EXCEPT ![e] = FALSE]
    /\ UNCHANGED <<ids, channels, buffer, incoming, started>>
    /\ UNCHANGED <<blocked, running, sending, transport, resync, history>>

CanReceive(e) ==
    /\ incoming[e] # <<>>
    /\ ~ announcing[e]
    /\ blocked[e] = None
    /\ Foreground(e)

CoversNext(ack, id) == ack # None /\ id <= ack + 1
Covers(ack, id) == ack # None /\ id <= ack

\* What remains of the buffer once its front is popped up to ack: a singleton.
Unacknowledged(e, ack) ==
    LET Size == Len(buffer[e])
    IN  {SubSeq(buffer[e], k + 1, Size) : k \in
            {k \in 0 .. Size : /\ \A i \in 1 .. k : Covers(ack, buffer[e][i].id)
                               /\ k < Size => ~ Covers(ack, buffer[e][k + 1].id)}}

\* The task takes the next envelope, and buf is the buffer its ack leaves.
Receive(e, buf) ==
    /\ CanReceive(e)
    /\ buf \in Unacknowledged(e, Head(incoming[e]).ack)
    /\ incoming' = [incoming EXCEPT ![e] = Tail(@)]

\* What a flush sends again of the unacknowledged envelopes.
ResendNothing(buf) == <<>>
Resend(buf) == buf

\* Acks of control messages have ids of their own.
KeepId(e) == UNCHANGED nextId
DrawId(e) == nextId' = [nextId EXCEPT ![e] = @ + 1]

\* Everything unacknowledged is sent again, and then the answer.
HandleFlush(e) ==
    /\ CanReceive(e)
    /\ LET m == Head(incoming[e]) IN
       /\ m.kind = "Flush"
       /\ \E buf \in Unacknowledged(e, m.ack) :
            /\ Receive(e, buf)
            /\ buffer' = [buffer EXCEPT ![e] = buf]
            /\ Put(e, Append(Resend(buf), Env(nextId[e], "Ack", m.id, None, 0)))
    /\ DrawId(e)
    /\ UNCHANGED <<maxReceived, channels, started, tasks, transport, resync, history>>

HandleRemoteStarted(e) ==
    /\ CanReceive(e)
    /\ LET m == Head(incoming[e]) IN
       /\ m.kind = "RemoteStarted"
       /\ \E buf \in Unacknowledged(e, m.ack) :
            /\ Receive(e, buf)
            /\ buffer' = [buffer EXCEPT ![e] = buf]
       /\ Put(e, <<Env(nextId[e], "Ack", m.id, None, 0)>>)
    /\ started' = [started EXCEPT ![e] = TRUE]
    /\ DrawId(e)
    /\ UNCHANGED <<maxReceived, channels, tasks, transport, resync, history>>

Answer(m) == [re |-> m.re, kind |-> m.kind, item |-> m.item]

\* The bookkeeping of every envelope that is not a control message.
Dispatch(e, m) ==
    /\ maxReceived' = [maxReceived EXCEPT ![e] = m.id]
    /\ received' = IF m.kind = "Ack" THEN received
                   ELSE [received EXCEPT ![e] = Append(@, m.id)]

\* The channels left once a response has found the one it is for.
Peeked(e, id) == responseChannels[e]
Taken(e, id) == responseChannels[e] \ {id}

\* The answer to the editor's FlushBufferedMessages: resync goes on in the same
\* poll, before the receive task takes another envelope, and resends.
HandleFlushed(e) ==
    /\ CanReceive(e)
    /\ LET m == Head(incoming[e]) IN
       /\ e = "client" /\ m.re # None /\ m.re = flushId
       /\ m.re \in responseChannels[e]
       /\ Dispatch(e, m)
       /\ \E buf \in Unacknowledged(e, m.ack) :
            /\ Receive(e, buf)
            /\ buffer' = [buffer EXCEPT ![e] = buf]
            /\ Put(e, Resend(buf))
       /\ responseChannels' = [responseChannels EXCEPT ![e] = Taken(e, m.re)]
    /\ flushId' = None
    /\ UNCHANGED <<nextId, streamChannels, started, tasks, transport, flushDue>>
    /\ UNCHANGED <<left, sent, answers>>

\* Any other response: to its request, else to its stream, else nowhere.  The
\* requester is polled at once, the stream's consumer when it likes (blocked).
HandleResponse(e) ==
    /\ CanReceive(e)
    /\ LET m == Head(incoming[e]) IN
       /\ m.kind \in ReplyKind \union {"Ack"}
       /\ m.re # flushId \/ e # "client" \/ m.re \notin responseChannels[e]
       /\ Dispatch(e, m)
       /\ \E buf \in Unacknowledged(e, m.ack) :
            /\ Receive(e, buf)
            /\ buffer' = [buffer EXCEPT ![e] = buf]
       /\ responseChannels' = [responseChannels EXCEPT ![e] = Taken(e, m.re)]
       /\ LET toRequest == m.re \in responseChannels[e]
              toStream == ~ toRequest /\ m.re \in streamChannels[e]
          IN /\ streamChannels' =
                    IF toStream /\ m.kind = "EndStream"
                    THEN [streamChannels EXCEPT ![e] = @ \ {m.re}]
                    ELSE streamChannels
             /\ blocked' = IF toStream THEN [blocked EXCEPT ![e] = m.re] ELSE blocked
             /\ answers' = IF toRequest \/ toStream
                           THEN [answers EXCEPT ![e] = Append(@, Answer(m))]
                           ELSE answers
    /\ UNCHANGED <<nextId, outgoing, started, announcing, running, sending>>
    /\ UNCHANGED <<transport, resync, left, sent>>

\* A message or request with a handler: its future is spawned.
HandleMessage(e) ==
    /\ CanReceive(e)
    /\ LET m == Head(incoming[e]) IN
       /\ m.kind \in AppKind \ {"Unknown"}
       /\ Dispatch(e, m)
       /\ \E buf \in Unacknowledged(e, m.ack) :
            /\ Receive(e, buf)
            /\ buffer' = [buffer EXCEPT ![e] = buf]
       /\ running' = IF m.kind = "Message" THEN running
                     ELSE [running EXCEPT ![e] = @ \union
                            {[re |-> m.id, kind |-> m.kind, item |-> 0,
                              call |-> Len(received[e]) + 1]}]
    /\ UNCHANGED <<nextId, channels, outgoing, started, announcing, blocked>>
    /\ UNCHANGED <<sending, transport, resync, left, sent, answers>>

\* No handler is registered: an error response goes back at once.
HandleUnknown(e) ==
    /\ CanReceive(e)
    /\ LET m == Head(incoming[e]) IN
       /\ m.kind = "Unknown"
       /\ Dispatch(e, m)
       /\ \E buf \in Unacknowledged(e, m.ack) :
            /\ Receive(e, buf)
            /\ SendBuffered(e, Env(nextId[e], "Response", m.id, m.id, 0), buf)
    /\ nextId' = [nextId EXCEPT ![e] = @ + 1]
    /\ UNCHANGED <<channels, started, tasks, transport, resync, left, answers>>

-----------------------------------------------------------------------------
(* Handler futures and stream consumers *)

Reply(e, kind, re, item) ==
    /\ Foreground(e)
    /\ nextId' = [nextId EXCEPT ![e] = @ + 1]
    /\ SendBuffered(e, Env(nextId[e], kind, re, maxReceived[e], item), buffer[e])
    /\ UNCHANGED <<maxReceived, channels, incoming, started, announcing, blocked>>
    /\ UNCHANGED <<sending, transport, resync, left, received, answers>>

\* The handler of a request finishes: one response, a result or an error.
Respond(e, h) ==
    /\ h.kind = "Request"
    /\ Reply(e, "Response", h.re, 0)
    /\ running' = [running EXCEPT ![e] = @ \ {h}]

\* The handler of a stream request sends an item ...
SendItem(e, h) ==
    /\ h.kind = "Stream"
    /\ h.item < StreamLength
    /\ Reply(e, "Item", h.re, h.item + 1)
    /\ running' = [running EXCEPT ![e] =
                      (@ \ {h}) \union {[h EXCEPT !.item = @ + 1]}]

OneToGo(h) == h.item + 1 >= StreamLength
AllSent(h) == h.item = StreamLength

\* ... and ends with EndStream after the last one, or earlier with an error,
\* which is a terminal frame too and is not told apart here.
EndOfStream(e, h) ==
    /\ h.kind = "Stream"
    /\ AllSent(h)
    /\ Reply(e, "EndStream", h.re, 0)
    /\ running' = [running EXCEPT ![e] = @ \ {h}]

\* The consumer polls the stream, which drops the barrier of the last item.
PollStream(e) ==
    /\ blocked[e] # None
    /\ blocked' = [blocked EXCEPT ![e] = None]
    /\ UNCHANGED <<ids, buffer, outgoing, incoming, channels, started, announcing>>
    /\ UNCHANGED <<running, sending, transport, resync, history>>

\* The consumer drops the stream: its channel goes, and the barrier with it.
DropStream(e, id) ==
    /\ id \in streamChannels[e]
    /\ streamChannels' = [streamChannels EXCEPT ![e] = @ \ {id}]
    /\ blocked' = IF blocked[e] = id THEN [blocked EXCEPT ![e] = None] ELSE blocked
    /\ UNCHANGED <<ids, buffer, outgoing, incoming, responseChannels, started>>
    /\ UNCHANGED <<announcing, running, sending, transport, resync, history>>

-----------------------------------------------------------------------------
(* The transport *)

Attached == link = "up" /\ attached = conn

\* The head of a queue crosses the pipes and sockets to the other end.
Transmit(e) ==
    /\ Attached
    /\ outgoing[e] # <<>>
    /\ outgoing' = [outgoing EXCEPT ![e] = Tail(@)]
    /\ incoming' = [incoming EXCEPT ![Peer(e)] = Append(@, Head(outgoing[e]))]
    /\ UNCHANGED <<ids, buffer, channels, started, tasks, transport, resync, history>>

\* The io task ends.  Of what is under way to an end a prefix still arrives; what
\* the editor queued goes with the connection.
Break ==
    /\ link = "up"
    /\ conn < MaxConnections
    /\ link' = "down"
    /\ outgoing' = [outgoing EXCEPT !["client"] = <<>>]
    /\ \E n \in [End -> 0 .. Len(incoming["client"]) + Len(incoming["server"])] :
        /\ \A e \in End : n[e] <= Len(incoming[e])
        /\ incoming' = [e \in End |-> SubSeq(incoming[e], 1, n[e])]

\* The connection is cut; before the first ping is answered the editor gives up.
Cut ==
    /\ Ready
    /\ Break
    /\ UNCHANGED <<ids, buffer, channels, started, tasks, conn, attached>>
    /\ UNCHANGED <<resync, history>>

\* The main loop writes to streams whose other side is gone: the envelope that
\* it took from the queue is lost.
LoseOutgoing ==
    /\ attached # 0 /\ ~ Attached
    /\ outgoing["server"] # <<>>
    /\ outgoing' = [outgoing EXCEPT !["server"] = Tail(@)]
    /\ UNCHANGED <<ids, buffer, incoming, channels, started, tasks>>
    /\ UNCHANGED <<transport, resync, history>>

\* It notices (end of file or a failed write) and goes back to accept.
Detach ==
    /\ attached # 0 /\ ~ Attached
    /\ attached' = 0
    /\ UNCHANGED <<ids, buffer, outgoing, incoming, channels, started, tasks>>
    /\ UNCHANGED <<conn, link, resync, history>>

Accept ==
    /\ attached = 0
    /\ link = "up"
    /\ attached' = conn
    /\ UNCHANGED <<ids, buffer, outgoing, incoming, channels, started, tasks>>
    /\ UNCHANGED <<conn, link, resync, history>>

\* RemoteClient::reconnect made a new connection: ChannelClient::reconnect puts
\* its queues in place and replaces the receive task.
Reconnect ==
    /\ link = "down"
    /\ ~ flushDue /\ flushId = None
    /\ conn' = conn + 1
    /\ link' = "up"
    /\ outgoing' = [outgoing EXCEPT !["client"] = <<>>]
    /\ incoming' = [incoming EXCEPT !["client"] = <<>>]
    /\ announcing' = [announcing EXCEPT !["client"] = TRUE]
    /\ blocked' = [blocked EXCEPT !["client"] = None]
    /\ flushDue' = TRUE
    /\ UNCHANGED <<ids, buffer, channels, started, running, sending, attached>>
    /\ UNCHANGED <<flushId, history>>

\* resync asks, unbuffered, for what the server has not seen acknowledged.
Resync ==
    /\ flushDue
    /\ flushDue' = FALSE
    /\ flushId' = nextId["client"]
    /\ nextId' = [nextId EXCEPT !["client"] = @ + 1]
    /\ responseChannels' = [responseChannels EXCEPT !["client"] =
                               @ \union {nextId["client"]}]
    /\ Put("client", <<Env(nextId["client"], "Flush", None,
                           maxReceived["client"], 0)>>)
    /\ UNCHANGED <<maxReceived, buffer, incoming, streamChannels, started, tasks>>
    /\ UNCHANGED <<transport, history>>

\* Its timer fires: the request is dropped, its response channel stays, and
\* RemoteClient drops the new connection if that still stands.
ResyncTimeout ==
    /\ flushId # None
    /\ flushId' = None
    /\ \/ Break
       \/ link = "down" /\ UNCHANGED <<link, outgoing, incoming>>
    /\ UNCHANGED <<ids, buffer, channels, started, tasks, conn, attached>>
    /\ UNCHANGED <<flushDue, history>>

-----------------------------------------------------------------------------
SendStep(e) ==
    \/ \E k \in AppKind : Send(e, k) \/ SendAllocate(e, k)
    \/ \E s \in sending[e] : SendKeep(e, s)
    \/ \E s \in sending[e] : SendEmit(e, s)

ReceiveStep(e) ==
    \/ HandleFlush(e)
    \/ HandleRemoteStarted(e)
    \/ HandleFlushed(e)
    \/ HandleResponse(e)
    \/ HandleMessage(e)
    \/ HandleUnknown(e)

HandlerStep(e) ==
    \E h \in running[e] : Respond(e, h) \/ SendItem(e, h) \/ EndOfStream(e, h)

Next ==
    \/ \E e \in End :
        \/ SendStep(e)
        \/ Announce(e)
        \/ ReceiveStep(e)
        \/ HandlerStep(e)
        \/ PollStream(e)
        \/ \E id \in streamChannels[e] : DropStream(e, id)
        \/ Transmit(e)
    \/ Cut \/ LoseOutgoing \/ Detach \/ Accept
    \/ Ping \/ Reconnect \/ Resync \/ ResyncTimeout

Spec == Init /\ [][Next]_vars

(***************************************************************************)
(* The executors run every task that is ready, the pipes deliver while the *)
(* connection works, timers fire, and RemoteClient reconnects after a cut. *)
(* Sends, cuts and dropped streams happen or not.  Each disjunct of its    *)
(* own needs fairness: none of them is disabled by another forever.        *)
(***************************************************************************)
Fairness ==
    /\ \A e \in End :
        /\ WF_vars(Announce(e))
        /\ WF_vars(ReceiveStep(e))
        /\ WF_vars(HandlerStep(e))
        /\ WF_vars(PollStream(e))
        /\ WF_vars(Transmit(e))
        /\ WF_vars(\E s \in sending[e] : SendKeep(e, s) \/ SendEmit(e, s))
    /\ WF_vars(Detach)
    /\ WF_vars(Accept)
    /\ WF_vars(Ping)
    /\ WF_vars(Reconnect)
    /\ WF_vars(Resync)
    /\ WF_vars(link = "down" /\ ResyncTimeout)

FairSpec == Spec /\ Fairness

-----------------------------------------------------------------------------
(* Properties *)

TypeOK ==
    /\ nextId \in [End -> Nat]
    /\ maxReceived \in [End -> Nat]
    /\ buffer \in [End -> Seq(Envelope)]
    /\ outgoing \in [End -> Seq(Envelope)]
    /\ incoming \in [End -> Seq(Envelope)]
    /\ responseChannels \in [End -> SUBSET Nat]
    /\ streamChannels \in [End -> SUBSET Nat]
    /\ started \in [End -> BOOLEAN]
    /\ announcing \in [End -> BOOLEAN]
    /\ blocked \in [End -> Id]
    /\ running \in [End -> SUBSET [re : Nat, kind : {"Request", "Stream"},
                                   item : Nat, call : Nat]]
    /\ sending \in [End -> SUBSET [env : Envelope, kept : BOOLEAN]]
    /\ conn \in Nat
    /\ link \in {"up", "down"}
    /\ attached \in Nat
    /\ flushDue \in BOOLEAN
    /\ flushId \in Id
    /\ left \in [End -> [AppKind -> Nat]]
    /\ sent \in [End -> Seq([id : Nat, kind : Kind])]
    /\ received \in [End -> Seq(Nat)]
    /\ answers \in [End -> Seq([re : Id, kind : Kind, item : Nat])]

IdsOf(seq) == {seq[i].id : i \in DOMAIN seq}
Received(e) == {received[e][i] : i \in DOMAIN received[e]}
Answers(e) == {answers[e][i] : i \in DOMAIN answers[e]}

\* Envelopes of end e on their way to its peer, control messages left out.
InFlight(e) ==
    LET queue == outgoing[e] \o incoming[Peer(e)]
    IN  {queue[i].id : i \in {i \in DOMAIN queue : queue[i].kind \notin ControlKind}}
            \union {s.env.id : s \in {s \in sending[e] : s.kept}}

\* An envelope given to send_buffered was dispatched by the other end, or can
\* still get there: it waits in the buffer or is under way.  This is what the
\* buffer, the cumulative ack_id and resync are for.
NothingLost ==
    \A e \in End : IdsOf(sent[e]) \subseteq
        Received(Peer(e)) \union IdsOf(buffer[e]) \union InFlight(e)

\* What a requester gets was sent by a handler that ran for this request, and
\* never the Ack that answers a control message, whose responding_to is 0.
AnswersAreGenuine ==
    \A e \in End : \A a \in Answers(e) : a.re \in IdsOf(sent[e]) =>
        a.kind \in ReplyKind /\ a.re \in Received(Peer(e))

\* However often a resent request is handled, its requester gets one response,
\* and a stream's consumer gets nothing after the end of the stream.
AnsweredOnce ==
    \A e \in End : \A i, j \in DOMAIN answers[e] :
        i < j /\ answers[e][i].re = answers[e][j].re => answers[e][i].kind = "Item"

\* A stream that ends has yielded all its items, in order.
StreamsAreWhole ==
    \A e \in End : \A j \in DOMAIN answers[e] :
        answers[e][j].kind = "EndStream" =>
            LET before == {i \in 1 .. j - 1 : /\ answers[e][i].re = answers[e][j].re
                                             /\ answers[e][i].kind = "Item"}
            IN  /\ {answers[e][i].item : i \in before} = 1 .. StreamLength
                /\ \A i, k \in before : i < k => answers[e][i].item < answers[e][k].item

\* Together the two ends implement a channel that delivers at least once:
\* everything sent is dispatched by the other end sooner or later.
Promise == INSTANCE AtLeastOnce WITH
    sent <- [e \in End |-> IdsOf(sent[e])],
    handled <- [e \in End |-> Received(e)]
DeliversAtLeastOnce == Promise!Spec

\* Every request is answered in the end, be it lost with a connection or not.
EveryRequestIsAnswered ==
    []<>(\A e \in End : responseChannels[e] \intersect IdsOf(sent[e]) = {})
=============================================================================
