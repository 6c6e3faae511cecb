------------------------ MODULE ChannelClientProofs ------------------------
(***************************************************************************)
(* Proofs about the two ChannelClients, for any sends, connections and     *)
(* streams: what a requester gets was sent by a handler that ran for its   *)
(* request, and it gets it once.                                           *)
(*                                                                         *)
(* An end uses an id for one envelope only, whichever step of sending it   *)
(* has reached, and a resent envelope is the one that was sent.  So every  *)
(* reply under way names a request of its kind that the replying end has   *)
(* dispatched, and the channel it is for has not been answered before.     *)
(*                                                                         *)
(* And over one cut nothing is lost of what the foreground sends.  That    *)
(* part follows the connection through its phases: up to the cut all that  *)
(* was sent is received or in the queue, in order; from the cut until an   *)
(* end resends it is received or in the buffer, because what acknowledges  *)
(* it was given before anything came out of order.                         *)
(*                                                                         *)
(* The last part is about streams until the first cut: what a consumer     *)
(* got, what is on its way and what the handler still has to send continue *)
(* each other.                                                             *)
(***************************************************************************)
EXTENDS ChannelClient, SequenceTheorems, FiniteSetTheorems, TLAPS

\* What an application waits for an answer to.
Asked == {"Request", "Unknown", "Stream"}

Pair(m) == [id |-> m.id, kind |-> m.kind]
Sent(e) == {sent[e][i] : i \in DOMAIN sent[e]}

\* The ids of an end, with what it draws them for.
Used(e) == Sent(e) \union {Pair(s.env) : s \in sending[e]}

\* Envelopes of an end, wherever they are kept or under way.
Transit(e) == Range(outgoing[e]) \union Range(incoming[Peer(e)]) \union Range(buffer[e])

Sendings ==
    \A e \in End : \A s \in sending[e] :
        s.env.kind \in AppKind /\ (s.kept => Pair(s.env) \in Sent(e))

Ids(e) ==
    /\ \A x \in Used(e) : x.id < nextId[e] /\ (x.kind \in Asked => x.id > 0)
    /\ \A x, y \in Used(e) : x.id = y.id => x.kind = y.kind
    /\ started[e] => nextId[e] > 0

\* A request that is being handled was asked, and dispatched.
Handlers(e) ==
    \A h \in running[e] :
        h.re \in Received(e) /\ [id |-> h.re, kind |-> h.kind] \in Used(Peer(e))

\* An envelope is what its sender used its id for, and a reply names what it is for.
Right(e, m) ==
    /\ m.kind \notin ControlKind => Pair(m) \in Sent(e)
    /\ m.kind \in ReplyKind =>
        /\ m.re \in Received(e)
        /\ \E x \in Used(Peer(e)) :
            x.id = m.re /\ x.kind \in (IF m.kind = "Response" THEN {"Request", "Unknown"} ELSE {"Stream"})
    /\ m.kind = "Ack" =>
        /\ m.re \in Nat /\ (m.re = 0 \/ m.re < nextId[Peer(e)])
        /\ \A x \in Used(Peer(e)) : x.id = m.re => x.kind \notin Asked
    /\ m.kind = "RemoteStarted" => m.id = 0 /\ m.re = None
    /\ m.kind = "Flush" => m.re = None /\ m.id < nextId[e] /\ \A x \in Used(e) : x.id # m.id

Envelopes(e) == \A m \in Transit(e) : Right(e, m)

\* A channel waits for an answer to what it was opened for.
Channels(e) ==
    /\ \A r \in responseChannels[e] :
        r < nextId[e] /\ \A x \in Used(e) : x.id = r => x.kind \in {"Request", "Unknown"}
    /\ \A r \in streamChannels[e] : [id |-> r, kind |-> "Stream"] \in Used(e)

\* An answer was given by the channel it was for.
Given(e, a) ==
    /\ a.re \in Nat /\ a.re < nextId[e] /\ a.re \notin responseChannels[e]
    /\ a.kind # "Item" => a.re \notin streamChannels[e]
    /\ \/ a.kind \in ReplyKind /\ a.re \in Received(Peer(e))
       \/ \A x \in Used(e) : x.id # a.re

AllGiven(e) == \A i \in DOMAIN answers[e] : Given(e, answers[e][i])

Inv ==
    /\ TypeOK
    /\ Sendings
    /\ \A e \in End : Ids(e) /\ Handlers(e) /\ Envelopes(e) /\ Channels(e) /\ AllGiven(e)

-----------------------------------------------------------------------------
(* Sequences and types *)

\* What is in a sequence that grows or shrinks.
LEMMA Elements ==
    ASSUME NEW S, NEW s \in Seq(S)
    PROVE  /\ Range(s) \subseteq S /\ Range(<<>>) = {}
           /\ \A x \in S : Append(s, x) \in Seq(S) /\ Range(Append(s, x)) = Range(s) \union {x}
           /\ \A t \in Seq(S) : s \o t \in Seq(S) /\ Range(s \o t) = Range(s) \union Range(t)
           /\ s # <<>> => /\ Head(s) \in S /\ Head(s) \in Range(s)
                          /\ Tail(s) \in Seq(S) /\ Range(Tail(s)) \subseteq Range(s)
           /\ \A m, n \in Nat : m >= 1 /\ n <= Len(s) =>
                SubSeq(s, m, n) \in Seq(S) /\ Range(SubSeq(s, m, n)) \subseteq Range(s)
<1>1. Len(s) \in Nat /\ DOMAIN s = 1 .. Len(s) /\ \A i \in 1 .. Len(s) : s[i] \in S
  BY LenProperties, ElementOfSeq
<1>2. Range(s) \subseteq S /\ Range(<<>>) = {}
  BY <1>1 DEF Range
<1>3. ASSUME NEW x \in S
      PROVE  Append(s, x) \in Seq(S) /\ Range(Append(s, x)) = Range(s) \union {x}
  <2> DEFINE t == Append(s, x)
  <2>1. t \in Seq(S) /\ Len(t) = Len(s) + 1 /\ (\A i \in 1 .. Len(s) : t[i] = s[i])
        /\ t[Len(s) + 1] = x
    BY AppendProperties
  <2>2. DOMAIN t = 1 .. (Len(s) + 1)
    BY <2>1, LenProperties
  <2> HIDE DEF t
  <2>3. Range(t) \subseteq Range(s) \union {x}
    BY <1>1, <2>1, <2>2 DEF Range
  <2>4. Range(s) \subseteq Range(t)
    <3> SUFFICES ASSUME NEW i \in DOMAIN s PROVE s[i] \in Range(t)
      BY DEF Range
    <3>1. i \in DOMAIN t /\ t[i] = s[i]
      BY <1>1, <2>1, <2>2
    <3> QED
      BY <3>1 DEF Range
  <2>5. x \in Range(t)
    <3>1. Len(s) + 1 \in DOMAIN t
      BY <1>1, <2>2
    <3> QED
      BY <2>1, <3>1 DEF Range
  <2> QED
    BY <2>1, <2>3, <2>4, <2>5 DEF t
<1>4. \A t \in Seq(S) : s \o t \in Seq(S) /\ Range(s \o t) = Range(s) \union Range(t)
  BY ConcatProperties, RangeConcatenation
<1>5. ASSUME s # <<>>
      PROVE  /\ Head(s) \in S /\ Head(s) \in Range(s)
             /\ Tail(s) \in Seq(S) /\ Range(Tail(s)) \subseteq Range(s)
  <2> DEFINE t == Tail(s)
  <2>1. /\ Head(s) \in S /\ t \in Seq(S) /\ Len(t) = Len(s) - 1
        /\ \A i \in 1 .. Len(t) : t[i] = s[i + 1]
    BY <1>5, HeadTailProperties
  <2>2. Len(s) > 0 /\ Head(s) = s[1]
    BY <1>1, <1>5, EmptySeq
  <2>3. Len(t) \in Nat /\ DOMAIN t = 1 .. Len(t)
    BY <2>1, LenProperties
  <2> HIDE DEF t
  <2>4. Head(s) \in Range(s)
    <3>1. 1 \in DOMAIN s
      BY <1>1, <2>2
    <3> QED
      BY <2>2, <3>1 DEF Range
  <2>5. ASSUME NEW i \in DOMAIN t PROVE t[i] \in Range(s)
    <3>1. i + 1 \in DOMAIN s /\ t[i] = s[i + 1]
      BY <1>1, <2>1, <2>2, <2>3
    <3> QED
      BY <3>1 DEF Range
  <2>6. Range(t) \subseteq Range(s)
    BY <2>5 DEF Range
  <2> QED
    BY <2>1, <2>4, <2>6 DEF t
<1>6. ASSUME NEW m \in Nat, NEW n \in Nat, m >= 1, n <= Len(s)
      PROVE  SubSeq(s, m, n) \in Seq(S) /\ Range(SubSeq(s, m, n)) \subseteq Range(s)
  <2>1. \A i \in m .. n : i \in DOMAIN s /\ s[i] \in S
    BY <1>1, <1>6
  <2> DEFINE t == SubSeq(s, m, n)
  <2>2. /\ t \in Seq(S) /\ Len(t) = IF m <= n THEN n - m + 1 ELSE 0
        /\ \A i \in 1 .. n - m + 1 : t[i] = s[m + i - 1]
    BY <2>1, SubSeqProperties
  <2>3. DOMAIN t = 1 .. Len(t)
    BY <2>2, LenProperties
  <2> HIDE DEF t
  <2>4. ASSUME NEW i \in DOMAIN t PROVE t[i] \in Range(s)
    <3>1. m + i - 1 \in m .. n /\ t[i] = s[m + i - 1]
      BY <2>2, <2>3
    <3> QED
      BY <2>1, <3>1 DEF Range
  <2>5. Range(t) \subseteq Range(s)
    BY <2>4 DEF Range
  <2> QED
    BY <2>2, <2>5 DEF t
<1> QED
  BY <1>2, <1>3, <1>4, <1>5, <1>6

\* The kinds of envelopes are told apart.
LEMMA Kinds ==
    /\ AppKind = {"Message", "Request", "Stream", "Unknown"}
    /\ ReplyKind = {"Response", "Item", "EndStream"}
    /\ ControlKind = {"RemoteStarted", "Flush", "Ack"}
    /\ Kind = AppKind \union ReplyKind \union ControlKind
    /\ AppKind \intersect ReplyKind = {} /\ Asked \subseteq AppKind
    /\ None \notin Nat /\ Id = Nat \union {None}
    /\ \A e \in End : Peer(e) \in End /\ Peer(Peer(e)) = e /\ Peer(e) # e
    /\ "client" \in End /\ "server" \in End
BY NoneAssumption DEF AppKind, ReplyKind, ControlKind, Kind, Asked, Id, End, Peer

\* An envelope is made of its parts.
LEMMA Made ==
    ASSUME NEW id \in Nat, NEW kind \in Kind, NEW re \in Id, NEW ack \in Id, NEW item \in Nat
    PROVE  LET m == Env(id, kind, re, ack, item) IN
           /\ m \in Envelope /\ m.id = id /\ m.kind = kind /\ m.re = re /\ m.item = item
           /\ <<m>> \in Seq(Envelope) /\ Range(<<m>>) = {m}
<1> DEFINE m == Env(id, kind, re, ack, item)
<1>1. m \in Envelope /\ m.id = id /\ m.kind = kind /\ m.re = re /\ m.item = item
  BY DEF Env, Envelope
<1> HIDE DEF m
<1>2. <<m>> \in Seq(Envelope) /\ Range(<<m>>) = {m}
  <2>1. <<m>> \in Seq(Envelope) /\ DOMAIN <<m>> = 1 .. 1 /\ <<m>>[1] = m
    BY <1>1
  <2> QED
    BY <2>1 DEF Range
<1> QED
  BY <1>1, <1>2 DEF m

\* The types of what there is, end by end.
LEMMA Values ==
    ASSUME TypeOK, NEW e \in End
    PROVE  /\ nextId[e] \in Nat /\ nextId[e] + 1 \in Nat /\ maxReceived[e] \in Nat
           /\ maxReceived[e] \in Id /\ nextId[e] \in Id /\ None \in Id
           /\ buffer[e] \in Seq(Envelope) /\ outgoing[e] \in Seq(Envelope)
           /\ incoming[e] \in Seq(Envelope)
           /\ responseChannels[e] \subseteq Nat /\ streamChannels[e] \subseteq Nat
           /\ \A h \in running[e] : /\ h.re \in Nat /\ h.kind \in {"Request", "Stream"}
                                    /\ h.item \in Nat /\ h.call \in Nat
           /\ \A s \in sending[e] : s.env \in Envelope
           /\ sent[e] \in Seq([id : Nat, kind : Kind]) /\ received[e] \in Seq(Nat)
           /\ answers[e] \in Seq([re : Id, kind : Kind, item : Nat])
           /\ flushId \in Id
<1>1. /\ nextId[e] \in Nat /\ nextId[e] + 1 \in Nat /\ maxReceived[e] \in Nat
      /\ maxReceived[e] \in Id /\ nextId[e] \in Id /\ None \in Id /\ flushId \in Id
  BY DEF TypeOK, Id
<1>2. /\ buffer[e] \in Seq(Envelope) /\ outgoing[e] \in Seq(Envelope)
      /\ incoming[e] \in Seq(Envelope)
      /\ sent[e] \in Seq([id : Nat, kind : Kind]) /\ received[e] \in Seq(Nat)
      /\ answers[e] \in Seq([re : Id, kind : Kind, item : Nat])
  BY DEF TypeOK
<1>3. responseChannels[e] \subseteq Nat /\ streamChannels[e] \subseteq Nat
  BY DEF TypeOK
<1>4. running[e] \subseteq [re : Nat, kind : {"Request", "Stream"}, item : Nat, call : Nat]
  BY DEF TypeOK
<1>5. sending[e] \subseteq [env : Envelope, kept : BOOLEAN]
  BY DEF TypeOK
<1> QED
  BY <1>1, <1>2, <1>3, <1>4, <1>5

\* Something is put into the outgoing queue, or nothing is.
LEMMA Putting ==
    ASSUME TypeOK, NEW e \in End, NEW msgs \in Seq(Envelope), Put(e, msgs)
    PROVE  /\ outgoing' \in [End -> Seq(Envelope)]
           /\ \A d \in End : d # e => outgoing'[d] = outgoing[d]
           /\ Range(outgoing'[e]) \subseteq Range(outgoing[e]) \union Range(msgs)
<1>1. outgoing[e] \o msgs \in Seq(Envelope)
      /\ Range(outgoing[e] \o msgs) = Range(outgoing[e]) \union Range(msgs)
  BY Values, Elements
<1>2. outgoing \in [End -> Seq(Envelope)]
  BY DEF TypeOK
<1> QED
  BY <1>1, <1>2 DEF Put

\* The next envelope, and what its acknowledgement leaves of the buffer.
LEMMA Receiving ==
    ASSUME TypeOK, NEW e \in End, CanReceive(e)
    PROVE  /\ Head(incoming[e]) \in Envelope /\ Head(incoming[e]) \in Range(incoming[e])
           /\ Head(incoming[e]).id \in Nat /\ Head(incoming[e]).re \in Id
           /\ Head(incoming[e]).kind \in Kind /\ Head(incoming[e]).item \in Nat
           /\ incoming[e] # <<>>
           /\ \A buf \in Unacknowledged(e, Head(incoming[e]).ack) :
                buf \in Seq(Envelope) /\ Range(buf) \subseteq Range(buffer[e])
           /\ \A buf : Receive(e, buf) =>
                /\ incoming' \in [End -> Seq(Envelope)]
                /\ \A d \in End : Range(incoming'[d]) \subseteq Range(incoming[d])
<1>1. incoming[e] # <<>> /\ incoming[e] \in Seq(Envelope) /\ buffer[e] \in Seq(Envelope)
  BY Values DEF CanReceive
<1>2. /\ Head(incoming[e]) \in Envelope /\ Head(incoming[e]) \in Range(incoming[e])
      /\ Tail(incoming[e]) \in Seq(Envelope) /\ Range(Tail(incoming[e])) \subseteq Range(incoming[e])
  BY <1>1, Elements
<1>3. ASSUME NEW buf \in Unacknowledged(e, Head(incoming[e]).ack)
      PROVE  buf \in Seq(Envelope) /\ Range(buf) \subseteq Range(buffer[e])
  <2> DEFINE Size == Len(buffer[e])
  <2>1. PICK k \in 0 .. Size : buf = SubSeq(buffer[e], k + 1, Size)
    BY DEF Unacknowledged
  <2>2. Size \in Nat /\ k + 1 \in Nat /\ k + 1 >= 1
    BY <1>1, LenProperties
  <2> QED
    BY <1>1, <2>1, <2>2, Elements
<1>4. incoming \in [End -> Seq(Envelope)]
  BY DEF TypeOK
<1>5. ASSUME NEW buf, Receive(e, buf)
      PROVE  /\ incoming' \in [End -> Seq(Envelope)]
             /\ \A d \in End : Range(incoming'[d]) \subseteq Range(incoming[d])
  BY <1>2, <1>4, <1>5 DEF Receive
<1> QED
  BY <1>1, <1>2, <1>3, <1>5 DEF Envelope

\* A sequence of an end gets one element more.
LEMMA OneMore ==
    ASSUME NEW S, NEW f \in [End -> Seq(S)], NEW e \in End, NEW x \in S
    PROVE  /\ [f EXCEPT ![e] = Append(@, x)] \in [End -> Seq(S)]
           /\ \A d \in End : d # e => [f EXCEPT ![e] = Append(@, x)][d] = f[d]
           /\ [f EXCEPT ![e] = Append(@, x)][e] = Append(f[e], x)
BY AppendProperties

\* send_buffered puts one envelope into the buffer and the outgoing queue.
LEMMA Buffering ==
    ASSUME TypeOK, NEW e \in End, NEW env \in Envelope, NEW buf \in Seq(Envelope),
           SendBuffered(e, env, buf)
    PROVE  /\ buffer' \in [End -> Seq(Envelope)] /\ outgoing' \in [End -> Seq(Envelope)]
           /\ sent' \in [End -> Seq([id : Nat, kind : Kind])]
           /\ \A d \in End : d # e => /\ buffer'[d] = buffer[d] /\ outgoing'[d] = outgoing[d]
                                      /\ sent'[d] = sent[d]
           /\ Range(buffer'[e]) = Range(buf) \union {env}
           /\ Range(outgoing'[e]) \subseteq Range(outgoing[e]) \union {env}
           /\ Range(sent'[e]) = Range(sent[e]) \union {Pair(env)}
<1>1. <<env>> \in Seq(Envelope) /\ Range(<<env>>) = {env}
  <2>1. <<env>> \in Seq(Envelope) /\ DOMAIN <<env>> = 1 .. 1 /\ <<env>>[1] = env
    OBVIOUS
  <2> QED
    BY <2>1 DEF Range
<1>2. /\ outgoing' \in [End -> Seq(Envelope)]
      /\ \A d \in End : d # e => outgoing'[d] = outgoing[d]
      /\ Range(outgoing'[e]) \subseteq Range(outgoing[e]) \union {env}
  BY <1>1, Putting DEF SendBuffered
<1>3. Append(buf, env) \in Seq(Envelope) /\ Range(Append(buf, env)) = Range(buf) \union {env}
  BY Elements
<1>4. buffer' = [buffer EXCEPT ![e] = Append(buf, env)] /\ buffer \in [End -> Seq(Envelope)]
  BY DEF SendBuffered, TypeOK
<1>5. /\ buffer' \in [End -> Seq(Envelope)] /\ Range(buffer'[e]) = Range(buf) \union {env}
      /\ \A d \in End : d # e => buffer'[d] = buffer[d]
  BY <1>3, <1>4
<1> DEFINE p == Pair(env)
           Used1 == [id : Nat, kind : Kind]
<1>6. p \in Used1
  BY DEF Pair, Envelope
<1>7. sent' = [sent EXCEPT ![e] = Append(sent[e], p)] /\ sent \in [End -> Seq(Used1)]
  BY DEF SendBuffered, TypeOK, Pair
<1> HIDE DEF p, Used1
<1>8. Append(sent[e], p) \in Seq(Used1) /\ Range(Append(sent[e], p)) = Range(sent[e]) \union {p}
  BY <1>6, <1>7, Elements
<1>9. /\ sent' \in [End -> Seq(Used1)] /\ Range(sent'[e]) = Range(sent[e]) \union {p}
      /\ \A d \in End : d # e => sent'[d] = sent[d]
  BY <1>7, <1>8
<1> QED
  BY <1>2, <1>5, <1>9 DEF p, Used1

\* An id is drawn.
LEMMA Drawing ==
    ASSUME TypeOK, NEW e \in End, nextId' = [nextId EXCEPT ![e] = @ + 1]
    PROVE  /\ nextId' \in [End -> Nat] /\ nextId'[e] = nextId[e] + 1
           /\ \A d \in End : d # e => nextId'[d] = nextId[d]
           /\ nextId[e] < nextId'[e]
<1>1. /\ nextId' \in [End -> Nat] /\ nextId'[e] = nextId[e] + 1
      /\ \A d \in End : d # e => nextId'[d] = nextId[d]
  BY Values DEF TypeOK
<1>2. nextId[e] < nextId'[e]
  BY <1>1, Values
<1> QED
  BY <1>1, <1>2

\* A channel is opened for an id.
LEMMA Registering ==
    ASSUME TypeOK, NEW e \in End, NEW k \in AppKind, Register(e, k, nextId[e])
    PROVE  /\ responseChannels' \in [End -> SUBSET Nat] /\ streamChannels' \in [End -> SUBSET Nat]
           /\ \A d \in End : d # e => responseChannels'[d] = responseChannels[d]
                                      /\ streamChannels'[d] = streamChannels[d]
           /\ responseChannels'[e] = IF k \in {"Request", "Unknown"}
                                     THEN responseChannels[e] \union {nextId[e]} ELSE responseChannels[e]
           /\ streamChannels'[e] = IF k = "Stream"
                                   THEN streamChannels[e] \union {nextId[e]} ELSE streamChannels[e]
<1>1. nextId[e] \in Nat /\ responseChannels \in [End -> SUBSET Nat] /\ streamChannels \in [End -> SUBSET Nat]
  BY DEF TypeOK
<1> QED
  BY <1>1 DEF Register

\* A break leaves a part of what is under way.
LEMMA Breaking ==
    ASSUME TypeOK, Break
    PROVE  /\ outgoing' \in [End -> Seq(Envelope)] /\ incoming' \in [End -> Seq(Envelope)]
           /\ link' = "down"
           /\ \A d \in End : /\ Range(outgoing'[d]) \subseteq Range(outgoing[d])
                             /\ Range(incoming'[d]) \subseteq Range(incoming[d])
<1>1. PICK n \in [End -> 0 .. Len(incoming["client"]) + Len(incoming["server"])] :
        /\ \A e \in End : n[e] <= Len(incoming[e])
        /\ incoming' = [e \in End |-> SubSeq(incoming[e], 1, n[e])]
  BY DEF Break
<1>2. \A d \in End : incoming[d] \in Seq(Envelope) /\ outgoing[d] \in Seq(Envelope)
                     /\ Len(incoming[d]) \in Nat
  BY Values, LenProperties
<1>3. ASSUME NEW d \in End
      PROVE  /\ SubSeq(incoming[d], 1, n[d]) \in Seq(Envelope)
             /\ Range(SubSeq(incoming[d], 1, n[d])) \subseteq Range(incoming[d])
  <2> DEFINE N == Len(incoming["client"]) + Len(incoming["server"])
  <2>1. N \in Nat
    <3>1. Len(incoming["client"]) \in Nat /\ Len(incoming["server"]) \in Nat
      BY <1>2 DEF End
    <3>2. \A a, b \in Nat : a + b \in Nat
      OBVIOUS
    <3> QED
      BY <3>1, <3>2, Zenon
  <2> HIDE DEF N
  <2>2. n \in [End -> 0 .. N]
    BY <1>1 DEF N
  <2>3. n[d] \in 0 .. N
    BY <2>2
  <2>4. n[d] \in Nat /\ n[d] <= Len(incoming[d])
    BY <1>1, <2>1, <2>3
  <2> QED
    BY <1>2, <2>4, Elements
<1>4. /\ incoming' \in [End -> Seq(Envelope)]
      /\ \A d \in End : Range(incoming'[d]) \subseteq Range(incoming[d])
  BY <1>1, <1>3
<1>5. outgoing' = [outgoing EXCEPT !["client"] = <<>>] /\ outgoing \in [End -> Seq(Envelope)]
      /\ link' = "down"
  BY DEF Break, TypeOK
<1>6. /\ outgoing' \in [End -> Seq(Envelope)]
      /\ \A d \in End : Range(outgoing'[d]) \subseteq Range(outgoing[d])
  <2>1. <<>> \in Seq(Envelope) /\ Range(<<>>) = {}
    BY <1>2, Kinds, Elements
  <2> QED
    BY <1>5, <2>1
<1> QED
  BY <1>4, <1>5, <1>6

-----------------------------------------------------------------------------
(* Type correctness *)

\* The types hold at first.
LEMMA TypesInit == Init => TypeOK
<1> SUFFICES ASSUME Init PROVE TypeOK
  OBVIOUS
<1>1. left \in [End -> [AppKind -> Nat]]
  BY BoundsAssumption DEF Init
<1>2. \A S : <<>> \in Seq(S)
  OBVIOUS
<1>3. /\ buffer \in [End -> Seq(Envelope)] /\ outgoing \in [End -> Seq(Envelope)]
      /\ incoming \in [End -> Seq(Envelope)]
      /\ sent \in [End -> Seq([id : Nat, kind : Kind])] /\ received \in [End -> Seq(Nat)]
      /\ answers \in [End -> Seq([re : Id, kind : Kind, item : Nat])]
  BY <1>2 DEF Init
<1>4. flushDue \in BOOLEAN
  BY Zenon DEF Init
<1>5. started \in [End -> BOOLEAN] /\ announcing \in [End -> BOOLEAN]
  BY DEF Init
<1> QED
  BY <1>1, <1>3, <1>4, <1>5 DEF Init, TypeOK, Id

\* What an end may send gets less.
LEMMA SendingLess ==
    ASSUME TypeOK, NEW e \in End, NEW k \in AppKind, MaySend(e, k),
           left' = [left EXCEPT ![e][k] = @ - 1]
    PROVE  left' \in [End -> [AppKind -> Nat]]
<1>1. left \in [End -> [AppKind -> Nat]] /\ left[e][k] > 0
  BY DEF TypeOK, MaySend
<1>2. left[e][k] - 1 \in Nat
  BY <1>1
<1> QED
  BY <1>1, <1>2

\* A foreground send keeps the types.
LEMMA SendNowTypes ==
    ASSUME TypeOK, NEW e \in End, NEW k \in AppKind, SendNow(e, k),
           left' \in [End -> [AppKind -> Nat]]
    PROVE  TypeOK'
<1> DEFINE env == Env(nextId[e], k, None, maxReceived[e], 0)
<1>1. env \in Envelope /\ buffer[e] \in Seq(Envelope)
  <2>1. /\ nextId[e] \in Nat /\ k \in Kind /\ None \in Id /\ maxReceived[e] \in Id /\ 0 \in Nat
        /\ buffer[e] \in Seq(Envelope)
    BY Values, Kinds
  <2> QED
    BY ONLY <2>1, Made DEF env
<1>2. SendBuffered(e, env, buffer[e]) /\ Register(e, k, nextId[e])
      /\ nextId' = [nextId EXCEPT ![e] = @ + 1]
  BY DEF SendNow
<1> HIDE DEF env
<1>3. /\ buffer' \in [End -> Seq(Envelope)] /\ outgoing' \in [End -> Seq(Envelope)]
      /\ sent' \in [End -> Seq([id : Nat, kind : Kind])]
  BY <1>1, <1>2, Buffering
<1>4. nextId' \in [End -> Nat] /\ responseChannels' \in [End -> SUBSET Nat]
      /\ streamChannels' \in [End -> SUBSET Nat]
  BY <1>2, Drawing, Registering
<1> QED
  BY <1>3, <1>4 DEF TypeOK, SendNow, tasks, transport, resync

\* A send on another thread keeps the types.
LEMMA SendStepTypes ==
    ASSUME TypeOK, NEW e \in End, SendStep(e)
    PROVE  TypeOK'
<1> DEFINE Sending == [env : Envelope, kept : BOOLEAN]
<1>1. sending \in [End -> SUBSET Sending]
  BY DEF TypeOK
<1>2. ASSUME NEW k \in AppKind, Send(e, k) PROVE TypeOK'
  BY <1>2, SendingLess, SendNowTypes DEF Send
<1>3. ASSUME NEW k \in AppKind, SendAllocate(e, k) PROVE TypeOK'
  <2> DEFINE s == [env |-> Env(nextId[e], k, None, None, 0), kept |-> FALSE]
  <2>1. s \in Sending
    BY Values, Made, Kinds
  <2>2. sending' = [sending EXCEPT ![e] = sending[e] \union {s}]
    BY <1>3 DEF SendAllocate
  <2> HIDE DEF s, Sending
  <2>3. sending' \in [End -> SUBSET Sending]
    BY <1>1, <2>1, <2>2
  <2>4. nextId' \in [End -> Nat] /\ responseChannels' \in [End -> SUBSET Nat]
        /\ streamChannels' \in [End -> SUBSET Nat] /\ left' \in [End -> [AppKind -> Nat]]
    BY <1>3, Drawing, Registering, SendingLess DEF SendAllocate
  <2> QED
    BY <1>3, <2>3, <2>4 DEF TypeOK, SendAllocate, transport, resync, Sending
<1>4. ASSUME NEW s \in sending[e], SendKeep(e, s) PROVE TypeOK'
  <2> DEFINE env == [s.env EXCEPT !.ack = maxReceived[e]]
             u == [env |-> env, kept |-> TRUE]
             p == [id |-> env.id, kind |-> env.kind]
  <2>1. env \in Envelope
    BY Values DEF Envelope
  <2>2. u \in Sending /\ p \in [id : Nat, kind : Kind]
    BY <2>1 DEF Envelope
  <2>3. /\ buffer' = [buffer EXCEPT ![e] = Append(@, env)]
        /\ sent' = [sent EXCEPT ![e] = Append(@, p)]
        /\ sending' = [sending EXCEPT ![e] = (sending[e] \ {s}) \union {u}]
    BY <1>4 DEF SendKeep
  <2> HIDE DEF env, u, p, Sending
  <2>4. sending' \in [End -> SUBSET Sending]
    BY <1>1, <2>2, <2>3
  <2>5. buffer' \in [End -> Seq(Envelope)] /\ sent' \in [End -> Seq([id : Nat, kind : Kind])]
    <3>1. buffer \in [End -> Seq(Envelope)] /\ sent \in [End -> Seq([id : Nat, kind : Kind])]
      BY DEF TypeOK
    <3>2. buffer' \in [End -> Seq(Envelope)]
      BY <2>1, <2>3, <3>1, OneMore
    <3>3. sent' \in [End -> Seq([id : Nat, kind : Kind])]
      BY <2>2, <2>3, <3>1, OneMore
    <3> QED
      BY <3>2, <3>3
  <2> QED
    BY <1>4, <2>4, <2>5 DEF TypeOK, SendKeep, ids, channels, transport, resync, Sending
<1>5. ASSUME NEW s \in sending[e], SendEmit(e, s) PROVE TypeOK'
  <2>1. s.env \in Envelope
    BY Values
  <2>2. <<s.env>> \in Seq(Envelope)
    BY <2>1
  <2>3. outgoing' \in [End -> Seq(Envelope)]
    BY <1>5, <2>2, Putting DEF SendEmit
  <2>4. sending' \in [End -> SUBSET Sending]
    BY <1>1, <1>5 DEF SendEmit
  <2> QED
    BY <1>5, <2>3, <2>4 DEF TypeOK, SendEmit, ids, channels, transport, resync, history
<1> QED
  BY <1>2, <1>3, <1>4, <1>5 DEF SendStep

\* The steps of the connection keep the types.
LEMMA TransportTypes ==
    ASSUME TypeOK, Cut \/ LoseOutgoing \/ Detach \/ Accept \/ Reconnect \/ ResyncTimeout
    PROVE  TypeOK'
<1>1. ASSUME Cut PROVE TypeOK'
  <2>1. Break
    BY <1>1 DEF Cut
  <2>2. /\ outgoing' \in [End -> Seq(Envelope)] /\ incoming' \in [End -> Seq(Envelope)]
        /\ link' = "down"
    BY <2>1, Breaking
  <2> QED
    BY <1>1, <2>2 DEF TypeOK, Cut, ids, channels, tasks, resync, history
<1>2. ASSUME LoseOutgoing PROVE TypeOK'
  <2>1. Tail(outgoing["server"]) \in Seq(Envelope)
    BY <1>2, Values, Elements, Kinds DEF LoseOutgoing
  <2> QED
    BY <1>2, <2>1 DEF TypeOK, LoseOutgoing, ids, channels, tasks, transport, resync, history
<1>3. ASSUME Detach \/ Accept PROVE TypeOK'
  <2>1. CASE Detach
    BY <2>1 DEF TypeOK, Detach, ids, channels, tasks, resync, history
  <2>2. CASE Accept
    BY <2>2 DEF TypeOK, Accept, ids, channels, tasks, resync, history
  <2> QED
    BY <1>3, <2>1, <2>2
<1>4. ASSUME Reconnect PROVE TypeOK'
  <2>1. <<>> \in Seq(Envelope) /\ None \in Id
    BY Kinds
  <2>2. conn' \in Nat /\ link' \in {"up", "down"} /\ flushDue' \in BOOLEAN
    BY <1>4 DEF TypeOK, Reconnect
  <2> QED
    BY <1>4, <2>1, <2>2 DEF TypeOK, Reconnect, ids, channels, transport, resync, history
<1>5. ASSUME ResyncTimeout PROVE TypeOK'
  <2>1. flushId' \in Id
    BY <1>5, Kinds DEF ResyncTimeout
  <2>2. /\ outgoing' \in [End -> Seq(Envelope)] /\ incoming' \in [End -> Seq(Envelope)]
        /\ link' \in {"up", "down"}
    <3>1. CASE Break
      BY <3>1, Breaking
    <3>2. CASE link = "down" /\ UNCHANGED <<link, outgoing, incoming>>
      BY <3>2 DEF TypeOK
    <3> QED
      BY <1>5, <3>1, <3>2 DEF ResyncTimeout
  <2> QED
    BY <1>5, <2>1, <2>2 DEF TypeOK, ResyncTimeout, ids, channels, tasks, history
<1> QED
  BY <1>1, <1>2, <1>3, <1>4, <1>5

\* The request of resync keeps the types.
LEMMA ResyncTypes == ASSUME TypeOK, Resync PROVE TypeOK'
<1> DEFINE env == Env(nextId["client"], "Flush", None, maxReceived["client"], 0)
<1>1. /\ "client" \in End /\ nextId["client"] \in Nat /\ nextId["client"] \in Id
      /\ env \in Envelope /\ <<env>> \in Seq(Envelope)
  <2>1. /\ "client" \in End /\ nextId["client"] \in Nat /\ nextId["client"] \in Id
        /\ maxReceived["client"] \in Id /\ None \in Id /\ 0 \in Nat
    BY Values, Kinds
  <2>2. "Flush" \in Kind
    BY DEF ControlKind, Kind
  <2> QED
    BY ONLY <2>1, <2>2, Made DEF env
<1>2. Put("client", <<env>>)
  BY DEF Resync
<1> HIDE DEF env
<1>3. outgoing' \in [End -> Seq(Envelope)]
  BY <1>1, <1>2, Putting
<1>4. nextId' \in [End -> Nat]
  BY <1>1, Drawing DEF Resync
<1>5. responseChannels' \in [End -> SUBSET Nat]
  BY <1>1 DEF Resync, TypeOK
<1>6. flushDue' \in BOOLEAN /\ flushId' \in Id
  BY <1>1 DEF Resync
<1> QED
  BY <1>3, <1>4, <1>5, <1>6 DEF TypeOK, Resync, tasks, transport, history

\* Handing an envelope over, announcing and polling keep the types.
LEMMA MovingTypes ==
    ASSUME TypeOK, NEW e \in End,
           \/ Announce(e) \/ Transmit(e) \/ PollStream(e)
           \/ \E id \in streamChannels[e] : DropStream(e, id)
    PROVE  TypeOK'
<1>1. ASSUME Announce(e) PROVE TypeOK'
  <2> DEFINE env == Env(0, "RemoteStarted", None, None, 0)
  <2>1. env \in Envelope /\ <<env>> \in Seq(Envelope)
    <3>1. "RemoteStarted" \in Kind /\ 0 \in Nat /\ None \in Id
      BY Kinds
    <3> QED
      BY ONLY <3>1, Made DEF env
  <2>2. Put(e, <<env>>)
    BY <1>1 DEF Announce
  <2> HIDE DEF env
  <2>3. outgoing' \in [End -> Seq(Envelope)]
    BY <2>1, <2>2, Putting
  <2>4. announcing' \in [End -> BOOLEAN]
    BY <1>1 DEF TypeOK, Announce
  <2> QED
    BY <1>1, <2>3, <2>4 DEF TypeOK, Announce, ids, channels, transport, resync, history
<1>2. ASSUME Transmit(e) PROVE TypeOK'
  <2>1. /\ Tail(outgoing[e]) \in Seq(Envelope) /\ Head(outgoing[e]) \in Envelope
        /\ Peer(e) \in End /\ incoming[Peer(e)] \in Seq(Envelope)
    BY <1>2, Values, Elements, Kinds DEF Transmit
  <2>2. Append(incoming[Peer(e)], Head(outgoing[e])) \in Seq(Envelope)
    BY <2>1, Elements
  <2>3. outgoing' \in [End -> Seq(Envelope)] /\ incoming' \in [End -> Seq(Envelope)]
    BY <1>2, <2>1, <2>2 DEF TypeOK, Transmit
  <2> QED
    BY <1>2, <2>3 DEF TypeOK, Transmit, ids, channels, tasks, transport, resync, history
<1>3. ASSUME PollStream(e) PROVE TypeOK'
  BY <1>3, Kinds DEF TypeOK, PollStream, ids, channels, transport, resync, history
<1>4. ASSUME NEW id \in streamChannels[e], DropStream(e, id) PROVE TypeOK'
  BY <1>4, Kinds DEF TypeOK, DropStream, ids, channels, transport, resync, history
<1> QED
  BY <1>1, <1>2, <1>3, <1>4

\* The buffer that an acknowledgement leaves.
LEMMA Keeping ==
    ASSUME TypeOK, NEW e \in End, NEW buf, Receive(e, buf), buffer' = [buffer EXCEPT ![e] = buf]
    PROVE  /\ buffer' \in [End -> Seq(Envelope)] /\ buf \in Seq(Envelope)
           /\ buffer'[e] = buf /\ Range(buf) \subseteq Range(buffer[e])
           /\ \A d \in End : d # e => buffer'[d] = buffer[d]
           /\ incoming' \in [End -> Seq(Envelope)]
           /\ \A d \in End : Range(incoming'[d]) \subseteq Range(incoming[d])
<1>1. CanReceive(e) /\ buf \in Unacknowledged(e, Head(incoming[e]).ack)
  BY DEF Receive
<1>2. /\ buf \in Seq(Envelope) /\ Range(buf) \subseteq Range(buffer[e])
      /\ incoming' \in [End -> Seq(Envelope)]
      /\ \A d \in End : Range(incoming'[d]) \subseteq Range(incoming[d])
  BY <1>1, Receiving
<1> QED
  BY <1>2 DEF TypeOK

\* What is noted of an envelope that is dispatched.
LEMMA Dispatching ==
    ASSUME TypeOK, NEW e \in End, NEW m, m.id \in Nat, Dispatch(e, m)
    PROVE  /\ maxReceived' \in [End -> Nat] /\ received' \in [End -> Seq(Nat)]
           /\ \A d \in End : Received(d) \subseteq Received(d)'
           /\ m.kind # "Ack" => m.id \in Received(e)'
           /\ Received(e)' \subseteq Received(e) \union (IF m.kind = "Ack" THEN {} ELSE {m.id})
<1>1. maxReceived \in [End -> Nat] /\ received \in [End -> Seq(Nat)] /\ received[e] \in Seq(Nat)
  BY DEF TypeOK
<1>2. maxReceived' \in [End -> Nat]
  BY <1>1 DEF Dispatch
<1>3. CASE m.kind = "Ack"
  <2>1. received' = received
    BY <1>3 DEF Dispatch
  <2> QED
    BY <1>1, <1>2, <1>3, <2>1 DEF Received
<1>4. CASE m.kind # "Ack"
  <2> DEFINE id == m.id
  <2>1. id \in Nat /\ received' = [received EXCEPT ![e] = Append(received[e], id)]
    BY <1>4 DEF Dispatch
  <2> HIDE DEF id
  <2>2. /\ Append(received[e], id) \in Seq(Nat)
        /\ Range(Append(received[e], id)) = Range(received[e]) \union {id}
    BY <1>1, <2>1, Elements
  <2>3. /\ received' \in [End -> Seq(Nat)] /\ Range(received'[e]) = Range(received[e]) \union {id}
        /\ \A d \in End : d # e => received'[d] = received[d]
    BY <1>1, <2>1, <2>2
  <2>4. \A d \in End : Range(received'[d]) = Received(d)' /\ Range(received[d]) = Received(d)
    BY DEF Range, Received
  <2>5. /\ \A d \in End : Received(d) \subseteq Received(d)'
        /\ Received(e)' = Received(e) \union {id}
    BY <2>3, <2>4
  <2> QED
    BY <1>2, <1>4, <2>3, <2>5 DEF id
<1> QED
  BY <1>3, <1>4

\* Handling a control message keeps the types.
LEMMA ControlTypes ==
    ASSUME TypeOK, NEW e \in End, HandleFlush(e) \/ HandleRemoteStarted(e)
    PROVE  TypeOK'
<1> DEFINE m == Head(incoming[e])
           ack == Env(nextId[e], "Ack", m.id, None, 0)
<1>1. CanReceive(e) /\ nextId' = [nextId EXCEPT ![e] = @ + 1]
  BY DEF HandleFlush, HandleRemoteStarted, DrawId
<1>2. m.id \in Nat
  BY <1>1, Receiving
<1>3. ack \in Envelope /\ <<ack>> \in Seq(Envelope)
  <2>1. nextId[e] \in Nat /\ "Ack" \in Kind /\ m.id \in Id /\ None \in Id /\ 0 \in Nat
    BY <1>2, Values, Kinds
  <2> QED
    BY ONLY <2>1, Made DEF ack
<1>4. PICK buf : /\ Receive(e, buf) /\ buffer' = [buffer EXCEPT ![e] = buf]
                 /\ Put(e, Append(buf, ack)) \/ Put(e, <<ack>>)
  BY DEF HandleFlush, HandleRemoteStarted, Resend
<1> HIDE DEF m, ack
<1>5. /\ buffer' \in [End -> Seq(Envelope)] /\ buf \in Seq(Envelope)
      /\ incoming' \in [End -> Seq(Envelope)]
  BY <1>4, Keeping
<1>6. Append(buf, ack) \in Seq(Envelope)
  BY <1>3, <1>5, Elements
<1>7. outgoing' \in [End -> Seq(Envelope)]
  BY <1>3, <1>4, <1>6, Putting
<1>8. nextId' \in [End -> Nat]
  BY <1>1, Drawing
<1>9. started' \in [End -> BOOLEAN]
  BY DEF TypeOK, HandleFlush, HandleRemoteStarted
<1>10. UNCHANGED <<maxReceived, channels, tasks, transport, resync, history>>
  BY DEF HandleFlush, HandleRemoteStarted
<1> QED
  BY <1>5, <1>7, <1>8, <1>9, <1>10 DEF TypeOK, channels, tasks, transport, resync, history

\* Handling a response keeps the types.
LEMMA ResponseTypes ==
    ASSUME TypeOK, NEW e \in End, HandleFlushed(e) \/ HandleResponse(e)
    PROVE  TypeOK'
<1> DEFINE m == Head(incoming[e])
<1>1. CanReceive(e) /\ Dispatch(e, m)
  BY DEF HandleFlushed, HandleResponse
<1>2. m.id \in Nat /\ m.re \in Id /\ m.kind \in Kind /\ m.item \in Nat
  BY <1>1, Receiving
<1>3. PICK buf : Receive(e, buf) /\ buffer' = [buffer EXCEPT ![e] = buf]
                 /\ (Put(e, buf) \/ UNCHANGED outgoing)
  BY DEF HandleFlushed, HandleResponse, Resend
<1>4. responseChannels' = [responseChannels EXCEPT ![e] = Taken(e, m.re)]
  BY DEF HandleFlushed, HandleResponse
<1>5. \/ /\ flushId' = None
         /\ UNCHANGED <<nextId, streamChannels, started, tasks, transport, flushDue>>
         /\ UNCHANGED <<left, sent, answers>>
      \/ /\ \/ streamChannels' = [streamChannels EXCEPT ![e] = @ \ {m.re}]
            \/ UNCHANGED streamChannels
         /\ blocked' = [blocked EXCEPT ![e] = m.re] \/ UNCHANGED blocked
         /\ answers' = [answers EXCEPT ![e] = Append(@, Answer(m))] \/ UNCHANGED answers
         /\ UNCHANGED <<nextId, started, announcing, running, sending>>
         /\ UNCHANGED <<transport, resync, left, sent>>
  <2>1. CASE HandleFlushed(e)
    BY <2>1 DEF HandleFlushed
  <2>2. CASE HandleResponse(e)
    BY <2>2 DEF HandleResponse
  <2> QED
    BY <2>1, <2>2
<1> DEFINE a == Answer(m)
<1>6. a \in [re : Id, kind : Kind, item : Nat]
  BY <1>2 DEF Answer
<1> HIDE DEF m, a
<1>7. /\ buffer' \in [End -> Seq(Envelope)] /\ buf \in Seq(Envelope)
      /\ incoming' \in [End -> Seq(Envelope)]
  BY <1>3, Keeping
<1>8. outgoing' \in [End -> Seq(Envelope)]
  <2>1. CASE Put(e, buf)
    BY <1>7, <2>1, Putting
  <2>2. CASE UNCHANGED outgoing
    BY <2>2 DEF TypeOK
  <2> QED
    BY <1>3, <2>1, <2>2
<1>9. maxReceived' \in [End -> Nat] /\ received' \in [End -> Seq(Nat)]
  BY <1>1, <1>2, Dispatching
<1>10. responseChannels' \in [End -> SUBSET Nat]
  BY <1>4 DEF TypeOK, Taken
<1>11. /\ nextId' \in [End -> Nat] /\ left' \in [End -> [AppKind -> Nat]]
       /\ sent' \in [End -> Seq([id : Nat, kind : Kind])]
       /\ started' \in [End -> BOOLEAN] /\ announcing' \in [End -> BOOLEAN]
       /\ flushDue' \in BOOLEAN /\ flushId' \in Id
       /\ conn' \in Nat /\ link' \in {"up", "down"} /\ attached' \in Nat
       /\ streamChannels' \in [End -> SUBSET Nat]
  <2>1. /\ UNCHANGED <<nextId, started, announcing, flushDue, conn, link, attached, left, sent>>
        /\ flushId' = flushId \/ flushId' = None
    BY <1>5 DEF tasks, transport, resync
  <2>2. streamChannels' \in [End -> SUBSET Nat]
    <3>1. \/ streamChannels' = streamChannels
          \/ streamChannels' = [streamChannels EXCEPT ![e] = @ \ {m.re}]
      BY <1>5
    <3>2. streamChannels \in [End -> SUBSET Nat]
      BY DEF TypeOK
    <3> QED
      BY ONLY <3>1, <3>2
  <2> QED
    BY <2>1, <2>2, Kinds DEF TypeOK
<1>12. /\ running' \in [End -> SUBSET [re : Nat, kind : {"Request", "Stream"},
                                       item : Nat, call : Nat]]
       /\ sending' \in [End -> SUBSET [env : Envelope, kept : BOOLEAN]]
  BY <1>5 DEF TypeOK, tasks
<1>13. blocked' \in [End -> Id]
  BY <1>2, <1>5 DEF TypeOK, tasks
<1>14. answers' \in [End -> Seq([re : Id, kind : Kind, item : Nat])]
  <2> DEFINE A == [re : Id, kind : Kind, item : Nat]
  <2>1. answers \in [End -> Seq(A)] /\ a \in A
    BY <1>6 DEF TypeOK
  <2>2. answers' = [answers EXCEPT ![e] = Append(@, a)] \/ UNCHANGED answers
    BY <1>5 DEF a
  <2> HIDE DEF A
  <2>3. [answers EXCEPT ![e] = Append(@, a)] \in [End -> Seq(A)]
    BY <2>1, OneMore
  <2>4. answers' \in [End -> Seq(A)]
    BY <2>1, <2>2, <2>3
  <2> QED
    BY <2>4 DEF A
<1> QED
  BY <1>7, <1>8, <1>9, <1>10, <1>11, <1>12, <1>13, <1>14 DEF TypeOK

\* Handling what an application sent keeps the types.
LEMMA AppTypes ==
    ASSUME TypeOK, NEW e \in End, HandleMessage(e) \/ HandleUnknown(e)
    PROVE  TypeOK'
<1> DEFINE m == Head(incoming[e])
<1>1. CanReceive(e) /\ Dispatch(e, m)
  BY DEF HandleMessage, HandleUnknown
<1>2. m.id \in Nat /\ m.kind \in Kind
  BY <1>1, Receiving
<1> HIDE DEF m
<1>3. maxReceived' \in [End -> Nat] /\ received' \in [End -> Seq(Nat)]
  BY <1>1, <1>2, Dispatching
<1>4. CASE HandleMessage(e)
  <2>1. PICK buf : Receive(e, buf) /\ buffer' = [buffer EXCEPT ![e] = buf]
    BY <1>4 DEF HandleMessage
  <2>2. buffer' \in [End -> Seq(Envelope)] /\ incoming' \in [End -> Seq(Envelope)]
    BY <2>1, Keeping
  <2> DEFINE R == [re : Nat, kind : {"Request", "Stream"}, item : Nat, call : Nat]
             h == [re |-> m.id, kind |-> m.kind, item |-> 0, call |-> Len(received[e]) + 1]
  <2>3. running' = running
        \/ (m.kind \in {"Request", "Stream"}
            /\ running' = [running EXCEPT ![e] = running[e] \union {h}])
    BY <1>4 DEF HandleMessage, m, AppKind
  <2>4. Len(received[e]) + 1 \in Nat
    <3>1. Len(received[e]) \in Nat
      BY Values, LenProperties
    <3> QED
      BY <3>1
  <2>5. m.kind \in {"Request", "Stream"} => h \in R
    BY <1>2, <2>4
  <2>6. running \in [End -> SUBSET R]
    BY DEF TypeOK
  <2> HIDE DEF R, h
  <2>7. running' \in [End -> SUBSET R]
    BY <2>3, <2>5, <2>6
  <2>8. /\ UNCHANGED <<nextId, channels, outgoing, started, announcing, blocked>>
        /\ UNCHANGED <<sending, transport, resync, left, sent, answers>>
    BY <1>4 DEF HandleMessage
  <2> QED
    BY <1>3, <2>2, <2>7, <2>8 DEF TypeOK, channels, transport, resync, R
<1>5. CASE HandleUnknown(e)
  <2> DEFINE env == Env(nextId[e], "Response", m.id, m.id, 0)
  <2>1. env \in Envelope
    <3>1. /\ nextId[e] \in Nat /\ "Response" \in Kind /\ m.id \in Id /\ 0 \in Nat
      BY <1>2, Values, Kinds
    <3> QED
      BY <3>1, Made
  <2>2. PICK buf : Receive(e, buf) /\ SendBuffered(e, env, buf)
    BY <1>5 DEF HandleUnknown, m
  <2> HIDE DEF env
  <2>3. buf \in Unacknowledged(e, Head(incoming[e]).ack)
    BY <2>2 DEF Receive
  <2>4. buf \in Seq(Envelope) /\ incoming' \in [End -> Seq(Envelope)]
    BY <1>1, <2>2, <2>3, Receiving
  <2>5. /\ buffer' \in [End -> Seq(Envelope)] /\ outgoing' \in [End -> Seq(Envelope)]
        /\ sent' \in [End -> Seq([id : Nat, kind : Kind])]
    BY <2>1, <2>2, <2>4, Buffering
  <2>6. nextId' \in [End -> Nat]
    BY <1>5, Drawing DEF HandleUnknown
  <2>7. UNCHANGED <<channels, started, tasks, transport, resync, left, answers>>
    BY <1>5 DEF HandleUnknown
  <2> QED
    BY <1>3, <2>4, <2>5, <2>6, <2>7 DEF TypeOK, channels, tasks, transport, resync
<1> QED
  BY <1>4, <1>5

\* Replying keeps the types.
LEMMA ReplyTypes ==
    ASSUME TypeOK, NEW e \in End, NEW h \in running[e],
           Respond(e, h) \/ SendItem(e, h) \/ EndOfStream(e, h)
    PROVE  TypeOK'
<1>1. PICK kind \in ReplyKind, item \in Nat : Reply(e, kind, h.re, item)
  <2>1. h.item + 1 \in Nat /\ 0 \in Nat
    BY Values
  <2> QED
    BY <2>1, Kinds DEF Respond, SendItem, EndOfStream
<1> DEFINE env == Env(nextId[e], kind, h.re, maxReceived[e], item)
<1>2. env \in Envelope /\ buffer[e] \in Seq(Envelope)
  <2>1. h.re \in Id /\ kind \in Kind
    BY Values, Kinds
  <2> QED
    BY <2>1, Values, Made
<1>3. SendBuffered(e, env, buffer[e]) /\ nextId' = [nextId EXCEPT ![e] = @ + 1]
  BY <1>1 DEF Reply
<1>4. /\ UNCHANGED <<maxReceived, channels, incoming, started, announcing, blocked>>
      /\ UNCHANGED <<sending, transport, resync, left, received, answers>>
  BY <1>1 DEF Reply
<1> HIDE DEF env
<1>5. /\ buffer' \in [End -> Seq(Envelope)] /\ outgoing' \in [End -> Seq(Envelope)]
      /\ sent' \in [End -> Seq([id : Nat, kind : Kind])]
  BY <1>2, <1>3, Buffering
<1>6. nextId' \in [End -> Nat]
  BY <1>3, Drawing
<1> DEFINE R == [re : Nat, kind : {"Request", "Stream"}, item : Nat, call : Nat]
           u == [h EXCEPT !.item = @ + 1]
<1>7. running \in [End -> SUBSET R]
  BY DEF TypeOK
<1>8. u \in R
  <2>1. h \in R
    BY <1>7
  <2> QED
    BY <2>1
<1>9. running' = [running EXCEPT ![e] = running[e] \ {h}]
      \/ running' = [running EXCEPT ![e] = (running[e] \ {h}) \union {u}]
  BY DEF Respond, SendItem, EndOfStream
<1> HIDE DEF R, u
<1>10. running' \in [End -> SUBSET R]
  BY <1>7, <1>8, <1>9
<1> QED
  BY <1>4, <1>5, <1>6, <1>10 DEF TypeOK, channels, transport, resync, R

\* A foreground ping keeps the types.
LEMMA PingTypes == ASSUME TypeOK, Ping PROVE TypeOK'
<1>1. SendNow("client", "Request") /\ left' \in [End -> [AppKind -> Nat]]
  BY DEF Ping, TypeOK
<1> QED
  BY <1>1, SendNowTypes, Kinds

\* Every step keeps the types.
LEMMA TypesStep == TypeOK /\ [Next]_vars => TypeOK'
<1> SUFFICES ASSUME TypeOK, [Next]_vars PROVE TypeOK'
  OBVIOUS
<1>1. CASE UNCHANGED vars
  BY <1>1 DEF TypeOK, vars
<1>2. ASSUME NEW e \in End,
             \/ SendStep(e) \/ Announce(e) \/ ReceiveStep(e) \/ HandlerStep(e) \/ PollStream(e)
             \/ (\E id \in streamChannels[e] : DropStream(e, id)) \/ Transmit(e)
      PROVE  TypeOK'
  BY <1>2, SendStepTypes, MovingTypes, ControlTypes, ResponseTypes, AppTypes, ReplyTypes
     DEF ReceiveStep, HandlerStep
<1>3. CASE Cut \/ LoseOutgoing \/ Detach \/ Accept \/ Reconnect \/ ResyncTimeout
  BY <1>3, TransportTypes
<1>4. CASE Ping \/ Resync
  BY <1>4, PingTypes, ResyncTypes
<1> QED
  BY <1>1, <1>2, <1>3, <1>4 DEF Next

\* TypeOK holds in every state, whatever is sent, however often the connection
\* breaks and however much is on its way.
THEOREM TypeCorrect == Spec => []TypeOK
<1>1. Init => TypeOK
  BY TypesInit
<1>2. TypeOK /\ [Next]_vars => TypeOK'
  BY TypesStep
<1> QED
  BY <1>1, <1>2, PTL DEF Spec

-----------------------------------------------------------------------------
(* What a step does to an end *)

\* At most one id is used, the next one, and what was known of the others stays.
Grows(e) ==
    /\ nextId[e] <= nextId'[e]
    /\ started[e] => started'[e]
    /\ started'[e] => started[e] \/ nextId[e] < nextId'[e]
    /\ Sent(e) \subseteq Sent(e)' /\ Used(e) \subseteq Used(e)'
    /\ \A x \in Used(e)' \ Used(e) :
        x.id = nextId[e] /\ x.id < nextId'[e] /\ (x.kind \in Asked => started[e])
    /\ \A x, y \in Used(e)' \ Used(e) : x = y
    /\ \A s \in sending'[e] \ sending[e] :
        s.env.kind \in AppKind /\ (s.kept => Pair(s.env) \in Sent(e)')
    /\ Received(e) \subseteq Received(e)'
    /\ responseChannels'[e] \subseteq responseChannels[e] \union {nextId[e]}
    /\ streamChannels'[e] \subseteq streamChannels[e] \union {nextId[e]}

\* What gets under way is as it should be.
Delivers(e) == \A m \in Transit(e)' : m \in Transit(e) \/ Right(e, m)'

\* A step that uses no id of an end.
LEMMA Resting ==
    ASSUME TypeOK, NEW e \in End, sent'[e] = sent[e], sending'[e] = sending[e],
           nextId[e] <= nextId'[e],
           started[e] => started'[e], started'[e] => started[e] \/ nextId[e] < nextId'[e],
           Received(e) \subseteq Received(e)',
           responseChannels'[e] \subseteq responseChannels[e] \union {nextId[e]},
           streamChannels'[e] \subseteq streamChannels[e] \union {nextId[e]}
    PROVE  Grows(e) /\ Used(e)' = Used(e)
<1>1. Sent(e)' = Sent(e)
  BY DEF Sent
<1>2. Used(e)' = Used(e)
  BY <1>1 DEF Used
<1> QED
  BY <1>1, <1>2 DEF Grows

\* A step that leaves an end alone.
LEMMA Idle ==
    ASSUME TypeOK, NEW e \in End, sent'[e] = sent[e], sending'[e] = sending[e],
           nextId'[e] = nextId[e], started'[e] = started[e],
           Received(e) \subseteq Received(e)',
           responseChannels'[e] \subseteq responseChannels[e],
           streamChannels'[e] \subseteq streamChannels[e]
    PROVE  Grows(e) /\ Used(e)' = Used(e)
<1>1. nextId[e] <= nextId'[e]
  BY Values
<1> QED
  BY <1>1, Resting

\* A step that uses the next id of an end.
LEMMA Using ==
    ASSUME TypeOK, NEW e \in End, NEW p, p.id = nextId[e], p.kind \in Asked => started[e],
           nextId'[e] = nextId[e] + 1, started'[e] = started[e],
           Sent(e) \subseteq Sent(e)', Used(e)' = Used(e) \union {p},
           \A s \in sending'[e] \ sending[e] :
               s.env.kind \in AppKind /\ (s.kept => Pair(s.env) \in Sent(e)'),
           Received(e) \subseteq Received(e)',
           responseChannels'[e] \subseteq responseChannels[e] \union {nextId[e]},
           streamChannels'[e] \subseteq streamChannels[e] \union {nextId[e]}
    PROVE  Grows(e)
<1>1. nextId[e] <= nextId'[e] /\ nextId[e] < nextId'[e]
  BY Values
<1>2. \A x \in Used(e)' \ Used(e) : x = p
  OBVIOUS
<1> QED
  BY <1>1, <1>2 DEF Grows

\* Sent is what was put into the sequence.
LEMMA Sents == \A e : Sent(e) = Range(sent[e]) /\ Sent(e)' = Range(sent'[e])
BY DEF Sent, Range

\* An envelope that is put into the buffer uses its id.
LEMMA SendingGrows ==
    ASSUME TypeOK, NEW e \in End, NEW env \in Envelope, NEW buf \in Seq(Envelope),
           SendBuffered(e, env, buf), env.id = nextId[e], env.kind \in Asked => started[e],
           nextId' = [nextId EXCEPT ![e] = @ + 1],
           UNCHANGED <<started, sending>>, \A d \in End : Received(d) \subseteq Received(d)',
           Range(buf) \subseteq Range(buffer[e]),
           \A d \in End : Range(incoming'[d]) \subseteq Range(incoming[d]),
           \A d \in End :
               /\ responseChannels'[d] \subseteq
                    IF d = e THEN responseChannels[d] \union {nextId[d]} ELSE responseChannels[d]
               /\ streamChannels'[d] \subseteq
                    IF d = e THEN streamChannels[d] \union {nextId[d]} ELSE streamChannels[d]
    PROVE  /\ \A d \in End : Grows(d) /\ (d # e => Used(d)' = Used(d))
           /\ Used(e)' = Used(e) \union {Pair(env)} /\ Pair(env) \in Sent(e)'
           /\ \A d \in End : \A m \in Transit(d)' : m \in Transit(d) \/ (d = e /\ m = env)
<1>1. /\ Range(buffer'[e]) = Range(buf) \union {env}
      /\ Range(outgoing'[e]) \subseteq Range(outgoing[e]) \union {env}
      /\ Range(sent'[e]) = Range(sent[e]) \union {Pair(env)}
      /\ \A d \in End : d # e => /\ buffer'[d] = buffer[d] /\ outgoing'[d] = outgoing[d]
                                 /\ sent'[d] = sent[d]
  <2>1. TypeOK /\ e \in End /\ env \in Envelope /\ buf \in Seq(Envelope) /\ SendBuffered(e, env, buf)
    OBVIOUS
  <2> QED
    BY ONLY <2>1, Buffering
<1>2. nextId'[e] = nextId[e] + 1 /\ \A d \in End : d # e => nextId'[d] = nextId[d]
  BY Drawing
<1>3. Sent(e)' = Sent(e) \union {Pair(env)}
  BY <1>1, Sents
<1>4. Used(e)' = Used(e) \union {Pair(env)}
  BY <1>3 DEF Used
<1>5. Pair(env).id = nextId[e] /\ Pair(env).kind = env.kind
  BY DEF Pair
<1>6. Grows(e)
  BY <1>2, <1>3, <1>4, <1>5, Using
<1>7. ASSUME NEW d \in End, d # e PROVE Grows(d) /\ Used(d)' = Used(d)
  BY <1>1, <1>2, <1>7, Idle
<1>8. \A d \in End : \A m \in Transit(d)' : m \in Transit(d) \/ (d = e /\ m = env)
  <2>1. \A d \in End : Peer(d) \in End
    BY Kinds
  <2> QED
    BY <1>1, <2>1 DEF Transit
<1> QED
  BY <1>3, <1>4, <1>6, <1>7, <1>8

\* A channel is opened for what the next id is used for.
Opens(e) ==
    /\ \A r \in responseChannels'[e] \ responseChannels[e] :
        /\ r = nextId[e] /\ r < nextId'[e]
        /\ \A x \in Used(e)' \ Used(e) : x.kind \in {"Request", "Unknown"}
    /\ \A r \in streamChannels'[e] \ streamChannels[e] :
        [id |-> r, kind |-> "Stream"] \in Used(e)'

\* A handler runs on, or for a request that has just been dispatched.
Runs(e) ==
    \A h \in running'[e] :
        \/ \E g \in running[e] : g.re = h.re /\ g.kind = h.kind
        \/ h.re \in Received(e)' /\ [id |-> h.re, kind |-> h.kind] \in Used(Peer(e))

Proper == \A e \in End : Grows(e) /\ Delivers(e) /\ Opens(e) /\ Runs(e)

\* A step that sends and handles nothing is proper when what is under way is.
LEMMA Silent ==
    ASSUME TypeOK, UNCHANGED <<sent, sending, nextId, started>>,
           \A e \in End : /\ Received(e) \subseteq Received(e)'
                          /\ responseChannels'[e] \subseteq responseChannels[e]
                          /\ streamChannels'[e] \subseteq streamChannels[e]
                          /\ running'[e] \subseteq running[e]
    PROVE  \A e \in End : Grows(e) /\ Opens(e) /\ Runs(e) /\ Used(e)' = Used(e)
BY Idle DEF Opens, Runs

\* An envelope of an application is right when it was sent.
LEMMA AppRight ==
    ASSUME NEW e, NEW m, m.kind \in AppKind
    PROVE  /\ Pair(m) \in Sent(e) => Right(e, m)
           /\ Pair(m) \in Sent(e)' => Right(e, m)'
<1>1. /\ m.kind \notin ReplyKind /\ m.kind \notin ControlKind
      /\ m.kind # "Ack" /\ m.kind # "RemoteStarted" /\ m.kind # "Flush"
  BY Kinds
<1> QED
  BY <1>1 DEF Right

\* A foreground send is proper.
LEMMA SendNowProper ==
    ASSUME TypeOK, NEW e \in End, NEW k \in AppKind, SendNow(e, k), k # "Message" => started[e]
    PROVE  Proper
<1>0. PICK env : env = Env(nextId[e], k, None, maxReceived[e], 0)
  OBVIOUS
<1>1. /\ env \in Envelope /\ env.id = nextId[e] /\ env.kind = k
  <2>1. nextId[e] \in Nat /\ k \in Kind /\ None \in Id /\ maxReceived[e] \in Id /\ 0 \in Nat
    BY Values, Kinds
  <2> QED
    BY <1>0, <2>1 DEF Env, Envelope
<1>2. SendBuffered(e, env, buffer[e]) /\ Register(e, k, nextId[e])
      /\ nextId' = [nextId EXCEPT ![e] = @ + 1]
      /\ UNCHANGED <<incoming, started, received, sending, running>>
  BY <1>0 DEF SendNow, tasks
<1>3. env.kind \in Asked => started[e]
  BY <1>1 DEF Asked
<1>4. /\ \A d \in End : d # e => responseChannels'[d] = responseChannels[d]
                                 /\ streamChannels'[d] = streamChannels[d]
      /\ responseChannels'[e] = IF k \in {"Request", "Unknown"}
                                THEN responseChannels[e] \union {nextId[e]} ELSE responseChannels[e]
      /\ streamChannels'[e] = IF k = "Stream"
                              THEN streamChannels[e] \union {nextId[e]} ELSE streamChannels[e]
  BY <1>2, Registering
<1>5. buffer[e] \in Seq(Envelope) /\ \A d \in End : Received(d) \subseteq Received(d)'
  BY <1>2, Values DEF Received
<1>6. /\ \A d \in End : Grows(d) /\ (d # e => Used(d)' = Used(d))
      /\ Used(e)' = Used(e) \union {Pair(env)} /\ Pair(env) \in Sent(e)'
      /\ \A d \in End : \A m \in Transit(d)' : m \in Transit(d) \/ (d = e /\ m = env)
  <2>1. \A d \in End :
           /\ responseChannels'[d] \subseteq
                IF d = e THEN responseChannels[d] \union {nextId[d]} ELSE responseChannels[d]
           /\ streamChannels'[d] \subseteq
                IF d = e THEN streamChannels[d] \union {nextId[d]} ELSE streamChannels[d]
    BY <1>4
  <2> QED
    BY <1>1, <1>2, <1>3, <1>5, <2>1, SendingGrows
<1>7. ASSUME NEW d \in End PROVE Delivers(d)
  <2>1. Right(e, env)'
    BY <1>1, <1>6, AppRight
  <2> QED
    BY <1>6, <2>1, Zenon DEF Delivers
<1>8. ASSUME NEW d \in End PROVE Opens(d)
  <2>1. Pair(env) = [id |-> nextId[e], kind |-> k]
    BY <1>1 DEF Pair
  <2>2. nextId[e] < nextId'[e]
    BY <1>2, Drawing, Values
  <2> QED
    BY <1>4, <1>6, <2>1, <2>2 DEF Opens
<1>9. ASSUME NEW d \in End PROVE Runs(d)
  BY <1>2 DEF Runs
<1> QED
  BY <1>6, <1>7, <1>8, <1>9 DEF Proper

\* A send on another thread is proper.
LEMMA SendStepProper ==
    ASSUME TypeOK, Sendings, NEW e \in End, SendStep(e)
    PROVE  Proper
<1>1. ASSUME NEW k \in AppKind, Send(e, k) PROVE Proper
  BY <1>1, SendNowProper DEF Send, MaySend
<1>2. ASSUME NEW k \in AppKind, SendAllocate(e, k) PROVE Proper
  <2> DEFINE s == [env |-> Env(nextId[e], k, None, None, 0), kept |-> FALSE]
             p == [id |-> nextId[e], kind |-> k]
  <2>1. Pair(s.env) = p /\ s.env.kind = k /\ ~ s.kept
    BY DEF Env, Pair
  <2>2. /\ sending' = [sending EXCEPT ![e] = sending[e] \union {s}]
        /\ nextId' = [nextId EXCEPT ![e] = @ + 1] /\ Register(e, k, nextId[e])
        /\ UNCHANGED <<buffer, outgoing, incoming, started, running, sent, received>>
        /\ k # "Message" => started[e]
    BY <1>2 DEF SendAllocate, MaySend
  <2> HIDE DEF s, p
  <2>3. sending \in [End -> SUBSET [env : Envelope, kept : BOOLEAN]]
    BY DEF TypeOK
  <2>4. sending'[e] = sending[e] \union {s} /\ \A d \in End : d # e => sending'[d] = sending[d]
    BY <2>2, <2>3
  <2>5. \A d \in End : Sent(d)' = Sent(d) /\ Received(d)' = Received(d)
    BY <2>2 DEF Sent, Received
  <2>6. Used(e)' = Used(e) \union {p}
    BY <2>1, <2>4, <2>5 DEF Used
  <2>7. nextId'[e] = nextId[e] + 1 /\ \A d \in End : d # e => nextId'[d] = nextId[d]
    BY <2>2, Drawing
  <2>8. /\ \A d \in End : d # e => responseChannels'[d] = responseChannels[d]
                                   /\ streamChannels'[d] = streamChannels[d]
        /\ responseChannels'[e] = IF k \in {"Request", "Unknown"}
                                  THEN responseChannels[e] \union {nextId[e]} ELSE responseChannels[e]
        /\ streamChannels'[e] = IF k = "Stream"
                                THEN streamChannels[e] \union {nextId[e]} ELSE streamChannels[e]
    BY <2>2, Registering
  <2>9. p.id = nextId[e] /\ p.kind = k
    BY DEF p
  <2>10. Grows(e)
    <3>1. p.kind \in Asked => started[e]
      BY <2>2, <2>9 DEF Asked
    <3>2. \A t \in sending'[e] \ sending[e] :
            t.env.kind \in AppKind /\ (t.kept => Pair(t.env) \in Sent(e)')
      BY <2>1, <2>4
    <3> QED
      BY <2>2, <2>5, <2>6, <2>7, <2>8, <2>9, <3>1, <3>2, Using
  <2>11. ASSUME NEW d \in End, d # e PROVE Grows(d) /\ Used(d)' = Used(d)
    BY <2>2, <2>4, <2>5, <2>7, <2>8, <2>11, Idle
  <2>12. \A d \in End : Delivers(d)
    BY <2>2 DEF Delivers, Transit
  <2>13. ASSUME NEW d \in End PROVE Opens(d)
    <3>1. p = [id |-> nextId[e], kind |-> k]
      BY DEF p
    <3>2. nextId[e] < nextId'[e]
      BY <2>7, Values
    <3> QED
      BY <2>6, <2>8, <3>1, <3>2 DEF Opens
  <2>14. \A d \in End : Runs(d)
    BY <2>2 DEF Runs
  <2> QED
    BY <2>10, <2>11, <2>12, <2>13, <2>14 DEF Proper
<1>3. ASSUME NEW s \in sending[e], SendKeep(e, s) PROVE Proper
  <2>0. PICK env : env = [s.env EXCEPT !.ack = maxReceived[e]]
    OBVIOUS
  <2> DEFINE u == [env |-> env, kept |-> TRUE]
  <2>1. s.env \in Envelope /\ s.env.kind \in AppKind
    BY Values DEF Sendings
  <2>2. env.id = s.env.id /\ env.kind = s.env.kind /\ env \in Envelope
    BY <2>0, <2>1, Values DEF Envelope
  <2>3. /\ buffer' = [buffer EXCEPT ![e] = Append(buffer[e], env)]
        /\ sent' = [sent EXCEPT ![e] = Append(sent[e], Pair(env))]
        /\ sending' = [sending EXCEPT ![e] = (sending[e] \ {s}) \union {u}]
        /\ UNCHANGED <<nextId, responseChannels, streamChannels, outgoing, incoming, started,
                       running, received>>
    BY <1>3, <2>0 DEF SendKeep, ids, channels, Pair
  <2>4. u.env = env
    OBVIOUS
  <2> HIDE DEF u
  <2>5. Pair(env) = Pair(s.env) /\ Pair(env) \in [id : Nat, kind : Kind]
    BY <2>1, <2>2 DEF Pair, Envelope
  <2>6. sending'[e] = (sending[e] \ {s}) \union {u} /\ \A d \in End : d # e => sending'[d] = sending[d]
    BY <2>3 DEF TypeOK
  <2>7. sent'[e] = Append(sent[e], Pair(env)) /\ \A d \in End : d # e => sent'[d] = sent[d]
    BY <2>3 DEF TypeOK
  <2>8. Sent(e)' = Sent(e) \union {Pair(env)}
    <3> DEFINE P == [id : Nat, kind : Kind]
    <3>1. sent[e] \in Seq(P) /\ Pair(env) \in P
      BY <2>5, Values
    <3> HIDE DEF P
    <3>2. Range(Append(sent[e], Pair(env))) = Range(sent[e]) \union {Pair(env)}
      BY <3>1, Elements
    <3> QED
      BY <2>7, <3>2, Sents
  <2>9. Used(e)' = Used(e)
    <3>1. Pair(env) \in Used(e)
      BY <2>5 DEF Used
    <3>2. Used(e)' \subseteq Used(e)
      BY <2>4, <2>6, <2>8, <3>1 DEF Used
    <3>3. Used(e) \subseteq Used(e)'
      BY <2>4, <2>5, <2>6, <2>8 DEF Used
    <3> QED
      BY <3>2, <3>3
  <2>10. \A d \in End : Received(d)' = Received(d)
    BY <2>3 DEF Received
  <2>11. Grows(e)
    <3>1. nextId[e] <= nextId'[e]
      BY <2>3, Values
    <3>2. \A t \in sending'[e] \ sending[e] :
            t.env.kind \in AppKind /\ (t.kept => Pair(t.env) \in Sent(e)')
      BY <2>1, <2>2, <2>4, <2>6, <2>8
    <3> QED
      BY <2>3, <2>8, <2>9, <2>10, <3>1, <3>2 DEF Grows
  <2>12. ASSUME NEW d \in End, d # e PROVE Grows(d)
    BY <2>3, <2>6, <2>7, <2>10, <2>12, Idle
  <2>13. ASSUME NEW d \in End PROVE Delivers(d)
    <3>1. Right(e, env)'
      <4>1. Pair(env) \in Sent(e)'
        BY <2>8
      <4> QED
        BY <2>1, <2>2, <4>1, AppRight
    <3>2. /\ Range(buffer'[e]) = Range(buffer[e]) \union {env}
          /\ \A c \in End : c # e => buffer'[c] = buffer[c]
      <4>1. buffer[e] \in Seq(Envelope) /\ buffer \in [End -> Seq(Envelope)]
        BY DEF TypeOK
      <4>2. Range(Append(buffer[e], env)) = Range(buffer[e]) \union {env}
        BY <2>2, <4>1, Elements
      <4> QED
        BY <2>3, <4>1, <4>2
    <3>3. \A m \in Transit(d)' : m \in Transit(d) \/ (d = e /\ m = env)
      BY <2>3, <3>2 DEF Transit
    <3> QED
      BY <3>1, <3>3, Zenon DEF Delivers
  <2>14. \A d \in End : Opens(d) /\ Runs(d)
    BY <2>3 DEF Opens, Runs
  <2> QED
    BY <2>11, <2>12, <2>13, <2>14 DEF Proper
<1>4. ASSUME NEW s \in sending[e], SendEmit(e, s) PROVE Proper
  <2> DEFINE env == s.env
  <2>1. env \in Envelope /\ env.kind \in AppKind /\ Pair(env) \in Sent(e)
    BY <1>4, Values DEF Sendings, SendEmit
  <2>2. /\ Put(e, <<env>>) /\ sending' = [sending EXCEPT ![e] = sending[e] \ {s}]
        /\ UNCHANGED <<nextId, responseChannels, streamChannels, buffer, incoming, started,
                       running, sent, received>>
    BY <1>4 DEF SendEmit, ids, channels, history
  <2>3. \A x \in Used(e) : x \in Sent(e) \/ \E t \in sending[e] : x = Pair(t.env)
    BY DEF Used
  <2> HIDE DEF env
  <2>4. sending'[e] = sending[e] \ {s} /\ \A d \in End : d # e => sending'[d] = sending[d]
    BY <2>2 DEF TypeOK
  <2>5. \A d \in End : Sent(d)' = Sent(d) /\ Received(d)' = Received(d)
    BY <2>2 DEF Sent, Received
  <2>6. Used(e)' = Used(e)
    <3>1. Used(e)' \subseteq Used(e)
      BY <2>4, <2>5 DEF Used
    <3>2. ASSUME NEW x \in Used(e) PROVE x \in Used(e)'
      <4>1. CASE x \in Sent(e)
        BY <2>5, <4>1 DEF Used
      <4>2. ASSUME NEW t \in sending[e], x = Pair(t.env) PROVE x \in Used(e)'
        <5>1. CASE t = s
          BY <2>1, <2>5, <4>2, <5>1 DEF Used, env
        <5>2. CASE t # s
          BY <2>4, <4>2, <5>2 DEF Used
        <5> QED
          BY <5>1, <5>2
      <4> QED
        BY <2>3, <4>1, <4>2
    <3> QED
      BY <3>1, <3>2
  <2>7. Grows(e)
    <3>1. nextId[e] <= nextId'[e]
      BY <2>2, Values
    <3> QED
      BY <2>2, <2>4, <2>5, <2>6, <3>1 DEF Grows
  <2>8. ASSUME NEW d \in End, d # e PROVE Grows(d)
    BY <2>2, <2>4, <2>5, <2>8, Idle
  <2>9. ASSUME NEW d \in End PROVE Delivers(d)
    <3>1. Right(e, env)'
      <4>1. Pair(env) \in Sent(e)'
        BY <2>1, <2>5
      <4> QED
        BY <2>1, <4>1, AppRight
    <3>2. <<env>> \in Seq(Envelope) /\ Range(<<env>>) = {env}
      <4>1. <<env>> \in Seq(Envelope) /\ DOMAIN <<env>> = 1 .. 1 /\ <<env>>[1] = env
        BY <2>1
      <4> QED
        BY <4>1 DEF Range
    <3>3. \A m \in Transit(d)' : m \in Transit(d) \/ (d = e /\ m = env)
      BY <2>2, <3>2, Putting DEF Transit
    <3> QED
      BY <3>1, <3>3, Zenon DEF Delivers
  <2>10. \A d \in End : Opens(d) /\ Runs(d)
    BY <2>2 DEF Opens, Runs
  <2> QED
    BY <2>7, <2>8, <2>9, <2>10 DEF Proper
<1> QED
  BY <1>1, <1>2, <1>3, <1>4 DEF SendStep

\* Queues and buffers that only get shorter deliver nothing new.
LEMMA Shrinking ==
    ASSUME TypeOK,
           \A d \in End : /\ Range(outgoing'[d]) \subseteq Range(outgoing[d])
                          /\ Range(incoming'[d]) \subseteq Range(incoming[d])
                          /\ Range(buffer'[d]) \subseteq Range(buffer[d])
    PROVE  \A d \in End : Delivers(d)
BY Kinds DEF Delivers, Transit

\* The steps of the connection are proper.
LEMMA TransportProper ==
    ASSUME TypeOK, Cut \/ LoseOutgoing \/ Detach \/ Accept \/ Reconnect \/ ResyncTimeout
    PROVE  Proper
<1>1. /\ UNCHANGED <<sent, sending, nextId, started, running, received, responseChannels,
                     streamChannels, buffer>>
  <2>1. CASE Cut
    BY <2>1 DEF Cut, ids, channels, tasks, history
  <2>2. CASE LoseOutgoing
    BY <2>2 DEF LoseOutgoing, ids, channels, tasks, history
  <2>3. CASE Detach
    BY <2>3 DEF Detach, ids, channels, tasks, history
  <2>4. CASE Accept
    BY <2>4 DEF Accept, ids, channels, tasks, history
  <2>5. CASE Reconnect
    BY <2>5 DEF Reconnect, ids, channels, history
  <2>6. CASE ResyncTimeout
    BY <2>6 DEF ResyncTimeout, ids, channels, tasks, history
  <2> QED
    BY <2>1, <2>2, <2>3, <2>4, <2>5, <2>6
<1>2. \A d \in End : Grows(d) /\ Opens(d) /\ Runs(d)
  <2>1. \A d \in End : Received(d) \subseteq Received(d)'
    BY <1>1 DEF Received
  <2> QED
    BY <1>1, <2>1, Silent
<1>3. \A d \in End : /\ Range(outgoing'[d]) \subseteq Range(outgoing[d])
                     /\ Range(incoming'[d]) \subseteq Range(incoming[d])
  <2>1. CASE Break
    BY <2>1, Breaking
  <2>2. CASE LoseOutgoing
    <3>1. /\ Range(Tail(outgoing["server"])) \subseteq Range(outgoing["server"])
          /\ outgoing' = [outgoing EXCEPT !["server"] = Tail(outgoing["server"])]
          /\ incoming' = incoming
      BY <2>2, Values, Elements, Kinds DEF LoseOutgoing
    <3> QED
      BY <3>1 DEF TypeOK
  <2>3. CASE Reconnect
    <3>1. Range(<<>>) = {}
      BY DEF Range
    <3> QED
      BY <2>3, <3>1 DEF Reconnect, TypeOK
  <2>4. CASE UNCHANGED <<outgoing, incoming>>
    BY <2>4
  <2> QED
    BY <2>1, <2>2, <2>3, <2>4 DEF Cut, Detach, Accept, ResyncTimeout
<1>4. \A d \in End : Delivers(d)
  BY <1>1, <1>3, Shrinking
<1> QED
  BY <1>2, <1>4 DEF Proper

\* The request of resync is proper.
LEMMA ResyncProper ==
    ASSUME TypeOK, \A d \in End : Ids(d), Resync
    PROVE  Proper
<1>0. PICK env : env = Env(nextId["client"], "Flush", None, maxReceived["client"], 0)
  OBVIOUS
<1>1. /\ "client" \in End /\ env \in Envelope /\ <<env>> \in Seq(Envelope) /\ Range(<<env>>) = {env}
      /\ env.id = nextId["client"] /\ env.kind = "Flush" /\ env.re = None
  <2>1. /\ "client" \in End /\ nextId["client"] \in Nat /\ "Flush" \in Kind /\ None \in Id
        /\ maxReceived["client"] \in Id /\ 0 \in Nat
    BY Values, Kinds
  <2> QED
    BY <1>0, <2>1, Made
<1>2. /\ nextId' = [nextId EXCEPT !["client"] = @ + 1] /\ Put("client", <<env>>)
      /\ responseChannels' = [responseChannels EXCEPT !["client"] = @ \union {nextId["client"]}]
      /\ UNCHANGED <<sent, sending, started, running, received, streamChannels, buffer, incoming>>
  BY <1>0 DEF Resync, tasks, history
<1>3. /\ nextId'["client"] = nextId["client"] + 1 /\ nextId["client"] < nextId'["client"]
      /\ \A d \in End : d # "client" => nextId'[d] = nextId[d]
  BY <1>1, <1>2, Drawing
<1>4. /\ responseChannels'["client"] = responseChannels["client"] \union {nextId["client"]}
      /\ \A d \in End : d # "client" => responseChannels'[d] = responseChannels[d]
  BY <1>1, <1>2 DEF TypeOK
<1>5. \A d \in End : Received(d) \subseteq Received(d)'
  BY <1>2 DEF Received
<1>6. Grows("client") /\ Used("client")' = Used("client")
  <2>1. nextId["client"] <= nextId'["client"]
    BY <1>1, <1>3, Values
  <2> QED
    BY <1>1, <1>2, <1>4, <1>5, <2>1, Resting
<1>7. ASSUME NEW d \in End, d # "client" PROVE Grows(d) /\ Used(d)' = Used(d)
  BY <1>2, <1>3, <1>4, <1>5, <1>7, Idle
<1>8. ASSUME NEW d \in End PROVE Delivers(d)
  <2>1. Right("client", env)'
    <3>1. \A x \in Used("client")' : x.id # env.id
      <4>1. \A x \in Used("client") : x.id < nextId["client"]
        BY <1>1 DEF Ids
      <4> QED
        BY <1>1, <1>6, <4>1, Values
    <3> QED
      BY <1>1, <1>3, <3>1 DEF Right, ControlKind, ReplyKind
  <2>2. /\ Range(outgoing'["client"]) \subseteq Range(outgoing["client"]) \union {env}
        /\ \A c \in End : c # "client" => outgoing'[c] = outgoing[c]
    BY <1>1, <1>2, Putting
  <2>3. \A m \in Transit(d)' : m \in Transit(d) \/ (d = "client" /\ m = env)
    BY <1>2, <2>2 DEF Transit
  <2> QED
    BY <2>1, <2>3, Zenon DEF Delivers
<1>9. ASSUME NEW d \in End PROVE Opens(d)
  <2>1. streamChannels' = streamChannels
    BY <1>2
  <2> QED
    BY <1>3, <1>4, <1>6, <1>7, <2>1 DEF Opens
<1>10. \A d \in End : Runs(d)
  BY <1>2 DEF Runs
<1> QED
  BY <1>6, <1>7, <1>8, <1>9, <1>10 DEF Proper

\* Handing an envelope over, announcing and polling are proper.
LEMMA MovingProper ==
    ASSUME TypeOK, NEW e \in End,
           \/ Announce(e) \/ Transmit(e) \/ PollStream(e)
           \/ \E id \in streamChannels[e] : DropStream(e, id)
    PROVE  Proper
<1>1. /\ UNCHANGED <<sent, sending, nextId, started, running, received, responseChannels, buffer>>
      /\ \A d \in End : streamChannels'[d] \subseteq streamChannels[d]
  <2>1. CASE Announce(e)
    BY <2>1 DEF Announce, ids, channels, history
  <2>2. CASE Transmit(e)
    BY <2>2 DEF Transmit, ids, channels, tasks, history
  <2>3. CASE PollStream(e)
    BY <2>3 DEF PollStream, ids, channels, history
  <2>4. CASE \E id \in streamChannels[e] : DropStream(e, id)
    BY <2>4 DEF DropStream, ids, history, TypeOK
  <2> QED
    BY <2>1, <2>2, <2>3, <2>4
<1>2. \A d \in End : Grows(d) /\ Opens(d) /\ Runs(d)
  <2>1. \A d \in End : Received(d) \subseteq Received(d)'
    BY <1>1 DEF Received
  <2> QED
    BY <1>1, <2>1, Silent
<1>3. ASSUME NEW d \in End PROVE Delivers(d)
  <2>1. CASE Announce(e)
    <3>0. PICK env : env = Env(0, "RemoteStarted", None, None, 0)
      OBVIOUS
    <3>1. /\ env \in Envelope /\ <<env>> \in Seq(Envelope) /\ Range(<<env>>) = {env}
          /\ env.id = 0 /\ env.kind = "RemoteStarted" /\ env.re = None
      <4>1. "RemoteStarted" \in Kind /\ None \in Id /\ 0 \in Nat
        BY Kinds
      <4>2. env \in Envelope /\ env.id = 0 /\ env.kind = "RemoteStarted" /\ env.re = None
        BY <3>0, <4>1 DEF Env, Envelope
      <4> QED
        BY <3>0, <4>1, <4>2, Made
    <3>2. Put(e, <<env>>) /\ incoming' = incoming
      BY <2>1, <3>0 DEF Announce
    <3>3. Right(e, env)'
      BY <3>1 DEF Right, ControlKind, ReplyKind
    <3>4. /\ Range(outgoing'[e]) \subseteq Range(outgoing[e]) \union {env}
          /\ \A c \in End : c # e => outgoing'[c] = outgoing[c]
      BY <3>1, <3>2, Putting
    <3>5. \A m \in Transit(d)' : m \in Transit(d) \/ (d = e /\ m = env)
      BY <1>1, <3>2, <3>4 DEF Transit
    <3> QED
      BY <3>3, <3>5, Zenon DEF Delivers
  <2>2. CASE Transmit(e)
    <3>1. /\ outgoing[e] \in Seq(Envelope) /\ outgoing[e] # <<>> /\ Peer(e) \in End
          /\ incoming[Peer(e)] \in Seq(Envelope)
      BY <2>2, Values, Kinds DEF Transmit
    <3>2. /\ Head(outgoing[e]) \in Envelope /\ Head(outgoing[e]) \in Range(outgoing[e])
          /\ Range(Tail(outgoing[e])) \subseteq Range(outgoing[e])
      BY <3>1, Elements
    <3>3. Range(Append(incoming[Peer(e)], Head(outgoing[e])))
             = Range(incoming[Peer(e)]) \union {Head(outgoing[e])}
      BY <3>1, <3>2, Elements
    <3>4. /\ Range(outgoing'[e]) \subseteq Range(outgoing[e])
          /\ \A c \in End : c # e => outgoing'[c] = outgoing[c]
      BY <2>2, <3>2 DEF Transmit, TypeOK
    <3>5. /\ Range(incoming'[Peer(e)]) \subseteq Range(incoming[Peer(e)]) \union Range(outgoing[e])
          /\ \A c \in End : c # Peer(e) => incoming'[c] = incoming[c]
      BY <2>2, <3>1, <3>2, <3>3 DEF Transmit, TypeOK
    <3>6. Transit(d)' \subseteq Transit(d)
      <4>1. CASE d = e
        BY <1>1, <3>4, <3>5, <4>1 DEF Transit
      <4>2. CASE d # e
        <5>1. Peer(d) # Peer(e) /\ Peer(d) \in End
          BY <4>2, Kinds
        <5> QED
          BY <1>1, <3>4, <3>5, <4>2, <5>1 DEF Transit
      <4> QED
        BY <4>1, <4>2
    <3> QED
      BY <3>6 DEF Delivers
  <2>3. CASE PollStream(e) \/ \E id \in streamChannels[e] : DropStream(e, id)
    BY <2>3 DEF Delivers, Transit, PollStream, DropStream
  <2> QED
    BY <2>1, <2>2, <2>3
<1> QED
  BY <1>2, <1>3 DEF Proper

\* An acknowledged control message is answered with an Ack of its own.
LEMMA ControlProper ==
    ASSUME TypeOK, NEW e \in End, \A d \in End : Ids(d) /\ Envelopes(d),
           HandleFlush(e) \/ HandleRemoteStarted(e)
    PROVE  Proper
<1>0. PICK m : m = Head(incoming[e])
  OBVIOUS
<1>1. CanReceive(e) /\ nextId' = [nextId EXCEPT ![e] = @ + 1]
  BY DEF HandleFlush, HandleRemoteStarted, DrawId
<1>2. m.id \in Nat /\ m \in Range(incoming[e]) /\ m.kind \in {"Flush", "RemoteStarted"}
  BY <1>0, <1>1, Receiving DEF HandleFlush, HandleRemoteStarted
<1>3. PICK ack : ack = Env(nextId[e], "Ack", m.id, None, 0)
  OBVIOUS
<1>4. /\ ack \in Envelope /\ <<ack>> \in Seq(Envelope) /\ Range(<<ack>>) = {ack}
      /\ ack.kind = "Ack" /\ ack.re = m.id
  <2>1. nextId[e] \in Nat /\ "Ack" \in Kind /\ m.id \in Id /\ None \in Id /\ 0 \in Nat
    BY <1>2, Values, Kinds
  <2> QED
    BY <1>3, <2>1, Made
<1>5. PICK buf : /\ Receive(e, buf) /\ buffer' = [buffer EXCEPT ![e] = buf]
                 /\ Put(e, Append(buf, ack)) \/ Put(e, <<ack>>)
  BY <1>0, <1>3 DEF HandleFlush, HandleRemoteStarted, Resend
<1>6. /\ buf \in Seq(Envelope) /\ buffer'[e] = buf /\ Range(buf) \subseteq Range(buffer[e])
      /\ \A d \in End : d # e => buffer'[d] = buffer[d]
      /\ \A d \in End : Range(incoming'[d]) \subseteq Range(incoming[d])
  BY <1>5, Keeping
<1>7. /\ Range(outgoing'[e]) \subseteq Range(outgoing[e]) \union Range(buf) \union {ack}
      /\ \A d \in End : d # e => outgoing'[d] = outgoing[d]
  <2>1. Append(buf, ack) \in Seq(Envelope) /\ Range(Append(buf, ack)) = Range(buf) \union {ack}
    BY <1>4, <1>6, Elements
  <2>2. CASE Put(e, Append(buf, ack))
    BY <2>1, <2>2, Putting
  <2>3. CASE Put(e, <<ack>>)
    BY <1>4, <2>3, Putting
  <2> QED
    BY <1>5, <2>2, <2>3
<1>8. /\ nextId[e] < nextId'[e] /\ nextId[e] <= nextId'[e]
      /\ \A d \in End : d # e => nextId'[d] = nextId[d]
  <2>1. nextId'[e] = nextId[e] + 1 /\ nextId[e] < nextId'[e]
        /\ \A d \in End : d # e => nextId'[d] = nextId[d]
    BY <1>1, Drawing
  <2> QED
    BY <2>1, Values
<1>9. UNCHANGED <<responseChannels, streamChannels, running, sending, sent, received>>
  BY DEF HandleFlush, HandleRemoteStarted, channels, tasks, history
<1>10. /\ \A d \in End : d # e => started'[d] = started[d]
       /\ started[e] => started'[e]
  BY DEF HandleFlush, HandleRemoteStarted, TypeOK
<1>11. \A d \in End : Received(d) \subseteq Received(d)'
  BY <1>9 DEF Received
<1>12. Grows(e) /\ Used(e)' = Used(e)
  BY <1>8, <1>9, <1>10, <1>11, Resting
<1>13. ASSUME NEW d \in End, d # e PROVE Grows(d) /\ Used(d)' = Used(d)
  BY <1>8, <1>9, <1>10, <1>11, <1>13, Idle
<1>14. Right(e, ack)'
  <2>1. /\ Peer(e) \in End /\ m \in Transit(Peer(e)) /\ Peer(Peer(e)) = e /\ Peer(e) # e
    BY <1>2, Kinds DEF Transit
  <2>2. Right(Peer(e), m)
    BY <2>1 DEF Envelopes
  <2>3. Used(Peer(e))' = Used(Peer(e)) /\ nextId'[Peer(e)] = nextId[Peer(e)]
    BY <1>8, <1>13, <2>1
  <2>4. /\ m.id = 0 \/ m.id < nextId[Peer(e)]
        /\ \A x \in Used(Peer(e)) : x.id = m.id => x.kind \notin Asked
    <3>1. CASE m.kind = "Flush"
      BY <2>2, <3>1 DEF Right
    <3>2. CASE m.kind = "RemoteStarted"
      <4>1. m.id = 0
        BY <2>2, <3>2 DEF Right
      <4>2. \A x \in Used(Peer(e)) : x.kind \in Asked => x.id > 0
        BY <2>1 DEF Ids
      <4> QED
        BY <4>1, <4>2
    <3> QED
      BY <1>2, <3>1, <3>2
  <2>5. ack.re = 0 \/ ack.re < nextId'[Peer(e)]
    BY <1>4, <2>3, <2>4
  <2>6. \A x \in Used(Peer(e))' : x.id = ack.re => x.kind \notin Asked
    BY <1>4, <2>3, <2>4
  <2> QED
    BY <1>2, <1>4, <2>5, <2>6 DEF Right, ControlKind, ReplyKind
<1>15. ASSUME NEW d \in End PROVE Delivers(d)
  <2>1. \A x \in Transit(d)' : x \in Transit(d) \/ (d = e /\ x = ack)
    BY <1>6, <1>7, Kinds DEF Transit
  <2> QED
    BY <1>14, <2>1, Zenon DEF Delivers
<1>16. \A d \in End : Opens(d) /\ Runs(d)
  BY <1>9 DEF Opens, Runs
<1> QED
  BY <1>12, <1>13, <1>15, <1>16 DEF Proper

\* Handling a response is proper.
LEMMA ResponseProper ==
    ASSUME TypeOK, NEW e \in End, HandleFlushed(e) \/ HandleResponse(e)
    PROVE  Proper
<1>1. /\ CanReceive(e) /\ Dispatch(e, Head(incoming[e]))
      /\ responseChannels' = [responseChannels EXCEPT ![e] = Taken(e, Head(incoming[e]).re)]
  BY DEF HandleFlushed, HandleResponse
<1>2. PICK buf : Receive(e, buf) /\ buffer' = [buffer EXCEPT ![e] = buf]
                 /\ (Put(e, buf) \/ UNCHANGED outgoing)
  BY DEF HandleFlushed, HandleResponse, Resend
<1>3. /\ buf \in Seq(Envelope) /\ buffer'[e] = buf /\ Range(buf) \subseteq Range(buffer[e])
      /\ \A d \in End : d # e => buffer'[d] = buffer[d]
      /\ \A d \in End : Range(incoming'[d]) \subseteq Range(incoming[d])
  BY <1>2, Keeping
<1>4. /\ Range(outgoing'[e]) \subseteq Range(outgoing[e]) \union Range(buf)
      /\ \A d \in End : d # e => outgoing'[d] = outgoing[d]
  <2>1. CASE Put(e, buf)
    BY <1>3, <2>1, Putting
  <2>2. CASE UNCHANGED outgoing
    BY <2>2
  <2> QED
    BY <1>2, <2>1, <2>2
<1>5. /\ UNCHANGED <<nextId, started, running, sending, sent>>
      /\ \A d \in End : streamChannels'[d] \subseteq streamChannels[d]
  <2>1. CASE HandleFlushed(e)
    BY <2>1 DEF HandleFlushed, tasks
  <2>2. CASE HandleResponse(e)
    BY <2>2 DEF HandleResponse, TypeOK
  <2> QED
    BY <2>1, <2>2
<1>6. \A d \in End : responseChannels'[d] \subseteq responseChannels[d]
  BY <1>1 DEF TypeOK, Taken
<1>7. \A d \in End : Received(d) \subseteq Received(d)'
  BY <1>1, Receiving, Dispatching
<1>8. \A d \in End : Grows(d) /\ Opens(d) /\ Runs(d)
  BY <1>5, <1>6, <1>7, Silent
<1>9. \A d \in End : Transit(d)' \subseteq Transit(d)
  BY <1>3, <1>4, Kinds DEF Transit
<1> QED
  BY <1>8, <1>9 DEF Proper, Delivers

\* Starting a handler is proper.
LEMMA MessageProper ==
    ASSUME TypeOK, NEW e \in End, \A d \in End : Envelopes(d), HandleMessage(e)
    PROVE  Proper
<1>0. PICK m : m = Head(incoming[e])
  OBVIOUS
<1>1. CanReceive(e) /\ Dispatch(e, m) /\ m.kind \in AppKind
  BY <1>0 DEF HandleMessage
<1>2. m.id \in Nat /\ m \in Range(incoming[e]) /\ m.kind # "Ack"
  BY <1>0, <1>1, Receiving DEF AppKind
<1>3. PICK buf : Receive(e, buf) /\ buffer' = [buffer EXCEPT ![e] = buf]
  BY DEF HandleMessage
<1>4. UNCHANGED <<nextId, responseChannels, streamChannels, outgoing, started, sending, sent>>
  BY DEF HandleMessage, channels
<1>5. /\ m.id \in Received(e)' /\ \A d \in End : Received(d) \subseteq Received(d)'
  BY <1>1, <1>2, Dispatching
<1>6. Pair(m) \in Used(Peer(e))
  <2>1. m \in Transit(Peer(e)) /\ Peer(e) \in End
    BY <1>2, Kinds DEF Transit
  <2> QED
    BY <1>1, <2>1, Kinds DEF Envelopes, Right, Used
<1>7. ASSUME NEW d \in End PROVE Grows(d)
  BY <1>4, <1>5, <1>7, Idle
<1>8. ASSUME NEW d \in End PROVE Delivers(d)
  <2>1. Transit(d)' \subseteq Transit(d)
    BY <1>3, <1>4, Keeping, Kinds DEF Transit
  <2> QED
    BY <2>1 DEF Delivers
<1>9. ASSUME NEW d \in End PROVE Opens(d) /\ Runs(d)
  <2> DEFINE new == [re |-> m.id, kind |-> m.kind, item |-> 0, call |-> Len(received[e]) + 1]
  <2>1. running' = running \/ running' = [running EXCEPT ![e] = running[e] \union {new}]
    BY <1>0 DEF HandleMessage
  <2>2. new.re = m.id /\ new.kind = m.kind
    OBVIOUS
  <2> HIDE DEF new
  <2>3. \A h \in running'[d] : h \in running[d] \/ (d = e /\ h = new)
    <3>1. DOMAIN running = End
      BY DEF TypeOK
    <3> QED
      BY ONLY <2>1, <3>1, d \in End, e \in End
  <2>4. ASSUME NEW h \in running'[d], d = e, h = new
        PROVE  h.re \in Received(d)' /\ [id |-> h.re, kind |-> h.kind] \in Used(Peer(d))
    BY <1>5, <1>6, <2>2, <2>4 DEF Pair
  <2>5. Runs(d)
    BY <2>3, <2>4 DEF Runs
  <2> QED
    BY <1>4, <2>5 DEF Opens
<1> QED
  BY <1>7, <1>8, <1>9 DEF Proper

\* The error for a request without a handler is proper.
LEMMA UnknownProper ==
    ASSUME TypeOK, NEW e \in End, \A d \in End : Envelopes(d), HandleUnknown(e)
    PROVE  Proper
<1>0. PICK asked : asked = Head(incoming[e])
  OBVIOUS
<1>1. CanReceive(e) /\ Dispatch(e, asked) /\ asked.kind = "Unknown"
  BY <1>0 DEF HandleUnknown
<1>2. asked.id \in Nat /\ asked \in Range(incoming[e])
  BY <1>0, <1>1, Receiving
<1>3. PICK env : env = Env(nextId[e], "Response", asked.id, asked.id, 0)
  OBVIOUS
<1>4. /\ env \in Envelope /\ env.kind = "Response" /\ env.re = asked.id /\ env.id = nextId[e]
  <2>1. nextId[e] \in Nat /\ "Response" \in Kind /\ asked.id \in Id /\ 0 \in Nat
    BY <1>2, Values, Kinds
  <2> QED
    BY <1>3, <2>1 DEF Env, Envelope
<1>5. PICK buf : Receive(e, buf) /\ SendBuffered(e, env, buf)
  BY <1>0, <1>3 DEF HandleUnknown
<1>6. /\ buf \in Seq(Envelope) /\ Range(buf) \subseteq Range(buffer[e])
      /\ \A d \in End : Range(incoming'[d]) \subseteq Range(incoming[d])
  <2>1. buf \in Unacknowledged(e, Head(incoming[e]).ack)
    BY <1>5 DEF Receive
  <2> QED
    BY <1>1, <1>5, <2>1, Receiving
<1>7. /\ UNCHANGED <<responseChannels, streamChannels, started, running, sending>>
      /\ nextId' = [nextId EXCEPT ![e] = @ + 1]
  BY DEF HandleUnknown, channels, tasks
<1>8. asked.id \in Received(e)' /\ \A d \in End : Received(d) \subseteq Received(d)'
  BY <1>1, <1>2, Dispatching
<1>9. /\ \A d \in End : Grows(d) /\ (d # e => Used(d)' = Used(d))
      /\ \A d \in End : \A x \in Transit(d)' : x \in Transit(d) \/ (d = e /\ x = env)
      /\ Pair(env) \in Sent(e)'
  <2>1. env.kind \notin Asked
    BY <1>4 DEF Asked
  <2>2. SendBuffered(e, env, buf) /\ UNCHANGED <<started, sending>>
    BY <1>5, <1>7
  <2>3. /\ buf \in Seq(Envelope) /\ nextId' = [nextId EXCEPT ![e] = @ + 1]
        /\ responseChannels' = responseChannels /\ streamChannels' = streamChannels
        /\ \A d \in End : Received(d) \subseteq Received(d)'
    BY <1>6, <1>7, <1>8
  <2>4. \A d \in End :
           /\ responseChannels'[d] \subseteq
                IF d = e THEN responseChannels[d] \union {nextId[d]} ELSE responseChannels[d]
           /\ streamChannels'[d] \subseteq
                IF d = e THEN streamChannels[d] \union {nextId[d]} ELSE streamChannels[d]
    BY <2>3
  <2>5. env \in Envelope /\ env.id = nextId[e]
    BY <1>4
  <2> QED
    BY <1>6, <2>1, <2>2, <2>3, <2>4, <2>5, SendingGrows
<1>10. ASSUME NEW d \in End PROVE Delivers(d)
  <2>1. Right(e, env)'
    <3>1. asked \in Transit(Peer(e)) /\ Peer(e) \in End /\ Peer(e) # e
      BY <1>2, Kinds DEF Transit
    <3>2. Pair(asked) \in Used(Peer(e))
      BY <1>1, <3>1 DEF Envelopes, Right, ControlKind, Used
    <3>3. Pair(asked) \in Used(Peer(e))' /\ Pair(asked).id = asked.id /\ Pair(asked).kind = "Unknown"
      BY <1>1, <1>9, <3>1, <3>2 DEF Pair
    <3> QED
      BY <1>4, <1>8, <1>9, <3>3 DEF Right, ControlKind
  <2> QED
    BY <1>9, <2>1, Zenon DEF Delivers
<1>11. \A d \in End : Opens(d) /\ Runs(d)
  BY <1>7 DEF Opens, Runs
<1> QED
  BY <1>9, <1>10, <1>11 DEF Proper

\* Replying is proper.
LEMMA ReplyProper ==
    ASSUME TypeOK, \A d \in End : Handlers(d), NEW e \in End, NEW h \in running[e],
           Respond(e, h) \/ SendItem(e, h) \/ EndOfStream(e, h)
    PROVE  Proper
<1>1. PICK kind \in ReplyKind, item \in Nat :
        /\ Reply(e, kind, h.re, item)
        /\ h.kind \in (IF kind = "Response" THEN {"Request"} ELSE {"Stream"})
  <2>1. h.item + 1 \in Nat /\ 0 \in Nat
    BY Values
  <2> QED
    BY <2>1, Kinds DEF Respond, SendItem, EndOfStream
<1>2. PICK env : env = Env(nextId[e], kind, h.re, maxReceived[e], item)
  OBVIOUS
<1>3. /\ env \in Envelope /\ buffer[e] \in Seq(Envelope) /\ env.kind = kind /\ env.re = h.re
      /\ env.id = nextId[e]
  <2>1. /\ h.re \in Id /\ kind \in Kind /\ nextId[e] \in Nat /\ maxReceived[e] \in Id
        /\ buffer[e] \in Seq(Envelope)
    BY Values, Kinds
  <2> QED
    BY <1>2, <2>1 DEF Env, Envelope
<1>4. /\ SendBuffered(e, env, buffer[e]) /\ nextId' = [nextId EXCEPT ![e] = @ + 1]
      /\ UNCHANGED <<responseChannels, streamChannels, incoming, started, sending, received>>
  BY <1>1, <1>2 DEF Reply, channels
<1>5. \A d \in End : Received(d)' = Received(d)
  BY <1>4 DEF Received
<1>6. /\ \A d \in End : Grows(d) /\ (d # e => Used(d)' = Used(d))
      /\ \A d \in End : \A x \in Transit(d)' : x \in Transit(d) \/ (d = e /\ x = env)
      /\ Pair(env) \in Sent(e)'
  <2>1. env.kind \notin Asked
    BY <1>3 DEF Asked, ReplyKind
  <2> QED
    BY <1>3, <1>4, <1>5, <2>1, SendingGrows
<1>7. ASSUME NEW d \in End PROVE Delivers(d)
  <2>1. Right(e, env)'
    <3> DEFINE x == [id |-> h.re, kind |-> h.kind]
    <3>1. h.re \in Received(e) /\ x \in Used(Peer(e)) /\ Peer(e) \in End /\ Peer(e) # e
      BY Kinds DEF Handlers
    <3>2. h.re \in Received(e)' /\ x \in Used(Peer(e))'
      BY <1>5, <1>6, <3>1
    <3>3. /\ x.id = env.re
          /\ x.kind \in (IF env.kind = "Response" THEN {"Request", "Unknown"} ELSE {"Stream"})
      BY <1>1, <1>3
    <3> HIDE DEF x
    <3> QED
      BY <1>3, <1>6, <3>2, <3>3 DEF Right, ControlKind, ReplyKind
  <2> QED
    BY <1>6, <2>1, Zenon DEF Delivers
<1>8. ASSUME NEW d \in End PROVE Runs(d)
  <2> DEFINE u == [h EXCEPT !.item = @ + 1]
             R == [re : Nat, kind : {"Request", "Stream"}, item : Nat, call : Nat]
  <2>1. running \in [End -> SUBSET R]
    BY DEF TypeOK
  <2>2. h \in R
    BY <2>1
  <2>3. u.re = h.re /\ u.kind = h.kind
    BY <2>2
  <2>4. running' = [running EXCEPT ![e] = running[e] \ {h}]
        \/ running' = [running EXCEPT ![e] = (running[e] \ {h}) \union {u}]
    BY DEF Respond, SendItem, EndOfStream
  <2> HIDE DEF u, R
  <2>5. \A g \in running'[d] : g \in running[d] \/ (d = e /\ g = u)
    BY <2>1, <2>4
  <2> QED
    BY <2>3, <2>5 DEF Runs
<1>9. \A d \in End : Opens(d)
  BY <1>4 DEF Opens
<1> QED
  BY <1>6, <1>7, <1>8, <1>9 DEF Proper

\* Every step is proper.
LEMMA EveryStepIsProper ==
    ASSUME TypeOK, Sendings, \A d \in End : Ids(d) /\ Handlers(d) /\ Envelopes(d), [Next]_vars
    PROVE  Proper
<1>1. CASE UNCHANGED vars
  <2>1. \A d \in End : Received(d)' = Received(d) /\ Transit(d)' = Transit(d)
    BY <1>1 DEF Received, Transit, vars
  <2>2. \A d \in End : Grows(d) /\ Opens(d) /\ Runs(d)
    BY <1>1, <2>1, Silent DEF vars
  <2> QED
    BY <2>1, <2>2 DEF Proper, Delivers
<1>2. ASSUME NEW e \in End,
             \/ SendStep(e) \/ Announce(e) \/ ReceiveStep(e) \/ HandlerStep(e) \/ PollStream(e)
             \/ (\E id \in streamChannels[e] : DropStream(e, id)) \/ Transmit(e)
      PROVE  Proper
  BY <1>2, SendStepProper, MovingProper, ControlProper, ResponseProper, MessageProper,
     UnknownProper, ReplyProper DEF ReceiveStep, HandlerStep
<1>3. CASE Cut \/ LoseOutgoing \/ Detach \/ Accept \/ Reconnect \/ ResyncTimeout
  BY <1>3, TransportProper
<1>4. CASE Ping
  <2>1. SendNow("client", "Request") /\ started["client"]
    BY <1>4 DEF Ping
  <2> QED
    BY <2>1, SendNowProper, Kinds
<1>5. CASE Resync
  BY <1>5, ResyncProper
<1> QED
  BY <1>1, <1>2, <1>3, <1>4, <1>5 DEF Next

-----------------------------------------------------------------------------
(* The invariant *)

\* The ids an end has used are naturals.
LEMMA UsedTypes == ASSUME TypeOK, NEW e \in End PROVE \A x \in Used(e) : x.id \in Nat
<1>1. ASSUME NEW x \in Sent(e) PROVE x.id \in Nat
  <2> DEFINE P == [id : Nat, kind : Kind]
  <2>1. sent[e] \in Seq(P)
    BY Values
  <2>2. Range(sent[e]) \subseteq P
    <3> HIDE DEF P
    <3> QED
      BY <2>1, Elements
  <2> QED
    BY <2>2, Sents
<1>2. ASSUME NEW s \in sending[e] PROVE Pair(s.env).id \in Nat
  BY Values DEF Pair, Envelope
<1> QED
  BY <1>1, <1>2 DEF Used

\* An id is used for one kind of envelope.
LEMMA IdsStep ==
    ASSUME TypeOK, TypeOK', NEW e \in End, Ids(e), Grows(e)
    PROVE  Ids(e)'
<1>1. nextId[e] \in Nat /\ nextId'[e] \in Nat
  BY DEF TypeOK
<1>2. \A x \in Used(e) : x.id \in Nat /\ x.id < nextId[e] /\ (x.kind \in Asked => x.id > 0)
  BY UsedTypes DEF Ids
<1>3. \A x \in Used(e)' : x \in Used(e)
        \/ (x.id = nextId[e] /\ x.id < nextId'[e] /\ (x.kind \in Asked => started[e]))
  BY DEF Grows
<1>4. started[e] => nextId[e] > 0
  BY DEF Ids
<1>5. ASSUME NEW x \in Used(e)' PROVE x.id < nextId'[e] /\ (x.kind \in Asked => x.id > 0)
  BY <1>1, <1>2, <1>3, <1>4 DEF Grows
<1>6. ASSUME NEW x \in Used(e)', NEW y \in Used(e)', x.id = y.id PROVE x.kind = y.kind
  <2>1. CASE x \in Used(e) /\ y \in Used(e)
    BY <1>6, <2>1 DEF Ids
  <2>2. CASE x \notin Used(e) /\ y \notin Used(e)
    BY <2>2 DEF Grows
  <2>3. CASE x \in Used(e) /\ y \notin Used(e)
    BY <1>1, <1>2, <1>3, <1>6, <2>3
  <2>4. CASE x \notin Used(e) /\ y \in Used(e)
    BY <1>1, <1>2, <1>3, <1>6, <2>4
  <2> QED
    BY <2>1, <2>2, <2>3, <2>4
<1>7. started'[e] => nextId'[e] > 0
  BY <1>1, <1>4 DEF Grows
<1> QED
  BY <1>5, <1>6, <1>7 DEF Ids

\* What was right stays so: the ids used later are new ones.
LEMMA StaysRight ==
    ASSUME TypeOK, TypeOK', \A d \in End : Ids(d) /\ Grows(d), NEW e \in End, NEW m, Right(e, m),
           m.id \in Nat
    PROVE  Right(e, m)'
<1>1. /\ Peer(e) \in End /\ Sent(e) \subseteq Sent(e)' /\ Used(Peer(e)) \subseteq Used(Peer(e))'
      /\ Received(e) \subseteq Received(e)'
  BY Kinds DEF Grows
<1>2. m.kind \notin ControlKind => Pair(m) \in Sent(e)'
  BY <1>1 DEF Right
<1>3. m.kind \in ReplyKind =>
        /\ m.re \in Received(e)'
        /\ \E x \in Used(Peer(e))' :
            x.id = m.re /\ x.kind \in (IF m.kind = "Response" THEN {"Request", "Unknown"} ELSE {"Stream"})
  BY <1>1 DEF Right
<1>4. ASSUME m.kind = "Ack"
      PROVE  /\ m.re \in Nat /\ (m.re = 0 \/ m.re < nextId'[Peer(e)])
             /\ \A x \in Used(Peer(e))' : x.id = m.re => x.kind \notin Asked
  <2>1. /\ m.re \in Nat /\ (m.re = 0 \/ m.re < nextId[Peer(e)])
        /\ \A x \in Used(Peer(e)) : x.id = m.re => x.kind \notin Asked
    BY <1>4 DEF Right
  <2>2. /\ nextId[Peer(e)] \in Nat /\ nextId'[Peer(e)] \in Nat
        /\ nextId[Peer(e)] <= nextId'[Peer(e)] /\ (started[Peer(e)] => nextId[Peer(e)] > 0)
    BY <1>1 DEF TypeOK, Grows, Ids
  <2>3. ASSUME NEW x \in Used(Peer(e))', x.id = m.re, x.kind \in Asked PROVE FALSE
    <3>1. CASE x \in Used(Peer(e))
      BY <2>1, <2>3, <3>1
    <3>2. CASE x \notin Used(Peer(e))
      <4>1. x.id = nextId[Peer(e)] /\ started[Peer(e)]
        BY <1>1, <2>3, <3>2 DEF Grows
      <4> QED
        BY <2>1, <2>2, <2>3, <4>1
    <3> QED
      BY <3>1, <3>2
  <2> QED
    BY <2>1, <2>2, <2>3
<1>5. ASSUME m.kind = "Flush"
      PROVE  m.re = None /\ m.id < nextId'[e] /\ \A x \in Used(e)' : x.id # m.id
  <2>1. m.re = None /\ m.id < nextId[e] /\ \A x \in Used(e) : x.id # m.id
    BY <1>5 DEF Right
  <2>2. nextId[e] \in Nat /\ nextId'[e] \in Nat /\ nextId[e] <= nextId'[e]
    BY DEF TypeOK, Grows
  <2>3. \A x \in Used(e)' : x \in Used(e) \/ x.id = nextId[e]
    BY DEF Grows
  <2> QED
    BY <2>1, <2>2, <2>3
<1>6. m.kind = "RemoteStarted" => m.id = 0 /\ m.re = None
  BY DEF Right
<1> QED
  BY <1>2, <1>3, <1>4, <1>5, <1>6 DEF Right

\* What is under way, waited for or handled stays so.
LEMMA EnvelopesStep ==
    ASSUME TypeOK, TypeOK', \A d \in End : Ids(d) /\ Envelopes(d), Proper, NEW e \in End
    PROVE  Envelopes(e)'
<1>1. ASSUME NEW m \in Transit(e)' PROVE Right(e, m)'
  <2>1. CASE m \in Transit(e)
    <3>1. m \in Envelope
      <4>1. Range(outgoing[e]) \subseteq Envelope /\ Range(buffer[e]) \subseteq Envelope
            /\ Range(incoming[Peer(e)]) \subseteq Envelope
        BY Values, Elements, Kinds
      <4> QED
        BY <2>1, <4>1 DEF Transit
    <3> QED
      BY <2>1, <3>1, StaysRight DEF Envelopes, Envelope, Proper
  <2>2. CASE m \notin Transit(e)
    BY <2>2 DEF Proper, Delivers
  <2> QED
    BY <2>1, <2>2
<1> QED
  BY <1>1 DEF Envelopes

\* A handler that runs has a request that was dispatched.
LEMMA HandlersStep ==
    ASSUME Proper, NEW e \in End, Handlers(e)
    PROVE  Handlers(e)'
<1>1. /\ Received(e) \subseteq Received(e)' /\ Used(Peer(e)) \subseteq Used(Peer(e))' /\ Runs(e)
  BY Kinds DEF Proper, Grows
<1>2. ASSUME NEW h \in running'[e]
      PROVE  h.re \in Received(e)' /\ [id |-> h.re, kind |-> h.kind] \in Used(Peer(e))'
  <2>1. CASE \E g \in running[e] : g.re = h.re /\ g.kind = h.kind
    BY <1>1, <2>1 DEF Handlers
  <2>2. CASE h.re \in Received(e)' /\ [id |-> h.re, kind |-> h.kind] \in Used(Peer(e))
    BY <1>1, <2>2
  <2> QED
    BY <1>1, <2>1, <2>2 DEF Runs
<1> QED
  BY <1>2 DEF Handlers

\* A channel waits for an answer to what it was opened for.
LEMMA ChannelsStep ==
    ASSUME TypeOK, TypeOK', NEW e \in End, Ids(e), Channels(e), Proper
    PROVE  Channels(e)'
<1>1. Grows(e) /\ Opens(e) /\ nextId[e] \in Nat /\ nextId'[e] \in Nat /\ responseChannels[e] \subseteq Nat
  BY DEF Proper, TypeOK
<1>2. \A x \in Used(e)' : x \in Used(e) \/ x.id = nextId[e]
  BY <1>1 DEF Grows
<1>3. \A x \in Used(e) : x.id < nextId[e] /\ x.id \in Nat
  BY UsedTypes DEF Ids
<1>4. ASSUME NEW r \in responseChannels'[e]
      PROVE  r < nextId'[e] /\ \A x \in Used(e)' : x.id = r => x.kind \in {"Request", "Unknown"}
  <2>1. CASE r \in responseChannels[e]
    BY <1>1, <1>2, <2>1 DEF Channels, Grows
  <2>2. CASE r \notin responseChannels[e]
    <3>1. /\ r = nextId[e] /\ r < nextId'[e]
          /\ \A x \in Used(e)' \ Used(e) : x.kind \in {"Request", "Unknown"}
      BY <1>1, <2>2 DEF Opens
    <3> QED
      BY <1>1, <1>3, <3>1
  <2> QED
    BY <2>1, <2>2
<1>5. ASSUME NEW r \in streamChannels'[e] PROVE [id |-> r, kind |-> "Stream"] \in Used(e)'
  BY <1>1 DEF Channels, Opens, Grows
<1> QED
  BY <1>4, <1>5 DEF Channels

\* An answer that was given stays so.
LEMMA StaysGiven ==
    ASSUME TypeOK, TypeOK', NEW e \in End, \A d \in End : Grows(d), NEW a, Given(e, a)
    PROVE  Given(e, a)'
<1>1. nextId[e] \in Nat /\ nextId'[e] \in Nat /\ nextId[e] <= nextId'[e]
  BY DEF TypeOK, Grows
<1>2. a.re \in Nat /\ a.re < nextId[e] /\ a.re < nextId'[e] /\ a.re # nextId[e]
  BY <1>1 DEF Given
<1>3. a.re \notin responseChannels'[e] /\ (a.kind # "Item" => a.re \notin streamChannels'[e])
  BY <1>2 DEF Given, Grows
<1>4. \/ a.kind \in ReplyKind /\ a.re \in Received(Peer(e))'
      \/ \A x \in Used(e)' : x.id # a.re
  <2>1. CASE a.kind \in ReplyKind /\ a.re \in Received(Peer(e))
    BY <2>1, Kinds DEF Grows
  <2>2. CASE \A x \in Used(e) : x.id # a.re
    BY <1>2, <2>2 DEF Grows
  <2> QED
    BY <2>1, <2>2 DEF Given
<1> QED
  BY <1>2, <1>3, <1>4 DEF Given

\* What a channel gets is what it waits for, and no other waits for it afterwards.
LEMMA Answered ==
    ASSUME Inv, TypeOK', Proper, NEW e \in End, HandleResponse(e), NEW m, m = Head(incoming[e]),
           m.re \in responseChannels[e] \/ m.re \in streamChannels[e]
    PROVE  /\ Given(e, Answer(m))' /\ Answer(m).re = m.re /\ Answer(m).kind = m.kind
           /\ \A a : Given(e, a) /\ a.re = m.re => a.kind = "Item"
<1>1. /\ TypeOK /\ Ids(e) /\ Channels(e) /\ AllGiven(e)
      /\ Peer(e) \in End /\ Peer(Peer(e)) = e
      /\ \A x \in Used(e) : x.id \in Nat
  BY UsedTypes, Kinds DEF Inv
<1>2. /\ CanReceive(e) /\ m.kind \in ReplyKind \union {"Ack"}
      /\ responseChannels' = [responseChannels EXCEPT ![e] = responseChannels[e] \ {m.re}]
      /\ streamChannels' =
            IF m.re \notin responseChannels[e] /\ m.re \in streamChannels[e] /\ m.kind = "EndStream"
            THEN [streamChannels EXCEPT ![e] = @ \ {m.re}] ELSE streamChannels
  BY DEF HandleResponse, Taken
<1>3. Right(Peer(e), m)
  <2>1. m \in Transit(Peer(e))
    BY <1>1, <1>2, Receiving DEF Transit
  <2> QED
    BY <1>1, <2>1 DEF Inv, Envelopes
<1>4. /\ responseChannels[e] \subseteq Nat /\ streamChannels[e] \subseteq Nat
      /\ nextId[e] \in Nat /\ nextId'[e] \in Nat /\ nextId[e] <= nextId'[e]
  <2>1. responseChannels[e] \subseteq Nat /\ streamChannels[e] \subseteq Nat /\ nextId[e] \in Nat
    BY <1>1, Values
  <2>2. nextId' \in [End -> Nat]
    BY DEF TypeOK
  <2>3. nextId[e] <= nextId'[e]
    BY DEF Proper, Grows
  <2> QED
    BY <2>1, <2>2, <2>3
<1>5. /\ responseChannels'[e] = responseChannels[e] \ {m.re}
      /\ streamChannels'[e] \subseteq streamChannels[e]
      /\ m.re \notin responseChannels[e] /\ m.kind = "EndStream" => m.re \notin streamChannels'[e]
  BY <1>1, <1>2 DEF TypeOK
<1>6. \A x \in Used(e) : \A y \in Used(e) : x.id = y.id => x.kind = y.kind
  BY <1>1 DEF Ids
<1>7. m.re \in streamChannels[e] => m.re \notin responseChannels[e] /\ m.kind \in {"Item", "EndStream"}
  <2>1. SUFFICES ASSUME m.re \in streamChannels[e]
                 PROVE  m.re \notin responseChannels[e] /\ m.kind \in {"Item", "EndStream"}
    OBVIOUS
  <2> DEFINE y == [id |-> m.re, kind |-> "Stream"]
  <2>2. y \in Used(e) /\ y.id = m.re /\ y.kind = "Stream"
    BY <1>1, <2>1 DEF Channels
  <2> HIDE DEF y
  <2>3. m.re \notin responseChannels[e]
    BY <1>1, <2>2 DEF Channels
  <2>4. m.kind # "Ack"
    BY <1>1, <1>3, <2>2 DEF Right, Asked
  <2>5. m.kind # "Response"
    <3>1. SUFFICES ASSUME m.kind = "Response" PROVE FALSE
      OBVIOUS
    <3>2. PICK x \in Used(e) : x.id = m.re /\ x.kind \in {"Request", "Unknown"}
      BY <1>1, <1>3, <3>1 DEF Right, ReplyKind
    <3> QED
      BY <1>6, <2>2, <3>2
  <2> QED
    BY <1>2, <2>3, <2>4, <2>5 DEF ReplyKind
<1>8. Answer(m).re = m.re /\ Answer(m).kind = m.kind
  BY DEF Answer
<1>9. m.re \in Nat /\ m.re < nextId[e] /\ m.re < nextId'[e]
  <2>1. CASE m.re \in responseChannels[e]
    BY <1>1, <1>4, <2>1 DEF Channels
  <2>2. CASE m.re \in streamChannels[e]
    <3> DEFINE y == [id |-> m.re, kind |-> "Stream"]
    <3>1. y \in Used(e) /\ y.id = m.re
      BY <1>1, <2>2 DEF Channels
    <3> HIDE DEF y
    <3>2. m.re < nextId[e]
      BY <1>1, <3>1 DEF Ids
    <3> QED
      BY <1>4, <2>2, <3>2
  <2> QED
    BY <2>1, <2>2
<1>10. m.re \notin responseChannels'[e] /\ (m.kind # "Item" => m.re \notin streamChannels'[e])
  BY <1>5, <1>7
<1>11. \/ m.kind \in ReplyKind /\ m.re \in Received(Peer(e))'
       \/ \A x \in Used(e)' : x.id # m.re
  <2>1. CASE m.kind \in ReplyKind
    BY <1>1, <1>3, <2>1 DEF Right, Proper, Grows
  <2>2. CASE m.kind = "Ack"
    <3>1. m.re \in responseChannels[e]
      BY <1>7, <2>2
    <3>2. \A x \in Used(e) : x.id # m.re
      BY <1>1, <1>3, <2>2, <3>1 DEF Right, Channels, Asked
    <3>3. \A x \in Used(e)' : x \in Used(e) \/ x.id = nextId[e]
      BY DEF Proper, Grows
    <3> QED
      BY <1>4, <1>9, <3>2, <3>3
  <2> QED
    BY <1>2, <2>1, <2>2
<1>12. Given(e, Answer(m))'
  BY <1>8, <1>9, <1>10, <1>11 DEF Given
<1>13. ASSUME NEW a, Given(e, a), a.re = m.re PROVE a.kind = "Item"
  BY <1>13 DEF Given
<1> QED
  BY <1>8, <1>12, <1>13

\* Answers are given by HandleResponse only.
LEMMA AnswersChange ==
    ASSUME [Next]_vars
    PROVE  answers' = answers \/ \E e \in End : HandleResponse(e)
<1>1. CASE UNCHANGED vars
  BY <1>1 DEF vars
<1>2. ASSUME NEW e \in End, SendStep(e) PROVE answers' = answers
  BY <1>2 DEF SendStep, Send, SendNow, SendAllocate, SendKeep, SendEmit, history
<1>3. ASSUME NEW e \in End, Announce(e) PROVE answers' = answers
  BY <1>3 DEF Announce, history
<1>4. ASSUME NEW e \in End, ReceiveStep(e) PROVE answers' = answers \/ HandleResponse(e)
  BY <1>4 DEF ReceiveStep, HandleFlush, HandleRemoteStarted, HandleFlushed, HandleMessage,
              HandleUnknown, history
<1>5. ASSUME NEW e \in End, HandlerStep(e) PROVE answers' = answers
  BY <1>5 DEF HandlerStep, Respond, SendItem, EndOfStream, Reply
<1>6. ASSUME NEW e \in End, PollStream(e) \/ \E id \in streamChannels[e] : DropStream(e, id)
      PROVE  answers' = answers
  BY <1>6 DEF PollStream, DropStream, history
<1>7. ASSUME NEW e \in End, Transmit(e) PROVE answers' = answers
  BY <1>7 DEF Transmit, history
<1>8. CASE Cut \/ LoseOutgoing \/ Detach \/ Accept
  BY <1>8 DEF Cut, LoseOutgoing, Detach, Accept, history
<1>9. CASE Ping \/ Reconnect \/ Resync \/ ResyncTimeout
  BY <1>9 DEF Ping, SendNow, Reconnect, Resync, ResyncTimeout, history
<1> QED
  BY <1>1, <1>2, <1>3, <1>4, <1>5, <1>6, <1>7, <1>8, <1>9 DEF Next

\* The answers of an end are as before, or one more that the channel waited for.
LEMMA Answering ==
    ASSUME Inv, TypeOK', Proper, [Next]_vars, NEW e \in End
    PROVE  \/ answers'[e] = answers[e]
           \/ \E a : /\ a \in [re : Id, kind : Kind, item : Nat]
                     /\ answers'[e] = Append(answers[e], a) /\ Given(e, a)'
                     /\ \A b : Given(e, b) /\ b.re = a.re => b.kind = "Item"
<1>1. CASE answers' = answers
  BY <1>1
<1>2. ASSUME NEW d \in End, HandleResponse(d)
      PROVE  \/ answers'[e] = answers[e]
             \/ \E a : /\ a \in [re : Id, kind : Kind, item : Nat]
                       /\ answers'[e] = Append(answers[e], a) /\ Given(e, a)'
                       /\ \A b : Given(e, b) /\ b.re = a.re => b.kind = "Item"
  <2>0. PICK m : m = Head(incoming[d])
    OBVIOUS
  <2> DEFINE A == [re : Id, kind : Kind, item : Nat]
  <2>1. TypeOK /\ answers \in [End -> Seq(A)] /\ CanReceive(d)
    BY <1>2 DEF Inv, TypeOK, HandleResponse
  <2>2. answers' = answers
        \/ /\ m.re \in responseChannels[d] \/ m.re \in streamChannels[d]
           /\ answers' = [answers EXCEPT ![d] = Append(answers[d], Answer(m))]
    BY <1>2, <2>0 DEF HandleResponse
  <2>3. Answer(m) \in A
    BY <2>0, <2>1, Receiving DEF Answer
  <2> HIDE DEF A
  <2>4. CASE answers' = answers \/ d # e
    BY <2>1, <2>2, <2>4
  <2>5. CASE d = e /\ answers' # answers
    <3>1. /\ m.re \in responseChannels[e] \/ m.re \in streamChannels[e]
          /\ answers'[e] = Append(answers[e], Answer(m))
      BY <2>1, <2>2, <2>5
    <3>2. PICK a : a = Answer(m)
      OBVIOUS
    <3>3. Given(e, a)' /\ a.re = m.re /\ \A b : Given(e, b) /\ b.re = m.re => b.kind = "Item"
      BY <1>2, <2>0, <2>5, <3>1, <3>2, Answered
    <3>4. a \in A /\ answers'[e] = Append(answers[e], a)
      BY <2>3, <3>1, <3>2
    <3> QED
      BY <3>3, <3>4 DEF A
  <2> QED
    BY <2>4, <2>5
<1> QED
  BY <1>1, <1>2, AnswersChange

\* AnsweredOnce for one end.
Once(e) ==
    \A i, j \in DOMAIN answers[e] :
        i < j /\ answers[e][i].re = answers[e][j].re => answers[e][i].kind = "Item"

\* Every answer was given by its channel, and the last one for its request.
LEMMA AnswersStep ==
    ASSUME Inv, TypeOK', Proper, [Next]_vars, NEW e \in End
    PROVE  AllGiven(e)' /\ (Once(e) => Once(e)')
<1>1. TypeOK /\ AllGiven(e) /\ \A d \in End : Grows(d)
  BY DEF Inv, Proper
<1>2. ASSUME NEW i \in DOMAIN answers[e] PROVE Given(e, answers[e][i])
  BY <1>1 DEF AllGiven
<1>3. ASSUME NEW a, Given(e, a) PROVE Given(e, a)'
  BY <1>1, <1>3, StaysGiven
<1>4. CASE answers'[e] = answers[e]
  <2>1. ASSUME NEW i \in DOMAIN answers'[e] PROVE Given(e, answers[e][i])'
    BY <1>2, <1>3, <1>4
  <2> QED
    BY <1>4, <2>1 DEF AllGiven, Once
<1>5. ASSUME NEW a, a \in [re : Id, kind : Kind, item : Nat], answers'[e] = Append(answers[e], a),
             Given(e, a)', \A b : Given(e, b) /\ b.re = a.re => b.kind = "Item"
      PROVE  AllGiven(e)' /\ (Once(e) => Once(e)')
  <2> DEFINE A == [re : Id, kind : Kind, item : Nat]
  <2>1. PICK s \in Seq(A) : s = answers[e]
    BY <1>1, Values
  <2>2. PICK t : t = answers'[e]
    OBVIOUS
  <2>3. a \in A
    BY <1>5
  <2> HIDE DEF A
  <2>4. Len(s) \in Nat /\ DOMAIN s = 1 .. Len(s)
    BY <2>1, LenProperties
  <2>5. /\ t \in Seq(A) /\ Len(t) = Len(s) + 1
        /\ \A i \in 1 .. Len(s) : t[i] = s[i]
        /\ t[Len(s) + 1] = a
    BY <1>5, <2>1, <2>2, <2>3, AppendProperties
  <2>6. DOMAIN t = 1 .. (Len(s) + 1)
    BY <2>5, LenProperties
  <2>7. \A i \in DOMAIN t : (i \in DOMAIN s /\ t[i] = s[i]) \/ (i = Len(s) + 1 /\ t[i] = a)
    BY <2>4, <2>5, <2>6
  <2>8. ASSUME NEW i \in DOMAIN t PROVE Given(e, t[i])'
    <3>1. PICK b : b = t[i]
      OBVIOUS
    <3>2. CASE b = a
      BY <1>5, <3>1, <3>2
    <3>3. CASE i \in DOMAIN s /\ b = s[i]
      BY <1>2, <1>3, <2>1, <3>1, <3>3
    <3> QED
      BY <2>7, <3>1, <3>2, <3>3
  <2>9. AllGiven(e)'
    BY <2>2, <2>8 DEF AllGiven
  <2>10. ASSUME Once(e), NEW i \in DOMAIN t, NEW j \in DOMAIN t, i < j, t[i].re = t[j].re
         PROVE  t[i].kind = "Item"
    <3>1. i \in DOMAIN s /\ t[i] = s[i]
      BY <2>4, <2>6, <2>7, <2>10
    <3>2. CASE j \in DOMAIN s /\ t[j] = s[j]
      BY <2>1, <2>10, <3>1, <3>2 DEF Once
    <3>3. CASE t[j] = a
      BY <1>2, <1>5, <2>1, <2>10, <3>1, <3>3
    <3> QED
      BY <2>7, <3>2, <3>3
  <2>11. Once(e) => Once(e)'
    BY <2>2, <2>10 DEF Once
  <2> QED
    BY <2>9, <2>11
<1> QED
  BY <1>4, <1>5, Answering

\* The invariant holds at first.
LEMMA InvInit == Init => Inv /\ \A e \in End : Once(e)
<1> SUFFICES ASSUME Init PROVE Inv /\ \A e \in End : Once(e)
  OBVIOUS
<1>1. /\ TypeOK
      /\ \A e \in End : /\ sent[e] = <<>> /\ sending[e] = {} /\ outgoing[e] = <<>>
                        /\ incoming[e] = <<>> /\ buffer[e] = <<>> /\ running[e] = {}
                        /\ responseChannels[e] = {} /\ streamChannels[e] = {}
                        /\ answers[e] = <<>> /\ ~ started[e]
  BY TypesInit DEF Init
<1>2. Range(<<>>) = {} /\ DOMAIN <<>> = {}
  BY DEF Range
<1>3. ASSUME NEW e \in End PROVE Used(e) = {} /\ Transit(e) = {}
  <2>1. Peer(e) \in End
    BY Kinds
  <2> QED
    BY <1>1, <1>2, <2>1, Sents DEF Used, Transit
<1>4. Sendings
  BY <1>1 DEF Sendings
<1>5. ASSUME NEW e \in End
      PROVE  /\ Ids(e) /\ Handlers(e) /\ Envelopes(e) /\ Channels(e)
             /\ AllGiven(e) /\ Once(e)
  <2>1. Ids(e)
    BY <1>1, <1>3 DEF Ids
  <2>2. Handlers(e) /\ Envelopes(e) /\ Channels(e)
    BY <1>1, <1>3 DEF Handlers, Envelopes, Channels
  <2>3. AllGiven(e) /\ Once(e)
    BY <1>1, <1>2 DEF AllGiven, Once
  <2> QED
    BY <2>1, <2>2, <2>3
<1> QED
  BY <1>1, <1>4, <1>5 DEF Inv

\* Every step keeps it.
LEMMA InvStep == Inv /\ [Next]_vars => Inv' /\ \A e \in End : Once(e) => Once(e)'
<1> SUFFICES ASSUME Inv, [Next]_vars PROVE Inv' /\ \A e \in End : Once(e) => Once(e)'
  OBVIOUS
<1>1. /\ TypeOK /\ Sendings
      /\ \A e \in End : Ids(e) /\ Handlers(e) /\ Envelopes(e) /\ Channels(e) /\ AllGiven(e)
  BY DEF Inv
<1>2. TypeOK'
  BY <1>1, TypesStep
<1>3. Proper
  BY <1>1, EveryStepIsProper
<1>4. Sendings'
  <2>1. ASSUME NEW e \in End, NEW s \in sending'[e]
        PROVE  s.env.kind \in AppKind /\ (s.kept => Pair(s.env) \in Sent(e)')
    <3>1. CASE s \in sending[e]
      BY <1>1, <1>3, <3>1 DEF Sendings, Proper, Grows
    <3>2. CASE s \notin sending[e]
      BY <1>3, <2>1, <3>2 DEF Proper, Grows
    <3> QED
      BY <3>1, <3>2
  <2> QED
    BY <2>1 DEF Sendings
<1>5. ASSUME NEW e \in End
      PROVE  /\ Ids(e)' /\ Handlers(e)' /\ Envelopes(e)' /\ Channels(e)'
             /\ AllGiven(e)' /\ (Once(e) => Once(e)')
  <2>1. Ids(e)'
    BY <1>1, <1>2, <1>3, IdsStep DEF Proper
  <2>2. Handlers(e)' /\ Channels(e)'
    BY <1>1, <1>2, <1>3, HandlersStep, ChannelsStep
  <2>3. Envelopes(e)'
    BY <1>1, <1>2, <1>3, EnvelopesStep
  <2>4. AllGiven(e)' /\ (Once(e) => Once(e)')
    BY <1>2, <1>3, AnswersStep
  <2> QED
    BY <2>1, <2>2, <2>3, <2>4
<1> QED
  BY <1>2, <1>4, <1>5 DEF Inv

\* A requester gets one response at most, and a stream nothing after its end, for
\* any connections: a response takes the channel out of response_channels, and a
\* resent request that is answered again finds it gone.
THEOREM AnsweredOnceHolds == Spec => []AnsweredOnce
<1> DEFINE OnceInv == Inv /\ \A e \in End : Once(e)
<1>1. Init => OnceInv
  BY InvInit
<1>2. OnceInv /\ [Next]_vars => OnceInv'
  BY InvStep
<1>3. OnceInv => AnsweredOnce
  BY DEF Once, AnsweredOnce
<1> QED
  BY <1>1, <1>2, <1>3, PTL DEF Spec

\* What a requester gets was sent by a handler of the other end, which had
\* dispatched the request, and no Ack of a control message ever passes for it.
THEOREM AnswersAreGenuineHolds == Spec => []AnswersAreGenuine
<1>1. Init => Inv
  BY InvInit
<1>2. Inv /\ [Next]_vars => Inv'
  BY InvStep
<1>3. Inv => AnswersAreGenuine
  <2> SUFFICES ASSUME Inv, NEW e \in End, NEW a \in Answers(e), a.re \in IdsOf(sent[e])
               PROVE  a.kind \in ReplyKind /\ a.re \in Received(Peer(e))
    BY DEF AnswersAreGenuine
  <2>1. Given(e, a)
    BY DEF Inv, AllGiven, Answers
  <2>2. \E x \in Used(e) : x.id = a.re
    BY DEF IdsOf, Used, Sent
  <2> QED
    BY <2>1, <2>2 DEF Given
<1> QED
  BY <1>1, <1>2, <1>3, PTL DEF Spec

-----------------------------------------------------------------------------
(* Delivery, step by step *)

\* A step is one end's, as far as what was sent and dispatched is concerned, and
\* what it dispatches comes from its queue.
LEMMA OneEndActs ==
    ASSUME TypeOK, [Next]_vars
    PROVE  \E e \in End :
            /\ \A d \in End : d # e => sent'[d] = sent[d] /\ received'[d] = received[d]
            /\ \/ received' = received
               \/ \E m : /\ CanReceive(e) /\ m = Head(incoming[e]) /\ Dispatch(e, m)
                         /\ m.kind = "Ack" \/ m.kind \notin ControlKind \/ m.re # None
<1> DEFINE Acts(e) ==
            /\ \A d \in End : d # e => sent'[d] = sent[d] /\ received'[d] = received[d]
            /\ \/ received' = received
               \/ \E m : /\ CanReceive(e) /\ m = Head(incoming[e]) /\ Dispatch(e, m)
                         /\ m.kind = "Ack" \/ m.kind \notin ControlKind \/ m.re # None
<1>1. ASSUME UNCHANGED <<sent, received>> PROVE Acts("client") /\ "client" \in End
  BY <1>1 DEF End
<1>2. ASSUME UNCHANGED vars PROVE \E e \in End : Acts(e)
  BY <1>1, <1>2 DEF vars
<1>3. ASSUME NEW e \in End,
             \/ Announce(e) \/ PollStream(e) \/ Transmit(e) \/ HandleFlush(e) \/ HandleRemoteStarted(e)
             \/ \E id \in streamChannels[e] : DropStream(e, id)
      PROVE  UNCHANGED <<sent, received>>
  BY <1>3 DEF Announce, PollStream, Transmit, HandleFlush, HandleRemoteStarted, DropStream, history
<1>4. ASSUME Cut \/ LoseOutgoing \/ Detach \/ Accept \/ Reconnect \/ Resync \/ ResyncTimeout
      PROVE  \E e \in End : Acts(e)
  <2>1. UNCHANGED <<sent, received>>
    BY <1>4 DEF Cut, LoseOutgoing, Detach, Accept, Reconnect, Resync, ResyncTimeout, history
  <2> QED
    BY <1>1, <2>1
<1>5. ASSUME NEW e \in End, NEW S,
             sent' = [sent EXCEPT ![e] = S] \/ sent' = sent, received' = received
      PROVE  Acts(e)
  BY <1>5 DEF TypeOK
<1>6. ASSUME NEW e \in End, SendStep(e) PROVE Acts(e)
  <2>1. received' = received
    BY <1>6 DEF SendStep, Send, SendNow, SendAllocate, SendKeep, SendEmit, history
  <2>2. sent' = sent \/ \E S : sent' = [sent EXCEPT ![e] = S]
    BY <1>6 DEF SendStep, Send, SendNow, SendBuffered, SendAllocate, SendKeep, SendEmit, history
  <2> QED
    BY <1>5, <2>1, <2>2
<1>7. ASSUME NEW e \in End, HandlerStep(e) PROVE Acts(e)
  <2>1. received' = received /\ \E S : sent' = [sent EXCEPT ![e] = S]
    BY <1>7 DEF HandlerStep, Respond, SendItem, EndOfStream, Reply, SendBuffered
  <2> QED
    BY <1>5, <2>1
<1>8. ASSUME Ping PROVE \E e \in End : Acts(e)
  <2>1. received' = received /\ \E S : sent' = [sent EXCEPT !["client"] = S]
    BY <1>8 DEF Ping, SendNow, SendBuffered
  <2> QED
    BY <1>5, <2>1 DEF End
<1>9. ASSUME NEW e \in End,
             HandleFlushed(e) \/ HandleResponse(e) \/ HandleMessage(e) \/ HandleUnknown(e)
      PROVE  Acts(e)
  <2>0. PICK m : m = Head(incoming[e])
    OBVIOUS
  <2>1. CanReceive(e) /\ Dispatch(e, m)
    BY <1>9, <2>0 DEF HandleFlushed, HandleResponse, HandleMessage, HandleUnknown
  <2>2. m.kind = "Ack" \/ m.kind \notin ControlKind \/ m.re # None
    BY <1>9, <2>0
       DEF HandleFlushed, HandleResponse, HandleMessage, HandleUnknown, AppKind, ReplyKind, ControlKind
  <2>3. sent' = sent \/ \E S : sent' = [sent EXCEPT ![e] = S]
    BY <1>9 DEF HandleFlushed, HandleResponse, HandleMessage, HandleUnknown, SendBuffered
  <2>4. \A d \in End : d # e => sent'[d] = sent[d] /\ received'[d] = received[d]
    BY <2>1, <2>3 DEF TypeOK, Dispatch
  <2> QED
    BY <2>0, <2>1, <2>2, <2>4
<1> HIDE DEF Acts
<1>10. ASSUME NEW e \in End,
              \/ SendStep(e) \/ Announce(e) \/ ReceiveStep(e) \/ HandlerStep(e) \/ PollStream(e)
              \/ (\E id \in streamChannels[e] : DropStream(e, id)) \/ Transmit(e)
       PROVE  \E d \in End : Acts(d)
  BY <1>1, <1>3, <1>6, <1>7, <1>9, <1>10 DEF ReceiveStep
<1>11. \E e \in End : Acts(e)
  BY <1>1, <1>2, <1>4, <1>8, <1>10, Kinds DEF Next
<1> QED
  BY <1>11 DEF Acts

\* The two ends take no step that AtLeastOnce has not: what an end dispatches was
\* sent by the other, whatever was cut, resent or acknowledged in between.
THEOREM DeliveryStepByStep ==
    Spec => /\ Promise!Init
            /\ [][Promise!Next]_<<[e \in End |-> IdsOf(sent[e])], [e \in End |-> Received(e)]>>
<1> DEFINE S == [e \in End |-> IdsOf(sent[e])]
           H == [e \in End |-> Received(e)]
<1>1. Init => Promise!Init
  BY DEF Init, Promise!Init, IdsOf, Received
<1>2. Init => Inv
  BY InvInit
<1>3. Inv /\ [Next]_vars => Inv'
  BY InvStep
<1>4. Inv /\ [Next]_vars => [Promise!Next]_<<S, H>>
  <2> SUFFICES ASSUME Inv, [Next]_vars PROVE Promise!Next
    OBVIOUS
  <2>1. TypeOK /\ Proper
    BY EveryStepIsProper DEF Inv
  <2>2. PICK e \in End :
            /\ \A d \in End : d # e => sent'[d] = sent[d] /\ received'[d] = received[d]
            /\ \/ received' = received
               \/ \E m : /\ CanReceive(e) /\ m = Head(incoming[e]) /\ Dispatch(e, m)
                         /\ m.kind = "Ack" \/ m.kind \notin ControlKind \/ m.re # None
    BY <2>1, OneEndActs
  <2>3. \A d \in End : IdsOf(sent[d]) = {x.id : x \in Sent(d)} /\ IdsOf(sent[d])' = {x.id : x \in Sent(d)'}
    BY DEF IdsOf, Sent
  <2>4. \A d \in End : IdsOf(sent[d]) \subseteq IdsOf(sent[d])'
    <3>1. ASSUME NEW d \in End PROVE IdsOf(sent[d]) \subseteq IdsOf(sent[d])'
      <4>1. Sent(d) \subseteq Sent(d)'
        BY <2>1 DEF Proper, Grows
      <4> QED
        BY <2>3, <4>1
    <3> QED
      BY <3>1
  <2>5. Received(e)' \ Received(e) \subseteq IdsOf(sent[Peer(e)])
    <3>1. CASE received' = received
      BY <3>1 DEF Received
    <3>2. ASSUME NEW m, CanReceive(e), m = Head(incoming[e]), Dispatch(e, m),
                 m.kind = "Ack" \/ m.kind \notin ControlKind \/ m.re # None
          PROVE  Received(e)' \ Received(e) \subseteq IdsOf(sent[Peer(e)])
      <4>1. m \in Transit(Peer(e)) /\ Peer(e) \in End
        BY <2>1, <3>2, Receiving, Kinds DEF Transit
      <4>2. Right(Peer(e), m)
        BY <4>1 DEF Inv, Envelopes
      <4>3. m.kind # "Ack" => m.id \in IdsOf(sent[Peer(e)])
        <5>1. SUFFICES ASSUME m.kind # "Ack" PROVE Pair(m) \in Sent(Peer(e))
          BY <2>3, <4>1 DEF Pair
        <5> QED
          BY <3>2, <4>2, <5>1 DEF Right, ControlKind
      <4>4. m.id \in Nat
        BY <2>1, <3>2, Receiving
      <4>5. Received(e)' \subseteq Received(e) \union (IF m.kind = "Ack" THEN {} ELSE {m.id})
        BY <2>1, <3>2, <4>4, Dispatching
      <4> QED
        BY <4>3, <4>5
    <3> QED
      BY <2>2, <3>1, <3>2
  <2>6. \A d \in End : d # e => IdsOf(sent[d])' = IdsOf(sent[d]) /\ Received(d)' = Received(d)
    BY <2>2 DEF IdsOf, Received
  <2>7. Received(e) \subseteq Received(e)'
    BY <2>1 DEF Proper, Grows
  <2> DEFINE New == Received(e)' \ Received(e)
  <2>8. New \in SUBSET (S[Peer(e)] \ H[e])
    BY <2>5, Kinds
  <2>9. H' = [H EXCEPT ![e] = @ \union New]
    BY <2>6, <2>7
  <2>10. /\ \A d \in End : S[d] \subseteq S'[d] /\ (d # e => S'[d] = S[d])
         /\ DOMAIN S' = End
    BY <2>4, <2>6
  <2> HIDE DEF New, S, H
  <2>11. Promise!Step(e)
    BY <2>8, <2>9, <2>10 DEF Promise!Step, S, H
  <2> QED
    BY <2>11 DEF Promise!Next
<1> QED
  BY <1>1, <1>2, <1>3, <1>4, PTL DEF Spec

-----------------------------------------------------------------------------
(* Nothing is lost over one cut *)

\* What is in two queues, one behind the other.
LEMMA Joined ==
    ASSUME NEW S, NEW s \in Seq(S), NEW t \in Seq(S)
    PROVE  /\ s \o t \in Seq(S) /\ Len(s) \in Nat /\ Len(t) \in Nat /\ Len(s \o t) = Len(s) + Len(t)
           /\ DOMAIN (s \o t) = 1 .. (Len(s) + Len(t))
           /\ \A i \in 1 .. Len(s) : (s \o t)[i] = s[i]
           /\ \A i \in 1 .. Len(t) : (s \o t)[Len(s) + i] = t[i]
           /\ \A i \in 1 .. (Len(s) + Len(t)) :
                i \in 1 .. Len(s) \/ \E j \in 1 .. Len(t) : i = Len(s) + j
<1>1. /\ s \o t \in Seq(S) /\ Len(s \o t) = Len(s) + Len(t)
      /\ \A i \in 1 .. Len(s) + Len(t) : (s \o t)[i] = IF i <= Len(s) THEN s[i] ELSE t[i - Len(s)]
  BY ConcatProperties
<1>2. Len(s) \in Nat /\ Len(t) \in Nat
  BY LenProperties
<1>3. DOMAIN (s \o t) = 1 .. (Len(s) + Len(t))
  BY <1>1, LenProperties
<1>4. ASSUME NEW i \in 1 .. Len(s) PROVE (s \o t)[i] = s[i]
  <2>1. i \in 1 .. Len(s) + Len(t) /\ i <= Len(s)
    BY <1>2
  <2> QED
    BY <1>1, <2>1
<1>5. ASSUME NEW i \in 1 .. Len(t) PROVE (s \o t)[Len(s) + i] = t[i]
  <2>1. Len(s) + i \in 1 .. Len(s) + Len(t) /\ ~ (Len(s) + i <= Len(s)) /\ (Len(s) + i) - Len(s) = i
    BY <1>2
  <2> QED
    BY <1>1, <2>1
<1>6. ASSUME NEW i \in 1 .. (Len(s) + Len(t)), i \notin 1 .. Len(s)
      PROVE  \E j \in 1 .. Len(t) : i = Len(s) + j
  <2>1. i - Len(s) \in 1 .. Len(t) /\ i = Len(s) + (i - Len(s))
    BY <1>2, <1>6
  <2> QED
    BY <2>1
<1> QED
  BY <1>1, <1>2, <1>3, <1>4, <1>5, <1>6

\* The first of two queues is not empty: it gives the next element.
LEMMA NextOfTwo ==
    ASSUME NEW S, NEW s \in Seq(S), NEW t \in Seq(S), s # <<>>
    PROVE  s \o t # <<>> /\ Head(s \o t) = Head(s) /\ Tail(s \o t) = Tail(s) \o t
<1>1. Len(s) \in Nat /\ Len(s) > 0 /\ Len(t) \in Nat
  BY LenProperties, EmptySeq
<1>2. /\ Head(s) = s[1] /\ Tail(s) \in Seq(S) /\ Len(Tail(s)) = Len(s) - 1
      /\ \A i \in 1 .. Len(Tail(s)) : Tail(s)[i] = s[i + 1]
  BY HeadTailProperties
<1>3. s \o t \in Seq(S) /\ Len(s \o t) = Len(s) + Len(t) /\ s \o t # <<>>
  BY <1>1, Joined
<1>4. /\ Head(s \o t) = (s \o t)[1] /\ Tail(s \o t) \in Seq(S)
      /\ Len(Tail(s \o t)) = Len(s) + Len(t) - 1
      /\ \A i \in 1 .. Len(Tail(s \o t)) : Tail(s \o t)[i] = (s \o t)[i + 1]
  BY <1>3, HeadTailProperties
<1>5. (s \o t)[1] = s[1]
  <2>1. 1 \in 1 .. Len(s)
    BY <1>1
  <2> QED
    BY <2>1, Joined
<1>6. Tail(s) \o t \in Seq(S) /\ Len(Tail(s) \o t) = Len(s) - 1 + Len(t)
  BY <1>2, Joined
<1>7. ASSUME NEW i \in 1 .. Len(Tail(s \o t)) PROVE Tail(s \o t)[i] = (Tail(s) \o t)[i]
  <2>1. CASE i \in 1 .. (Len(s) - 1)
    <3>1. i + 1 \in 1 .. Len(s) /\ i \in 1 .. Len(Tail(s))
      BY <1>1, <1>2, <2>1
    <3>2. (s \o t)[i + 1] = s[i + 1]
      BY <3>1, Joined
    <3>3. (Tail(s) \o t)[i] = Tail(s)[i]
      BY <1>2, <3>1, Joined
    <3> QED
      BY <1>2, <1>4, <3>1, <3>2, <3>3
  <2>2. CASE i \notin 1 .. (Len(s) - 1)
    <3> DEFINE j == i - (Len(s) - 1)
    <3>1. j \in 1 .. Len(t) /\ i + 1 = Len(s) + j /\ i = (Len(s) - 1) + j
      BY <1>1, <1>4, <2>2
    <3> HIDE DEF j
    <3>2. (s \o t)[Len(s) + j] = t[j]
      <4>1. \A h \in 1 .. Len(t) : (s \o t)[Len(s) + h] = t[h]
        BY Joined
      <4> QED
        BY ONLY <3>1, <4>1
    <3>3. (Tail(s) \o t)[Len(Tail(s)) + j] = t[j]
      <4>1. \A h \in 1 .. Len(t) : (Tail(s) \o t)[Len(Tail(s)) + h] = t[h]
        BY <1>2, Joined
      <4> QED
        BY ONLY <3>1, <4>1
    <3> QED
      BY <1>2, <1>4, <3>1, <3>2, <3>3
  <2> QED
    BY <2>1, <2>2
<1>8. Len(s) + Len(t) - 1 = Len(s) - 1 + Len(t)
  BY <1>1
<1>9. Tail(s \o t) = Tail(s) \o t
  BY <1>4, <1>6, <1>7, <1>8, SeqEqual
<1> QED
  BY <1>2, <1>3, <1>4, <1>5, <1>9

\* What crosses from one queue to the next stays in its place.
LEMMA Crossing ==
    ASSUME NEW S, NEW s \in Seq(S), NEW t \in Seq(S), t # <<>>
    PROVE  Append(s, Head(t)) \o Tail(t) = s \o t
<1> DEFINE x == Head(t)
           u == Tail(t)
<1>1. x \in S /\ u \in Seq(S) /\ <<x>> \in Seq(S)
  BY HeadTailProperties
<1>2. t = <<x>> \o u
  <2>1. Len(t) \in Nat /\ Len(t) > 0
    BY LenProperties, EmptySeq
  <2>2. 1 \in 1 .. Len(t) /\ Len(t) \in 1 .. Len(t)
    BY <2>1
  <2>3. SubSeq(t, 1, Len(t)) = <<t[1]>> \o SubSeq(t, 1 + 1, Len(t))
    BY <2>2, SubSeqRecursiveFirst
  <2>4. SubSeq(t, 1, Len(t)) = t /\ Tail(t) = SubSeq(t, 2, Len(t)) /\ t[1] = x /\ 1 + 1 = 2
    BY SubSeqFull, TailIsSubSeq
  <2> QED
    BY <2>3, <2>4
<1>3. Append(s, x) = s \o <<x>>
  BY <1>1, AppendIsConcat
<1>4. (s \o <<x>>) \o u = s \o (<<x>> \o u)
  BY <1>1, ConcatAssociative
<1> QED
  BY <1>2, <1>3, <1>4

\* The ids in a queue, control messages left out.
Flying(q) == {q[i].id : i \in {i \in DOMAIN q : q[i].kind \notin ControlKind}}

\* Of what was sent (S), all that came before envelope i of a queue was received (R)
\* or is ahead of it.
Led(q, i, S, R) ==
    \A x \in S : x < q[i].id =>
        x \in R \/ \E j \in 1 .. (i - 1) : q[j].id = x /\ q[j].kind \notin ControlKind

\* The first n envelopes of a queue come in the order they were sent, without a gap.
InOrder(q, n, S, R) == \A i \in 1 .. n : q[i].kind = "RemoteStarted" \/ Led(q, i, S, R)

\* An acknowledgement that covers only what was received, if not the very first id;
\* n is the next id of the one that sends.
Good(a, n, S, R) ==
    \/ a = None \/ a = 0
    \/ a \in Nat /\ a < n /\ \A x \in S : x # 0 /\ x <= a => x \in R

\* The order of a part of a queue depends on that part only.
LEMMA SameOrder ==
    ASSUME NEW q, NEW r, NEW n \in Nat, NEW S, NEW R, InOrder(q, n, S, R),
           \A i \in 1 .. n : r[i] = q[i]
    PROVE  InOrder(r, n, S, R)
<1> SUFFICES ASSUME NEW i \in 1 .. n, r[i].kind # "RemoteStarted", NEW x \in S, x < r[i].id, x \notin R
             PROVE  \E j \in 1 .. (i - 1) : r[j].id = x /\ r[j].kind \notin ControlKind
  BY DEF InOrder, Led
<1>1. r[i] = q[i]
  OBVIOUS
<1>2. PICK j \in 1 .. (i - 1) : q[j].id = x /\ q[j].kind \notin ControlKind
  BY <1>1 DEF InOrder, Led
<1>3. j \in 1 .. n
  OBVIOUS
<1> QED
  BY <1>2, <1>3

\* The order stays as the queue, the received and the sent grow, the latter by an id
\* that is not before the others.
LEMMA OrderStays ==
    ASSUME NEW q \in Seq(Envelope), NEW out \in Seq(Envelope), NEW n \in Nat, n <= Len(q),
           NEW S, NEW R, NEW T, NEW U, NEW k \in Nat, InOrder(q, n, S, R),
           T \subseteq S \union {k}, R \subseteq U,
           \A i \in 1 .. n : q[i].kind = "RemoteStarted" \/ q[i].id <= k
    PROVE  InOrder(q \o out, n, T, U) /\ InOrder(q, n, T, U)
<1>1. InOrder(q, n, T, U)
  <2> SUFFICES ASSUME NEW i \in 1 .. n, q[i].kind # "RemoteStarted", NEW x \in T, x < q[i].id, x \notin U
               PROVE  \E j \in 1 .. (i - 1) : q[j].id = x /\ q[j].kind \notin ControlKind
    BY DEF InOrder, Led
  <2>1. q[i].id <= k /\ q[i] \in Envelope
    <3>1. Len(q) \in Nat
      BY LenProperties
    <3>2. i \in 1 .. Len(q)
      BY <3>1
    <3> QED
      BY <3>2, ElementOfSeq
  <2>2. q[i].id \in Nat
    BY <2>1 DEF Envelope
  <2>3. x # k
    BY <2>1, <2>2
  <2>4. x \in S /\ x \notin R
    BY <2>3
  <2> QED
    BY <2>4 DEF InOrder, Led
<1>2. \A i \in 1 .. n : (q \o out)[i] = q[i]
  <2>1. Len(q) \in Nat /\ \A i \in 1 .. Len(q) : (q \o out)[i] = q[i]
    BY Joined
  <2> QED
    BY ONLY <2>1, n \in Nat, n <= Len(q)
<1> QED
  BY <1>1, <1>2, SameOrder

\* A queue that leads everything sent stays in order when more is put behind.
LEMMA OrderGrows ==
    ASSUME NEW q \in Seq(Envelope), NEW out \in Seq(Envelope),
           NEW S, NEW R, NEW T, NEW U, NEW k \in Nat, InOrder(q, Len(q), S, R),
           S \subseteq R \union Flying(q), T \subseteq S \union {k}, R \subseteq U,
           \A m \in Range(q) \union Range(out) : m.kind = "RemoteStarted" \/ m.id <= k
    PROVE  InOrder(q \o out, Len(q \o out), T, U)
<1> DEFINE r == q \o out
<1>1. /\ r \in Seq(Envelope) /\ Len(q) \in Nat /\ Len(out) \in Nat /\ Len(r) = Len(q) + Len(out)
      /\ \A i \in 1 .. Len(q) : r[i] = q[i]
      /\ \A i \in 1 .. Len(out) : r[Len(q) + i] = out[i]
      /\ \A i \in 1 .. (Len(q) + Len(out)) : i \in 1 .. Len(q) \/ \E j \in 1 .. Len(out) : i = Len(q) + j
      /\ DOMAIN q = 1 .. Len(q) /\ DOMAIN out = 1 .. Len(out)
  <2>1. DOMAIN q = 1 .. Len(q) /\ DOMAIN out = 1 .. Len(out)
    BY LenProperties
  <2>2. /\ r \in Seq(Envelope) /\ Len(q) \in Nat /\ Len(out) \in Nat /\ Len(r) = Len(q) + Len(out)
        /\ \A i \in 1 .. Len(q) : r[i] = q[i]
        /\ \A i \in 1 .. Len(out) : r[Len(q) + i] = out[i]
        /\ \A i \in 1 .. (Len(q) + Len(out)) : i \in 1 .. Len(q) \/ \E j \in 1 .. Len(out) : i = Len(q) + j
    BY ONLY q \in Seq(Envelope), out \in Seq(Envelope), Joined
  <2> QED
    BY <2>1, <2>2
<1>2. InOrder(r, Len(q), T, U)
  <2>1. PICK n : n = Len(q)
    OBVIOUS
  <2>2. \A i \in 1 .. n : q[i].kind = "RemoteStarted" \/ q[i].id <= k
    BY <1>1, <2>1 DEF Range
  <2>3. n \in Nat /\ n <= Len(q) /\ InOrder(q, n, S, R)
    BY <1>1, <2>1
  <2>4. InOrder(q \o out, n, T, U)
    <3>1. /\ q \in Seq(Envelope) /\ out \in Seq(Envelope) /\ k \in Nat
          /\ T \subseteq S \union {k} /\ R \subseteq U
      OBVIOUS
    <3> QED
      BY ONLY <2>2, <2>3, <3>1, OrderStays
  <2> QED
    BY <2>1, <2>4
<1> HIDE DEF r
<1>3. ASSUME NEW j \in 1 .. Len(out), r[Len(q) + j].kind # "RemoteStarted"
      PROVE  Led(r, Len(q) + j, T, U)
  <2>1. r[Len(q) + j] = out[j] /\ out[j] \in Range(out) /\ out[j] \in Envelope
    BY <1>1, ElementOfSeq DEF Range
  <2>2. out[j].id <= k /\ out[j].id \in Nat
    BY <1>3, <2>1 DEF Envelope
  <2> SUFFICES ASSUME NEW x \in T, x < out[j].id, x \notin U
               PROVE  \E h \in 1 .. ((Len(q) + j) - 1) : r[h].id = x /\ r[h].kind \notin ControlKind
    BY <2>1 DEF Led
  <2>3. x # k
    BY <2>2
  <2>4. PICK h \in DOMAIN q : q[h].id = x /\ q[h].kind \notin ControlKind
    BY <2>3 DEF Flying
  <2>5. h \in 1 .. Len(q) /\ r[h] = q[h]
    BY <1>1, <2>4
  <2>6. h \in 1 .. ((Len(q) + j) - 1)
    BY <1>1, <2>5
  <2> QED
    BY <2>4, <2>5, <2>6
<1> SUFFICES ASSUME NEW i \in 1 .. (Len(q) + Len(out)), r[i].kind # "RemoteStarted"
             PROVE  Led(r, i, T, U)
  BY <1>1 DEF InOrder, r
<1>4. CASE i \in 1 .. Len(q)
  BY <1>2, <1>4 DEF InOrder
<1>5. ASSUME NEW j \in 1 .. Len(out), i = Len(q) + j PROVE Led(r, i, T, U)
  BY <1>3, <1>5
<1> QED
  BY <1>1, <1>4, <1>5

\* The order stays as the first envelope is received.
LEMMA OrderMovesUp ==
    ASSUME NEW q \in Seq(Envelope), q # <<>>, NEW n \in 1 .. Len(q), NEW S, NEW R, NEW U,
           InOrder(q, n, S, R), R \subseteq U,
           Head(q).kind \notin ControlKind => Head(q).id \in U
    PROVE  InOrder(Tail(q), n - 1, S, U)
<1>1. /\ Len(q) \in Nat /\ Head(q) = q[1] /\ Len(Tail(q)) = Len(q) - 1
      /\ \A i \in 1 .. Len(Tail(q)) : Tail(q)[i] = q[i + 1]
  BY HeadTailProperties, LenProperties
<1>2. \A i \in 1 .. (n - 1) : i + 1 \in 1 .. n /\ Tail(q)[i] = q[i + 1]
  BY <1>1
<1> SUFFICES ASSUME NEW i \in 1 .. (n - 1), Tail(q)[i].kind # "RemoteStarted",
                    NEW x \in S, x < Tail(q)[i].id, x \notin U
             PROVE  \E j \in 1 .. (i - 1) : Tail(q)[j].id = x /\ Tail(q)[j].kind \notin ControlKind
  BY DEF InOrder, Led
<1>3. Led(q, i + 1, S, R)
  BY <1>2 DEF InOrder
<1>4. PICK j \in 1 .. ((i + 1) - 1) : q[j].id = x /\ q[j].kind \notin ControlKind
  BY <1>2, <1>3 DEF Led
<1>5. j # 1
  BY <1>1, <1>4
<1>6. j - 1 \in 1 .. (i - 1) /\ (j - 1) + 1 = j /\ j - 1 \in 1 .. (n - 1)
  BY <1>4, <1>5
<1>7. Tail(q)[j - 1] = q[j]
  BY <1>2, <1>6
<1> QED
  BY <1>4, <1>6, <1>7

\* What is flying as a queue grows and moves up.
LEMMA FlyingStays ==
    ASSUME NEW q \in Seq(Envelope)
    PROVE  /\ Flying(q) = {m.id : m \in {m \in Range(q) : m.kind \notin ControlKind}}
           /\ \A out \in Seq(Envelope) : Flying(q \o out) = Flying(q) \union Flying(out)
           /\ q # <<>> => Flying(q) \subseteq Flying(Tail(q)) \union
                            (IF Head(q).kind \in ControlKind THEN {} ELSE {Head(q).id})
<1>1. \A s : Flying(s) = {m.id : m \in {m \in Range(s) : m.kind \notin ControlKind}}
  BY DEF Flying, Range
<1>2. ASSUME NEW out \in Seq(Envelope) PROVE Flying(q \o out) = Flying(q) \union Flying(out)
  <2>1. Range(q \o out) = Range(q) \union Range(out)
    BY Elements
  <2> QED
    BY <1>1, <2>1
<1>3. ASSUME q # <<>> PROVE Range(q) \subseteq Range(Tail(q)) \union {Head(q)}
  <2>1. /\ Len(q) \in Nat /\ DOMAIN q = 1 .. Len(q) /\ Head(q) = q[1]
        /\ Tail(q) \in Seq(Envelope) /\ Len(Tail(q)) = Len(q) - 1
        /\ \A i \in 1 .. Len(Tail(q)) : Tail(q)[i] = q[i + 1]
    BY <1>3, HeadTailProperties, LenProperties
  <2>2. DOMAIN Tail(q) = 1 .. (Len(q) - 1)
    BY <2>1, LenProperties
  <2> SUFFICES ASSUME NEW i \in DOMAIN q, i # 1 PROVE q[i] \in Range(Tail(q))
    BY <2>1 DEF Range
  <2>3. i - 1 \in DOMAIN Tail(q) /\ Tail(q)[i - 1] = q[i]
    <3>1. i - 1 \in 1 .. (Len(q) - 1) /\ (i - 1) + 1 = i
      BY <2>1
    <3> QED
      BY <2>1, <2>2, <3>1
  <2> QED
    BY <2>3 DEF Range
<1>4. ASSUME q # <<>>
      PROVE  Flying(q) \subseteq Flying(Tail(q)) \union
                (IF Head(q).kind \in ControlKind THEN {} ELSE {Head(q).id})
  BY <1>1, <1>3, <1>4
<1> QED
  BY <1>1, <1>2, <1>4

\* A good acknowledgement stays good.
LEMMA GoodStays ==
    ASSUME NEW a, NEW n \in Nat, NEW l \in Nat, NEW S, NEW R, NEW T, NEW U,
           Good(a, n, S, R), n <= l, T \subseteq S \union {n}, R \subseteq U
    PROVE  Good(a, l, T, U)
<1>1. ASSUME a \in Nat, a < n, NEW x \in T, x <= a PROVE x # n
  BY <1>1
<1>2. a \in Nat /\ a < n => a < l
  OBVIOUS
<1> QED
  BY <1>1, <1>2 DEF Good

\* The id of an envelope that comes in order acknowledges what was received.
LEMMA HeadIsGood ==
    ASSUME NEW q \in Seq(Envelope), q # <<>>, NEW n \in Nat, n >= 1, NEW l \in Nat,
           NEW S \in SUBSET Nat, NEW R, NEW U,
           InOrder(q, n, S, R), R \subseteq U, Head(q).kind # "RemoteStarted", Head(q).id < l,
           Head(q).id \in S => Head(q).id \in U
    PROVE  Good(Head(q).id, l, S, U) /\ \A x \in S : x <= Head(q).id => x \in U
<1>1. Head(q) = q[1] /\ Head(q) \in Envelope
  BY HeadTailProperties
<1>2. Head(q).id \in Nat
  BY <1>1 DEF Envelope
<1>3. Led(q, 1, S, R)
  <2>1. 1 \in 1 .. n
    OBVIOUS
  <2> QED
    BY <1>1, <2>1 DEF InOrder
<1>4. ASSUME NEW x \in S, x <= Head(q).id PROVE x \in U
  <2>1. CASE x = Head(q).id
    BY <2>1
  <2>2. CASE x < Head(q).id
    <3>1. ~ \E j \in 1 .. (1 - 1) : TRUE
      OBVIOUS
    <3> QED
      BY <1>1, <1>3, <2>2, <3>1 DEF Led
  <2> QED
    BY <1>2, <1>4, <2>1, <2>2
<1> QED
  BY <1>2, <1>4 DEF Good

\* The ids an end has sent, and what is on its way to the other end.
SentIds(e) == IdsOf(sent[e])
Queue(e) == incoming[Peer(e)] \o outgoing[e]

\* The step takes the next envelope to end e, or none.
Gets(e, got) ==
    IF got
    THEN /\ incoming[e] # <<>> /\ incoming' = [incoming EXCEPT ![e] = Tail(@)]
         /\ \/ /\ Head(incoming[e]).kind \in {"Flush", "RemoteStarted"}
               /\ UNCHANGED <<maxReceived, received>>
            \/ /\ Head(incoming[e]).kind \notin {"Flush", "RemoteStarted"}
               /\ Dispatch(e, Head(incoming[e]))
    ELSE UNCHANGED <<incoming, maxReceived, received>>

\* What its acknowledgement leaves of the buffer.
Keeps(e, got, buf) ==
    /\ buf \in Seq(Envelope) /\ Range(buf) \subseteq Range(buffer[e])
    /\ \A b \in Range(buffer[e]) \ Range(buf) : got /\ Covers(Head(incoming[e]).ack, b.id)

\* The end sends one envelope, or only resends and acknowledges.
Puts(e, buf, out) ==
    /\ out \in Seq(Envelope) /\ Put(e, out)
    /\ \/ /\ UNCHANGED sent /\ buffer' = [buffer EXCEPT ![e] = buf]
          /\ \A o \in Range(out) :
                \/ o \in Range(buf)
                \/ o.kind \in {"Ack", "RemoteStarted"} /\ o.ack = None
       \/ \E env \in Envelope :
            /\ out = <<env>> /\ SendBuffered(e, env, buf)
            /\ env.id = nextId[e] /\ nextId'[e] = nextId[e] + 1
            /\ env.kind \notin ControlKind /\ env.ack = maxReceived'[e]

\* What is put is for something that was received, and has the next id if it is new.
Marks(e, got, buf, out) ==
    \A o \in Range(out) : o \in Range(buf) \/
        /\ \/ o.re \in {None, 0} \union Received(e)'
           \/ got /\ Head(incoming[e]).kind = "Flush" /\ o.re = Head(incoming[e]).id
        /\ o.kind # "RemoteStarted" => o.id = nextId[e] /\ nextId'[e] = nextId[e] + 1

\* The request of resync is answered, once its turn has come.
Flushes(e, got, buf, out) ==
    /\ got /\ Head(incoming[e]).kind = "Flush" =>
        \E ack \in Envelope : /\ out = Append(buf, ack)
                              /\ ack.kind = "Ack" /\ ack.re = Head(incoming[e]).id /\ ack.ack = None
    /\ \/ /\ flushId' = flushId
          /\ flushId \in responseChannels["client"] =>
                /\ flushId \in responseChannels'["client"]
                /\ got /\ e = "client" => Head(incoming[e]).re # flushId \/ Head(incoming[e]).kind # "Ack"
       \/ /\ flushId' = None /\ got /\ e = "client" /\ out = buf
          /\ Head(incoming[e]).re = flushId /\ flushId # None

\* What an end does, apart from resync, in one step.
EndStep(e, got, buf, out) ==
    /\ Gets(e, got) /\ Keeps(e, got, buf) /\ Puts(e, buf, out)
    /\ Marks(e, got, buf, out) /\ Flushes(e, got, buf, out)
    /\ got => CanReceive(e)
    /\ UNCHANGED <<conn, link, attached, flushDue, sending>>
    /\ \A d \in End : d # e => nextId'[d] = nextId[d]
    /\ \A d \in End : responseChannels'[d] \subseteq responseChannels[d] \union SentIds(d)'
    /\ Ready' => \/ Ready
                 \/ /\ got /\ e = "client" /\ Head(incoming[e]).kind \in ReplyKind \union {"Ack"}
                    /\ Head(incoming[e]).re \in responseChannels[e] \union streamChannels[e]

Moves(e) == \E got \in BOOLEAN : \E buf, out : EndStep(e, got, buf, out)

\* What an acknowledgement takes from the buffer is covered by it.
LEMMA Popping ==
    ASSUME TypeOK, NEW e \in End, NEW buf, Receive(e, buf)
    PROVE  /\ Keeps(e, TRUE, buf) /\ CanReceive(e) /\ incoming[e] # <<>>
           /\ incoming' = [incoming EXCEPT ![e] = Tail(@)]
<1> DEFINE ack == Head(incoming[e]).ack
           Size == Len(buffer[e])
<1>1. CanReceive(e) /\ buf \in Unacknowledged(e, ack) /\ incoming' = [incoming EXCEPT ![e] = Tail(@)]
  BY DEF Receive
<1>2. buf \in Seq(Envelope) /\ Range(buf) \subseteq Range(buffer[e]) /\ incoming[e] # <<>>
  BY <1>1, Receiving
<1>3. PICK k \in 0 .. Size : /\ buf = SubSeq(buffer[e], k + 1, Size)
                             /\ \A i \in 1 .. k : Covers(ack, buffer[e][i].id)
  BY <1>1 DEF Unacknowledged
<1>4. buffer[e] \in Seq(Envelope) /\ Size \in Nat /\ DOMAIN buffer[e] = 1 .. Size
  BY Values, LenProperties
<1> HIDE DEF ack, Size
<1>5. ASSUME NEW i \in 1 .. Size, i > k PROVE buffer[e][i] \in Range(buf)
  <2>1. /\ k + 1 \in Int /\ Size \in Int /\ k + 1 <= Size /\ (Size - (k + 1)) + 1 = Size - k
        /\ i - k \in 1 .. (Size - k) /\ ((k + 1) + (i - k)) - 1 = i
    BY <1>4, <1>5
  <2>2. \A j \in (k + 1) .. Size : buffer[e][j] \in Envelope
    <3>1. \A j \in 1 .. Size : buffer[e][j] \in Envelope
      BY <1>4, ElementOfSeq DEF Size
    <3> QED
      BY <1>4, <3>1
  <2>3. /\ Len(buf) = (Size - (k + 1)) + 1
        /\ \A j \in 1 .. (Size - (k + 1)) + 1 : buf[j] = buffer[e][((k + 1) + j) - 1]
    BY <1>3, <2>1, <2>2, SubSeqProperties
  <2>4. DOMAIN buf = 1 .. (Size - k)
    BY <1>2, <2>1, <2>3, LenProperties
  <2>5. buf[i - k] = buffer[e][i] /\ i - k \in DOMAIN buf
    BY <2>1, <2>3, <2>4
  <2> QED
    BY <2>5 DEF Range
<1>6. ASSUME NEW b \in Range(buffer[e]) \ Range(buf) PROVE Covers(ack, b.id)
  <2>1. PICK i \in 1 .. Size : b = buffer[e][i]
    BY <1>4 DEF Range
  <2>2. i \in 1 .. k
    BY <1>4, <1>5, <2>1
  <2> QED
    BY <1>3, <2>1, <2>2
<1> QED
  BY <1>1, <1>2, <1>6 DEF Keeps, ack

\* The next envelope is one of its sender's.
LEMMA NextEnvelope ==
    ASSUME Inv, NEW e \in End, CanReceive(e)
    PROVE  LET m == Head(incoming[e]) IN
           /\ m \in Transit(Peer(e)) /\ Right(Peer(e), m) /\ m \in Envelope
           /\ m.id \in Nat /\ m.re \in Id /\ m.kind \in Kind
<1>1. TypeOK /\ Peer(e) \in End /\ Peer(Peer(e)) = e
  BY Kinds DEF Inv
<1> DEFINE m == Head(incoming[e])
<1>2. /\ m \in Envelope /\ m \in Range(incoming[e]) /\ m.id \in Nat /\ m.re \in Id /\ m.kind \in Kind
  BY <1>1, Receiving
<1>3. m \in Transit(Peer(e))
  BY <1>1, <1>2 DEF Transit
<1>4. Right(Peer(e), m)
  BY <1>1, <1>3 DEF Inv, Envelopes
<1> QED
  BY <1>2, <1>3, <1>4

\* A sequence of one.
LEMMA OnlyOne ==
    ASSUME NEW m \in Envelope
    PROVE  <<m>> \in Seq(Envelope) /\ Range(<<m>>) = {m}
<1>1. <<m>> \in Seq(Envelope) /\ DOMAIN <<m>> = 1 .. 1 /\ <<m>>[1] = m
  OBVIOUS
<1> QED
  BY <1>1 DEF Range

\* The ids that were sent grow with what is sent.
LEMMA SentGrows ==
    /\ \A e \in End : SentIds(e) = {x.id : x \in Sent(e)} /\ SentIds(e)' = {x.id : x \in Sent(e)'}
    /\ UNCHANGED sent => \A e \in End : SentIds(e)' = SentIds(e)
BY DEF SentIds, IdsOf, Sent

\* send_buffered sends one id more.
LEMMA OneMoreSent ==
    ASSUME TypeOK, NEW e \in End, NEW env \in Envelope, NEW buf \in Seq(Envelope),
           SendBuffered(e, env, buf)
    PROVE  /\ SentIds(e)' = SentIds(e) \union {env.id}
           /\ \A d \in End : d # e => SentIds(d)' = SentIds(d)
<1>1. /\ Range(sent'[e]) = Range(sent[e]) \union {Pair(env)}
      /\ \A d \in End : d # e => sent'[d] = sent[d]
  <2>1. TypeOK /\ e \in End /\ env \in Envelope /\ buf \in Seq(Envelope) /\ SendBuffered(e, env, buf)
    OBVIOUS
  <2> QED
    BY ONLY <2>1, Buffering
<1>2. Sent(e)' = Sent(e) \union {Pair(env)} /\ \A d \in End : d # e => Sent(d)' = Sent(d)
  BY <1>1, Sents
<1>3. Pair(env).id = env.id
  BY DEF Pair
<1> QED
  BY <1>2, <1>3, SentGrows

\* A send or a reply, while nothing is received.
LEMMA SendingMoves ==
    ASSUME TypeOK, NEW e \in End, NEW env \in Envelope, SendBuffered(e, env, buffer[e]),
           env.id = nextId[e], nextId' = [nextId EXCEPT ![e] = @ + 1], env.kind \notin ControlKind,
           env.ack = maxReceived[e], env.re \in {None, 0} \union Received(e),
           UNCHANGED <<maxReceived, incoming, received, answers, transport, resync, sending>>,
           \A d \in End : /\ responseChannels[d] \subseteq responseChannels'[d]
                          /\ responseChannels'[d] \subseteq
                                responseChannels[d] \union (IF d = e THEN {nextId[e]} ELSE {})
    PROVE  Moves(e)
<1> DEFINE out == <<env>>
           buf == buffer[e]
<1>1. buf \in Seq(Envelope) /\ out \in Seq(Envelope) /\ Range(out) = {env} /\ "client" \in End
  BY Values, OnlyOne, Kinds
<1>2. nextId'[e] = nextId[e] + 1 /\ \A d \in End : d # e => nextId'[d] = nextId[d]
  BY Drawing
<1>3. /\ SentIds(e)' = SentIds(e) \union {nextId[e]}
      /\ \A d \in End : d # e => SentIds(d)' = SentIds(d)
  BY <1>1, OneMoreSent
<1>4. Gets(e, FALSE) /\ Keeps(e, FALSE, buf)
  BY <1>1 DEF Gets, Keeps
<1>5. Puts(e, buf, out)
  BY <1>1, <1>2 DEF Puts, SendBuffered
<1>6. Received(e)' = Received(e)
  BY DEF Received
<1>7. Marks(e, FALSE, buf, out)
  BY <1>1, <1>2, <1>6 DEF Marks
<1>8. Flushes(e, FALSE, buf, out)
  BY <1>1 DEF Flushes, resync
<1>9. \A d \in End : responseChannels'[d] \subseteq responseChannels[d] \union SentIds(d)'
  BY <1>3
<1> HIDE DEF out, buf
<1>10. EndStep(e, FALSE, buf, out)
  BY <1>2, <1>4, <1>5, <1>7, <1>8, <1>9 DEF EndStep, transport, resync, Ready
<1> QED
  BY <1>10 DEF Moves

\* A foreground send.
LEMMA SendNowMoves ==
    ASSUME Inv, NEW e \in End, NEW k \in AppKind, SendNow(e, k) PROVE Moves(e)
<1>0. PICK env : env = Env(nextId[e], k, None, maxReceived[e], 0)
  OBVIOUS
<1>1. TypeOK
  BY DEF Inv
<1>2. /\ env \in Envelope /\ env.id = nextId[e] /\ env.kind = k /\ env.ack = maxReceived[e]
      /\ env.re = None
  <2>1. nextId[e] \in Nat /\ k \in Kind /\ None \in Id /\ maxReceived[e] \in Id /\ 0 \in Nat
    BY <1>1, Values, Kinds
  <2> QED
    BY <1>0, <2>1 DEF Env, Envelope
<1>3. env.kind \notin ControlKind
  BY <1>2, Kinds
<1>4. SendBuffered(e, env, buffer[e]) /\ Register(e, k, nextId[e])
      /\ nextId' = [nextId EXCEPT ![e] = @ + 1]
      /\ UNCHANGED <<maxReceived, incoming, received, answers, transport, resync, sending>>
  BY <1>0 DEF SendNow, tasks
<1>5. \A d \in End :
        /\ responseChannels[d] \subseteq responseChannels'[d]
        /\ responseChannels'[d] \subseteq
              responseChannels[d] \union (IF d = e THEN {nextId[e]} ELSE {})
  <2>1. /\ \A d \in End : d # e => responseChannels'[d] = responseChannels[d]
        /\ responseChannels'[e] = IF k \in {"Request", "Unknown"}
                                  THEN responseChannels[e] \union {nextId[e]} ELSE responseChannels[e]
    BY <1>1, <1>4, Registering
  <2> QED
    BY <2>1
<1> QED
  BY <1>1, <1>2, <1>3, <1>4, <1>5, SendingMoves

\* A handler that sends a response, an item or the end.
LEMMA ReplyMoves ==
    ASSUME Inv, NEW e \in End, HandlerStep(e) PROVE Moves(e)
<1>1. PICK h \in running[e] : Respond(e, h) \/ SendItem(e, h) \/ EndOfStream(e, h)
  BY DEF HandlerStep
<1>2. TypeOK /\ h.re \in Received(e) /\ h.re \in Nat /\ h.item \in Nat
  BY Values DEF Inv, Handlers
<1>3. PICK kind \in ReplyKind, item \in Nat : Reply(e, kind, h.re, item)
  <2>1. {"Response", "Item", "EndStream"} = ReplyKind /\ 0 \in Nat /\ h.item + 1 \in Nat
    BY <1>2, Kinds
  <2> QED
    BY <1>1, <2>1 DEF Respond, SendItem, EndOfStream
<1>0. PICK env : env = Env(nextId[e], kind, h.re, maxReceived[e], item)
  OBVIOUS
<1>4. /\ env \in Envelope /\ env.id = nextId[e] /\ env.kind = kind /\ env.ack = maxReceived[e]
      /\ env.re = h.re
  <2>1. nextId[e] \in Nat /\ kind \in Kind /\ h.re \in Id /\ maxReceived[e] \in Id
    BY <1>2, Values, Kinds
  <2> QED
    BY <1>0, <2>1 DEF Env, Envelope
<1>5. env.kind \notin ControlKind
  BY <1>4, Kinds
<1>6. SendBuffered(e, env, buffer[e]) /\ nextId' = [nextId EXCEPT ![e] = @ + 1]
      /\ UNCHANGED <<maxReceived, incoming, received, answers, transport, resync, sending>>
      /\ UNCHANGED responseChannels
  BY <1>0, <1>3 DEF Reply, channels
<1> QED
  BY <1>2, <1>4, <1>5, <1>6, SendingMoves

\* An end announces itself.
LEMMA AnnounceMoves ==
    ASSUME Inv, NEW e \in End, Announce(e) PROVE Moves(e)
<1>0. PICK env : env = Env(0, "RemoteStarted", None, None, 0)
  OBVIOUS
<1>1. TypeOK
  BY DEF Inv
<1>2. env \in Envelope /\ env.kind = "RemoteStarted" /\ env.ack = None /\ env.re = None
  <2>1. 0 \in Nat /\ "RemoteStarted" \in Kind /\ None \in Id
    BY Kinds
  <2> QED
    BY <1>0, <2>1 DEF Env, Envelope
<1> DEFINE out == <<env>>
           buf == buffer[e]
<1>3. /\ buf \in Seq(Envelope) /\ out \in Seq(Envelope) /\ Range(out) = {env} /\ "client" \in End
      /\ buffer \in [End -> Seq(Envelope)]
  BY <1>1, <1>2, Values, OnlyOne, Kinds DEF TypeOK
<1>4. /\ Put(e, out)
      /\ UNCHANGED <<nextId, maxReceived, responseChannels, buffer, incoming, sending, transport>>
      /\ UNCHANGED <<resync, sent, received, answers>>
  BY <1>0 DEF Announce, ids, channels, history
<1>5. Gets(e, FALSE) /\ Keeps(e, FALSE, buf)
  BY <1>3, <1>4 DEF Gets, Keeps
<1>6. buffer' = [buffer EXCEPT ![e] = buf]
  BY <1>3, <1>4
<1>7. Puts(e, buf, out)
  BY <1>2, <1>3, <1>4, <1>6 DEF Puts
<1>8. Marks(e, FALSE, buf, out)
  BY <1>2, <1>3 DEF Marks
<1>9. Flushes(e, FALSE, buf, out)
  BY <1>4 DEF Flushes, resync
<1> HIDE DEF out, buf
<1>10. EndStep(e, FALSE, buf, out)
  BY <1>4, <1>5, <1>7, <1>8, <1>9 DEF EndStep, transport, resync, Ready
<1> QED
  BY <1>10 DEF Moves

\* A control message is handled.
LEMMA ControlMoves ==
    ASSUME Inv, NEW e \in End, HandleFlush(e) \/ HandleRemoteStarted(e) PROVE Moves(e)
<1>0. PICK m : m = Head(incoming[e])
  OBVIOUS
<1>1. TypeOK /\ CanReceive(e)
  BY DEF Inv, HandleFlush, HandleRemoteStarted
<1>2. Right(Peer(e), m) /\ m \in Envelope /\ m.id \in Nat
  BY <1>0, <1>1, NextEnvelope
<1>3. PICK ack : ack = Env(nextId[e], "Ack", m.id, None, 0)
  OBVIOUS
<1>4. /\ ack \in Envelope /\ ack.id = nextId[e] /\ ack.kind = "Ack" /\ ack.re = m.id /\ ack.ack = None
  <2>1. nextId[e] \in Nat /\ "Ack" \in Kind /\ m.id \in Id /\ None \in Id /\ 0 \in Nat
    BY <1>1, <1>2, Values, Kinds
  <2> QED
    BY <1>3, <2>1 DEF Env, Envelope
<1>5. PICK buf, out :
        /\ Receive(e, buf) /\ buffer' = [buffer EXCEPT ![e] = buf] /\ Put(e, out)
        /\ \/ m.kind = "Flush" /\ out = Append(buf, ack)
           \/ m.kind = "RemoteStarted" /\ out = <<ack>>
  BY <1>0, <1>3 DEF HandleFlush, HandleRemoteStarted, Resend
<1>6. /\ nextId' = [nextId EXCEPT ![e] = @ + 1]
      /\ UNCHANGED <<maxReceived, responseChannels, sending, transport, resync, sent, received, answers>>
  BY DEF HandleFlush, HandleRemoteStarted, DrawId, channels, tasks, history
<1>7. /\ Keeps(e, TRUE, buf) /\ incoming[e] # <<>>
      /\ incoming' = [incoming EXCEPT ![e] = Tail(@)]
  BY <1>1, <1>5, Popping
<1>8. nextId'[e] = nextId[e] + 1 /\ \A d \in End : d # e => nextId'[d] = nextId[d]
  BY <1>1, <1>6, Drawing
<1>9. Gets(e, TRUE)
  BY <1>0, <1>5, <1>6, <1>7 DEF Gets
<1>10. out \in Seq(Envelope) /\ \A o \in Range(out) : o \in Range(buf) \/ o = ack
  <2>1. buf \in Seq(Envelope)
    BY <1>7 DEF Keeps
  <2>2. <<ack>> \in Seq(Envelope) /\ Range(<<ack>>) = {ack}
    BY <1>4, OnlyOne
  <2>3. Append(buf, ack) \in Seq(Envelope) /\ Range(Append(buf, ack)) = Range(buf) \union {ack}
    BY <1>4, <2>1, Elements
  <2> QED
    BY <1>5, <2>2, <2>3
<1>11. Puts(e, buf, out)
  BY <1>4, <1>5, <1>6, <1>10 DEF Puts
<1>12. m.kind = "RemoteStarted" => m.id = 0
  BY <1>2 DEF Right
<1>13. Marks(e, TRUE, buf, out)
  BY <1>0, <1>4, <1>5, <1>8, <1>10, <1>12 DEF Marks
<1>14. Flushes(e, TRUE, buf, out)
  <2>1. m.kind # "Ack"
    BY <1>5
  <2> QED
    BY <1>0, <1>4, <1>5, <1>6, <2>1 DEF Flushes, resync
<1>15. EndStep(e, TRUE, buf, out)
  BY <1>1, <1>6, <1>7, <1>8, <1>9, <1>11, <1>13, <1>14 DEF EndStep, transport, resync, Ready
<1> QED
  BY <1>15 DEF Moves

\* An envelope is dispatched, and nothing new is sent.
LEMMA DispatchMoves ==
    ASSUME Inv, NEW e \in End, NEW m, m = Head(incoming[e]),
           m.kind \notin {"Flush", "RemoteStarted"}, Dispatch(e, m),
           NEW buf, Receive(e, buf), buffer' = [buffer EXCEPT ![e] = buf],
           UNCHANGED <<nextId, sending, transport, flushDue, sent>>,
           NEW out, Put(e, out), out = <<>> \/ out = buf,
           \A d \in End : responseChannels'[d] \subseteq responseChannels[d],
           Flushes(e, TRUE, buf, out),
           Ready' => \/ Ready
                     \/ /\ e = "client" /\ m.kind \in ReplyKind \union {"Ack"}
                        /\ m.re \in responseChannels[e] \union streamChannels[e]
    PROVE  Moves(e)
<1>1. TypeOK
  BY DEF Inv
<1>2. /\ Keeps(e, TRUE, buf) /\ CanReceive(e) /\ incoming[e] # <<>>
      /\ incoming' = [incoming EXCEPT ![e] = Tail(@)]
  BY <1>1, Popping
<1>3. Gets(e, TRUE)
  BY <1>2 DEF Gets
<1>4. out \in Seq(Envelope) /\ Range(out) \subseteq Range(buf)
  <2>1. buf \in Seq(Envelope)
    BY <1>2 DEF Keeps
  <2>2. <<>> \in Seq(Envelope) /\ Range(<<>>) = {}
    BY <2>1, Elements
  <2> QED
    BY <2>1, <2>2
<1>5. Puts(e, buf, out) /\ Marks(e, TRUE, buf, out)
  BY <1>4 DEF Puts, Marks
<1>6. EndStep(e, TRUE, buf, out)
  BY <1>2, <1>3, <1>5 DEF EndStep, transport
<1> QED
  BY <1>6 DEF Moves

\* Nothing put is nothing changed.
LEMMA PutNothing ==
    ASSUME TypeOK, NEW e \in End, UNCHANGED outgoing PROVE Put(e, <<>>)
<1>1. outgoing \in [End -> Seq(Envelope)] /\ outgoing[e] \o <<>> = outgoing[e]
  BY Values, ConcatEmptySeq DEF TypeOK
<1> QED
  BY <1>1 DEF Put

\* A message, or a request that has a handler.
LEMMA MessageMoves ==
    ASSUME Inv, NEW e \in End, HandleMessage(e) PROVE Moves(e)
<1>0. PICK m : m = Head(incoming[e])
  OBVIOUS
<1>1. PICK buf : Receive(e, buf) /\ buffer' = [buffer EXCEPT ![e] = buf]
  BY DEF HandleMessage
<1>2. /\ m.kind \in AppKind /\ Dispatch(e, m)
      /\ UNCHANGED <<nextId, responseChannels, outgoing, sending, transport, resync, sent, answers>>
  BY <1>0 DEF HandleMessage, channels
<1>3. m.kind \notin {"Flush", "RemoteStarted", "Ack"}
  BY <1>2, Kinds
<1>4. Put(e, <<>>)
  BY <1>2, PutNothing DEF Inv
<1>5. Flushes(e, TRUE, buf, <<>>)
  BY <1>0, <1>2, <1>3 DEF Flushes, resync
<1> QED
  BY <1>0, <1>1, <1>2, <1>3, <1>4, <1>5, DispatchMoves DEF resync, Ready

\* A response, to whomever it is for.
LEMMA ResponseMoves ==
    ASSUME Inv, NEW e \in End, HandleResponse(e) PROVE Moves(e)
<1>0. PICK m : m = Head(incoming[e])
  OBVIOUS
<1>1. PICK buf : Receive(e, buf) /\ buffer' = [buffer EXCEPT ![e] = buf]
  BY DEF HandleResponse
<1>2. /\ m.kind \in ReplyKind \union {"Ack"} /\ Dispatch(e, m)
      /\ m.re # flushId \/ e # "client" \/ m.re \notin responseChannels[e]
      /\ responseChannels' = [responseChannels EXCEPT ![e] = Taken(e, m.re)]
      /\ UNCHANGED <<nextId, outgoing, sending, transport, resync, sent>>
      /\ m.re \notin responseChannels[e] /\ m.re \notin streamChannels[e] => answers' = answers
  BY <1>0 DEF HandleResponse
<1>8. answers' = [answers EXCEPT ![e] = Append(@, Answer(m))] \/ answers' = answers
  BY <1>0 DEF HandleResponse
<1>3. m.kind \notin {"Flush", "RemoteStarted"}
  BY <1>2, Kinds
<1>4. Put(e, <<>>)
  BY <1>2, PutNothing DEF Inv
<1>5. /\ \A d \in End : d # e => responseChannels'[d] = responseChannels[d]
      /\ responseChannels'[e] = responseChannels[e] \ {m.re} /\ "client" \in End
  BY <1>2, Kinds DEF Inv, TypeOK, Taken
<1>6. Flushes(e, TRUE, buf, <<>>)
  BY <1>0, <1>2, <1>3, <1>5 DEF Flushes, resync
<1>7. Ready' => \/ Ready
                \/ /\ e = "client" /\ m.kind \in ReplyKind \union {"Ack"}
                   /\ m.re \in responseChannels[e] \union streamChannels[e]
  <2>1. CASE e = "client"
    BY <1>2, <2>1 DEF Ready
  <2>2. CASE e # "client"
    <3>1. answers \in [End -> Seq([re : Id, kind : Kind, item : Nat])]
      BY DEF Inv, TypeOK
    <3>2. answers'["client"] = answers["client"]
      BY <1>8, <2>2, <3>1, Kinds
    <3> QED
      BY <3>2 DEF Ready
  <2> QED
    BY <2>1, <2>2
<1>9. \A d \in End : responseChannels'[d] \subseteq responseChannels[d]
  BY <1>5
<1> QED
  BY <1>0, <1>1, <1>2, <1>3, <1>4, <1>6, <1>7, <1>9, DispatchMoves DEF resync

\* The answer that resync waits for.
LEMMA FlushedMoves ==
    ASSUME Inv, NEW e \in End, HandleFlushed(e) PROVE Moves(e)
<1>0. PICK m : m = Head(incoming[e])
  OBVIOUS
<1>1. PICK buf : Receive(e, buf) /\ buffer' = [buffer EXCEPT ![e] = buf] /\ Put(e, Resend(buf))
  BY DEF HandleFlushed
<1>2. /\ e = "client" /\ m.re # None /\ m.re = flushId /\ Dispatch(e, m) /\ CanReceive(e)
      /\ responseChannels' = [responseChannels EXCEPT ![e] = Taken(e, m.re)]
      /\ flushId' = None
      /\ UNCHANGED <<nextId, sending, transport, flushDue, sent, answers>>
  BY <1>0 DEF HandleFlushed, tasks
<1>3. m.kind \notin {"Flush", "RemoteStarted"}
  <2>1. Right(Peer(e), m)
    BY <1>0, <1>2, NextEnvelope
  <2> QED
    BY <1>2, <2>1 DEF Right
<1>4. Put(e, buf)
  BY <1>1 DEF Resend
<1>5. \A d \in End : responseChannels'[d] \subseteq responseChannels[d]
  BY <1>2 DEF Inv, TypeOK, Taken
<1>6. Flushes(e, TRUE, buf, buf)
  BY <1>0, <1>2, <1>3 DEF Flushes
<1> QED
  BY <1>0, <1>1, <1>2, <1>3, <1>4, <1>5, <1>6, DispatchMoves DEF Ready

\* A request that nobody handles is answered with an error.
LEMMA UnknownMoves ==
    ASSUME Inv, NEW e \in End, HandleUnknown(e) PROVE Moves(e)
<1>0. PICK m : m = Head(incoming[e])
  OBVIOUS
<1>1. TypeOK /\ CanReceive(e) /\ m.kind = "Unknown" /\ Dispatch(e, m)
  BY <1>0 DEF Inv, HandleUnknown
<1>2. m.id \in Nat
  BY <1>0, <1>1, NextEnvelope
<1>3. PICK env : env = Env(nextId[e], "Response", m.id, m.id, 0)
  OBVIOUS
<1>4. /\ env \in Envelope /\ env.id = nextId[e] /\ env.kind = "Response" /\ env.ack = m.id
      /\ env.re = m.id
  <2>1. nextId[e] \in Nat /\ "Response" \in Kind /\ m.id \in Id /\ 0 \in Nat
    BY <1>1, <1>2, Values, Kinds
  <2> QED
    BY <1>3, <2>1 DEF Env, Envelope
<1>5. PICK buf : Receive(e, buf) /\ SendBuffered(e, env, buf)
  BY <1>0, <1>3 DEF HandleUnknown
<1>6. /\ nextId' = [nextId EXCEPT ![e] = @ + 1]
      /\ UNCHANGED <<responseChannels, sending, transport, resync, answers>>
  BY DEF HandleUnknown, channels, tasks
<1> DEFINE out == <<env>>
<1>7. /\ Keeps(e, TRUE, buf) /\ incoming[e] # <<>>
      /\ incoming' = [incoming EXCEPT ![e] = Tail(@)]
  BY <1>1, <1>5, Popping
<1>8. nextId'[e] = nextId[e] + 1 /\ \A d \in End : d # e => nextId'[d] = nextId[d]
  BY <1>1, <1>6, Drawing
<1>9. m.kind \notin {"Flush", "RemoteStarted", "Ack"} /\ env.kind \notin ControlKind
  BY <1>1, <1>4, Kinds
<1>10. Gets(e, TRUE)
  BY <1>0, <1>1, <1>7, <1>9 DEF Gets
<1>11. out \in Seq(Envelope) /\ Range(out) = {env}
  BY <1>4, OnlyOne
<1>12. maxReceived'[e] = m.id
  BY <1>1 DEF Dispatch, TypeOK
<1>13. Puts(e, buf, out)
  BY <1>4, <1>5, <1>8, <1>9, <1>11, <1>12 DEF Puts, SendBuffered
<1>14. m.id \in Received(e)'
  BY <1>1, <1>2, <1>9, Dispatching
<1>15. Marks(e, TRUE, buf, out)
  BY <1>4, <1>8, <1>11, <1>14 DEF Marks
<1>16. Flushes(e, TRUE, buf, out)
  BY <1>0, <1>6, <1>9 DEF Flushes, resync
<1> HIDE DEF out
<1>17. EndStep(e, TRUE, buf, out)
  BY <1>1, <1>6, <1>7, <1>8, <1>10, <1>13, <1>15, <1>16 DEF EndStep, transport, resync, Ready
<1> QED
  BY <1>17 DEF Moves

\* What was sent and not yet received stays in the queue, or in the buffer.
Acked(e, a) == Good(a, nextId[e], SentIds(e), Received(Peer(e)))
AllAcked(e) ==
    /\ Acked(Peer(e), maxReceived[e])
    /\ \A m \in Transit(e) : Acked(Peer(e), m.ack)
Ordered(e, n) == InOrder(Queue(e), n, SentIds(e), Received(Peer(e)))
Stored(e) == \A x \in SentIds(e) : x = 0 \/ x \in Received(Peer(e)) \/ x \in IdsOf(buffer[e])
Settled(e) == SentIds(e) \subseteq Received(Peer(e)) \union Flying(Queue(e))

\* What holds whatever the connection does.
Basics(e) ==
    /\ sending[e] = {}
    /\ Received(Peer(e)) \subseteq SentIds(e)
    /\ Received(Peer(e)) # {} /\ 0 \in SentIds(e) => 0 \in Received(Peer(e))
    /\ \A m \in Range(buffer[e]) : m.kind \notin ControlKind
    /\ \A m \in Transit(e) :
        /\ m.kind # "RemoteStarted" =>
            m.id < nextId[e] /\ (m.kind \in ControlKind => m.id \notin SentIds(e))
        /\ m.re \in {None, 0} \/ m.re < nextId[Peer(e)]
        /\ e = "server" => m.kind # "Flush"
    /\ Ready => Received(e) # {}

\* What a step of end e means to what it sends.
Sender(e, ack, out) ==
    /\ out \in Seq(Envelope)
    /\ Queue(e)' = IF e = "client" /\ link = "down" THEN Queue(e) ELSE Queue(e) \o out
    /\ incoming'[Peer(e)] = incoming[Peer(e)]
    /\ SentIds(e) \subseteq SentIds(e)'
    /\ \A x \in SentIds(e)' : \/ x \in SentIds(e)
                              \/ x = nextId[e] /\ x \in Flying(out) /\ x \in IdsOf(buffer'[e])
    /\ nextId[e] <= nextId'[e]
    /\ Received(Peer(e))' = Received(Peer(e)) /\ maxReceived'[Peer(e)] = maxReceived[Peer(e)]
    /\ \A x \in IdsOf(buffer[e]) : x \in IdsOf(buffer'[e]) \/ Covers(ack, x)
    /\ Transit(e)' \subseteq Transit(e) \union Range(out)

\* What it means to what the other end sends.
Receiver(e, got) ==
    LET p == Peer(e)
        m == Head(incoming[e]) IN
    /\ Queue(p)' = IF got THEN Tail(Queue(p)) ELSE Queue(p)
    /\ got => Queue(p) # <<>> /\ Head(Queue(p)) = m /\ incoming[e] # <<>>
    /\ incoming'[e] = IF got THEN Tail(incoming[e]) ELSE incoming[e]
    /\ outgoing'[p] = outgoing[p]
    /\ SentIds(p)' = SentIds(p) /\ nextId'[p] = nextId[p] /\ buffer'[p] = buffer[p]
    /\ Received(e)' = Received(e) \union (IF got /\ m.kind \notin ControlKind THEN {m.id} ELSE {})
    /\ maxReceived'[e] = IF got /\ m.kind \notin {"Flush", "RemoteStarted"} THEN m.id
                         ELSE maxReceived[e]
    /\ Transit(p)' \subseteq Transit(p)

\* The queues are joined, and what they hold is under way.
LEMMA Queues ==
    ASSUME TypeOK, NEW e \in End
    PROVE  /\ Queue(e) \in Seq(Envelope) /\ Len(incoming[Peer(e)]) \in Nat
           /\ Len(incoming[Peer(e)]) <= Len(Queue(e)) /\ Len(Queue(e)) \in Nat
           /\ DOMAIN Queue(e) = 1 .. Len(Queue(e))
           /\ \A i \in 1 .. Len(incoming[Peer(e)]) : Queue(e)[i] = incoming[Peer(e)][i]
           /\ Range(Queue(e)) \subseteq Transit(e)
           /\ \A i \in 1 .. Len(Queue(e)) : Queue(e)[i] \in Transit(e)
<1>1. incoming[Peer(e)] \in Seq(Envelope) /\ outgoing[e] \in Seq(Envelope)
  BY Values, Kinds
<1>5. PICK s, t : s = incoming[Peer(e)] /\ t = outgoing[e]
  OBVIOUS
<1>6. /\ s \o t \in Seq(Envelope) /\ DOMAIN (s \o t) = 1 .. (Len(s) + Len(t))
      /\ Len(s) \in Nat /\ Len(t) \in Nat /\ Len(s \o t) = Len(s) + Len(t)
      /\ \A i \in 1 .. Len(s) : (s \o t)[i] = s[i]
  <2>1. s \in Seq(Envelope) /\ t \in Seq(Envelope)
    BY <1>1, <1>5
  <2> QED
    BY ONLY <2>1, Joined
<1>2. /\ Queue(e) \in Seq(Envelope) /\ DOMAIN Queue(e) = 1 .. Len(Queue(e))
      /\ Len(s) \in Nat /\ Len(Queue(e)) \in Nat /\ Len(s) <= Len(Queue(e))
      /\ \A i \in 1 .. Len(s) : Queue(e)[i] = s[i]
  <2>1. Queue(e) = s \o t
    BY <1>5 DEF Queue
  <2>2. Len(s) + Len(t) \in Nat /\ Len(s) <= Len(s) + Len(t)
    BY <1>6
  <2> QED
    BY <1>6, <2>1, <2>2
<1>3. Range(Queue(e)) = Range(incoming[Peer(e)]) \union Range(outgoing[e])
  BY <1>1, Elements DEF Queue
<1>4. Range(Queue(e)) \subseteq Transit(e)
  BY <1>3 DEF Transit
<1>7. \A i \in 1 .. Len(Queue(e)) : Queue(e)[i] \in Range(Queue(e))
  BY <1>2 DEF Range
<1> QED
  BY <1>2, <1>4, <1>5, <1>7

\* What an end puts into its queue comes last.
LEMMA QueueGrows ==
    ASSUME TypeOK, NEW e \in End, NEW out \in Seq(Envelope), Put(e, out),
           incoming'[Peer(e)] = incoming[Peer(e)]
    PROVE  Queue(e)' = IF e = "client" /\ link = "down" THEN Queue(e) ELSE Queue(e) \o out
<1>1. incoming[Peer(e)] \in Seq(Envelope) /\ outgoing[e] \in Seq(Envelope)
  BY Values, Kinds
<1>2. outgoing'[e] = IF e = "client" /\ link = "down" THEN outgoing[e] ELSE outgoing[e] \o out
  BY DEF Put, TypeOK
<1>3. incoming[Peer(e)] \o (outgoing[e] \o out) = (incoming[Peer(e)] \o outgoing[e]) \o out
  <2>1. PICK s, t : s = incoming[Peer(e)] /\ t = outgoing[e]
    OBVIOUS
  <2>2. s \in Seq(Envelope) /\ t \in Seq(Envelope)
    BY <1>1, <2>1
  <2>3. \A u \in Seq(Envelope) : (s \o t) \o u = s \o (t \o u)
    BY ONLY <2>2, ConcatAssociative
  <2> QED
    BY ONLY <2>1, <2>3, out \in Seq(Envelope), Zenon
<1> QED
  BY <1>2, <1>3 DEF Queue

\* What an end takes comes first in the other end's queue.
LEMMA QueueMoves ==
    ASSUME TypeOK, NEW e \in End, incoming[e] # <<>>, incoming'[e] = Tail(incoming[e]),
           outgoing'[Peer(e)] = outgoing[Peer(e)]
    PROVE  /\ Queue(Peer(e)) # <<>> /\ Head(Queue(Peer(e))) = Head(incoming[e])
           /\ Queue(Peer(e))' = Tail(Queue(Peer(e)))
<1>1. incoming[e] \in Seq(Envelope) /\ outgoing[Peer(e)] \in Seq(Envelope) /\ Peer(Peer(e)) = e
  BY Values, Kinds
<1>2. /\ incoming[e] \o outgoing[Peer(e)] # <<>>
      /\ Head(incoming[e] \o outgoing[Peer(e)]) = Head(incoming[e])
      /\ Tail(incoming[e] \o outgoing[Peer(e)]) = Tail(incoming[e]) \o outgoing[Peer(e)]
  BY <1>1, NextOfTwo
<1> QED
  BY <1>1, <1>2 DEF Queue

\* Taking an envelope, or none.
LEMMA Getting ==
    ASSUME TypeOK, NEW e \in End, NEW got \in BOOLEAN, Gets(e, got)
    PROVE  LET p == Peer(e)
               m == Head(incoming[e]) IN
           /\ incoming'[p] = incoming[p]
           /\ incoming'[e] = IF got THEN Tail(incoming[e]) ELSE incoming[e]
           /\ got => incoming[e] # <<>>
           /\ Received(p)' = Received(p) /\ maxReceived'[p] = maxReceived[p]
           /\ Received(e)' = Received(e) \union (IF got /\ m.kind \notin ControlKind THEN {m.id} ELSE {})
           /\ maxReceived'[e] = IF got /\ m.kind \notin {"Flush", "RemoteStarted"} THEN m.id
                                ELSE maxReceived[e]
<1> DEFINE m == Head(incoming[e])
<1>1. Peer(e) \in End /\ Peer(e) # e /\ ControlKind = {"RemoteStarted", "Flush", "Ack"}
  BY Kinds
<1>2. CASE ~ got
  BY <1>2 DEF Gets, Received
<1>3. CASE got /\ m.kind \in {"Flush", "RemoteStarted"}
  <2>1. incoming[e] # <<>> /\ incoming' = [incoming EXCEPT ![e] = Tail(@)]
        /\ UNCHANGED <<maxReceived, received>>
    BY <1>3 DEF Gets
  <2> QED
    BY <1>1, <1>3, <2>1 DEF Received, TypeOK
<1>4. CASE got /\ m.kind \notin {"Flush", "RemoteStarted"}
  <2>1. incoming[e] # <<>> /\ incoming' = [incoming EXCEPT ![e] = Tail(@)] /\ Dispatch(e, m)
    BY <1>4 DEF Gets
  <2>2. m.id \in Nat
    <3>1. incoming[e] \in Seq(Envelope)
      BY Values
    <3>2. m \in Envelope
      BY <2>1, <3>1, HeadTailProperties
    <3> QED
      BY <3>2 DEF Envelope
  <2>3. /\ m.kind # "Ack" => m.id \in Received(e)'
        /\ Received(e) \subseteq Received(e)'
        /\ Received(e)' \subseteq Received(e) \union (IF m.kind = "Ack" THEN {} ELSE {m.id})
    BY <2>1, <2>2, Dispatching
  <2>4. maxReceived'[Peer(e)] = maxReceived[Peer(e)] /\ maxReceived'[e] = m.id
        /\ received'[Peer(e)] = received[Peer(e)]
    BY <1>1, <2>1 DEF Dispatch, TypeOK
  <2>5. Received(Peer(e))' = Received(Peer(e))
    BY <2>4 DEF Received
  <2>6. incoming'[Peer(e)] = incoming[Peer(e)] /\ incoming'[e] = Tail(incoming[e])
    BY <1>1, <2>1 DEF TypeOK
  <2>7. m.kind \in ControlKind <=> m.kind = "Ack"
    BY <1>1, <1>4
  <2> QED
    BY <1>4, <2>1, <2>3, <2>4, <2>5, <2>6, <2>7
<1> QED
  BY <1>2, <1>3, <1>4

\* What a step of an end means to what it sends ...
LEMMA SenderHolds ==
    ASSUME TypeOK, NEW e \in End, NEW got \in BOOLEAN, NEW buf, NEW out,
           EndStep(e, got, buf, out), Grows(e)
    PROVE  Sender(e, IF got THEN Head(incoming[e]).ack ELSE None, out)
<1> DEFINE ack == IF got THEN Head(incoming[e]).ack ELSE None
<1>1. /\ Gets(e, got) /\ Keeps(e, got, buf) /\ Puts(e, buf, out)
      /\ buf \in Seq(Envelope) /\ out \in Seq(Envelope) /\ Put(e, out)
  BY DEF EndStep, Puts, Keeps
<1>2. /\ incoming'[Peer(e)] = incoming[Peer(e)]
      /\ Received(Peer(e))' = Received(Peer(e)) /\ maxReceived'[Peer(e)] = maxReceived[Peer(e)]
  BY <1>1, Getting
<1>3. Queue(e)' = IF e = "client" /\ link = "down" THEN Queue(e) ELSE Queue(e) \o out
  BY <1>1, <1>2, QueueGrows
<1>4. nextId[e] <= nextId'[e]
  BY DEF Grows
<1>5. \/ UNCHANGED sent /\ buffer'[e] = buf
      \/ \E env \in Envelope : /\ out = <<env>> /\ SendBuffered(e, env, buf)
                               /\ env.id = nextId[e] /\ env.kind \notin ControlKind
  BY <1>1 DEF Puts, TypeOK
<1>6. /\ SentIds(e) \subseteq SentIds(e)'
      /\ \A x \in SentIds(e)' : x \in SentIds(e)
            \/ (x = nextId[e] /\ x \in Flying(out) /\ x \in IdsOf(buffer'[e]))
      /\ Range(buf) \subseteq Range(buffer'[e]) /\ Range(buffer'[e]) \subseteq Range(buf) \union Range(out)
  <2>1. CASE UNCHANGED sent /\ buffer'[e] = buf
    BY <2>1, SentGrows
  <2>2. ASSUME NEW env \in Envelope, out = <<env>>, SendBuffered(e, env, buf),
               env.id = nextId[e], env.kind \notin ControlKind
        PROVE  <1>6!1 /\ <1>6!2 /\ <1>6!3
    <3>1. SentIds(e)' = SentIds(e) \union {env.id}
      BY <1>1, <2>2, OneMoreSent
    <3>2. Range(buffer'[e]) = Range(buf) \union {env}
      <4>1. TypeOK /\ e \in End /\ env \in Envelope /\ buf \in Seq(Envelope) /\ SendBuffered(e, env, buf)
        BY <1>1, <2>2
      <4> QED
        BY ONLY <4>1, Buffering
    <3>3. Range(out) = {env}
      BY <2>2, OnlyOne
    <3>4. env.id \in Flying(out)
      <4>1. Flying(out) = {m.id : m \in {m \in Range(out) : m.kind \notin ControlKind}}
        BY <1>1, FlyingStays
      <4> QED
        BY <2>2, <3>3, <4>1
    <3>5. env.id \in IdsOf(buffer'[e])
      BY <3>2 DEF IdsOf, Range
    <3> QED
      BY <2>2, <3>1, <3>2, <3>3, <3>4, <3>5
  <2> QED
    BY <1>5, <2>1, <2>2
<1>7. \A x \in IdsOf(buffer[e]) : x \in IdsOf(buffer'[e]) \/ Covers(ack, x)
  <2>1. ASSUME NEW b \in Range(buffer[e]) PROVE b.id \in IdsOf(buffer'[e]) \/ Covers(ack, b.id)
    <3>1. CASE b \in Range(buf)
      BY <1>6, <3>1 DEF IdsOf, Range
    <3>2. CASE b \notin Range(buf)
      BY <1>1, <3>2 DEF Keeps
    <3> QED
      BY <3>1, <3>2
  <2>2. \A x \in IdsOf(buffer[e]) : \E b \in Range(buffer[e]) : x = b.id
    BY DEF IdsOf, Range
  <2> HIDE DEF ack
  <2> QED
    BY <2>1, <2>2
<1>8. Transit(e)' \subseteq Transit(e) \union Range(out)
  <2>1. Range(outgoing'[e]) \subseteq Range(outgoing[e]) \union Range(out)
    BY <1>1, Putting
  <2>2. Range(buffer'[e]) \subseteq Range(buffer[e]) \union Range(out)
    BY <1>1, <1>6 DEF Keeps
  <2> QED
    BY <1>2, <2>1, <2>2 DEF Transit
<1> QED
  BY <1>1, <1>2, <1>3, <1>4, <1>6, <1>7, <1>8 DEF Sender

\* ... and to what the other end sends.
LEMMA ReceiverHolds ==
    ASSUME TypeOK, NEW e \in End, NEW got \in BOOLEAN, NEW buf, NEW out,
           EndStep(e, got, buf, out)
    PROVE  Receiver(e, got)
<1> DEFINE p == Peer(e)
<1>0. p \in End /\ p # e /\ Peer(p) = e
  BY Kinds
<1>1. /\ Gets(e, got) /\ Keeps(e, got, buf) /\ Puts(e, buf, out)
      /\ buf \in Seq(Envelope) /\ out \in Seq(Envelope) /\ Put(e, out)
  BY DEF EndStep, Puts, Keeps
<1>2. /\ incoming'[e] = IF got THEN Tail(incoming[e]) ELSE incoming[e]
      /\ got => incoming[e] # <<>>
      /\ Received(e)' = Received(e) \union
            (IF got /\ Head(incoming[e]).kind \notin ControlKind THEN {Head(incoming[e]).id} ELSE {})
      /\ maxReceived'[e] = IF got /\ Head(incoming[e]).kind \notin {"Flush", "RemoteStarted"}
                           THEN Head(incoming[e]).id ELSE maxReceived[e]
  BY <1>1, Getting
<1>3. outgoing'[p] = outgoing[p]
  BY <1>0, <1>1, Putting
<1>4. nextId'[p] = nextId[p]
  BY <1>0 DEF EndStep
<1>5. SentIds(p)' = SentIds(p) /\ buffer'[p] = buffer[p]
  <2>1. CASE UNCHANGED sent /\ buffer' = [buffer EXCEPT ![e] = buf]
    BY <1>0, <2>1, SentGrows DEF TypeOK
  <2>2. ASSUME NEW env \in Envelope, SendBuffered(e, env, buf)
        PROVE  SentIds(p)' = SentIds(p) /\ buffer'[p] = buffer[p]
    <3>1. SentIds(p)' = SentIds(p)
      BY <1>0, <1>1, <2>2, OneMoreSent
    <3>2. buffer'[p] = buffer[p]
      BY <1>0, <2>2 DEF SendBuffered, TypeOK
    <3> QED
      BY <3>1, <3>2
  <2> QED
    BY <1>1, <2>1, <2>2 DEF Puts
<1>6. /\ Queue(p)' = IF got THEN Tail(Queue(p)) ELSE Queue(p)
      /\ got => Queue(p) # <<>> /\ Head(Queue(p)) = Head(incoming[e])
  <2>1. CASE got
    BY <1>2, <1>3, <2>1, QueueMoves
  <2>2. CASE ~ got
    BY <1>0, <1>2, <1>3, <2>2 DEF Queue
  <2> QED
    BY <2>1, <2>2
<1>7. Transit(p)' \subseteq Transit(p)
  <2>1. Range(incoming'[e]) \subseteq Range(incoming[e])
    BY <1>2, Values, Elements
  <2> QED
    BY <1>0, <1>3, <1>5, <2>1 DEF Transit
<1> QED
  BY <1>2, <1>3, <1>4, <1>5, <1>6, <1>7 DEF Receiver

\* The ids sent are those the end has drawn.
LEMMA SentIdsDrawn ==
    ASSUME Inv, NEW e \in End
    PROVE  SentIds(e) \subseteq Nat /\ \A x \in SentIds(e) : x < nextId[e]
<1>1. \A x \in Sent(e) : x.id \in Nat /\ x.id < nextId[e]
  BY UsedTypes DEF Inv, Ids, Used
<1> QED
  BY <1>1, SentGrows

\* What an end sends keeps what it has sent within reach ...
LEMMA SenderKeeps ==
    ASSUME Inv, TypeOK', NEW e \in End, NEW ack, NEW out, Sender(e, ack, out)
    PROVE  /\ \A a : Acked(e, a) => Acked(e, a)'
           /\ Settled(e) /\ ~ (e = "client" /\ link = "down") => Settled(e)'
           /\ Stored(e) /\ Acked(e, ack) => Stored(e)'
<1>1. /\ TypeOK /\ Queue(e) \in Seq(Envelope) /\ out \in Seq(Envelope)
      /\ nextId[e] \in Nat /\ nextId'[e] \in Nat /\ SentIds(e) \subseteq Nat
  BY Queues, Values, SentIdsDrawn DEF Inv, TypeOK, Sender
<1>2. /\ \A x \in SentIds(e)' : x \in SentIds(e)
            \/ (x = nextId[e] /\ x \in Flying(out) /\ x \in IdsOf(buffer'[e]))
      /\ nextId[e] <= nextId'[e] /\ Received(Peer(e))' = Received(Peer(e))
      /\ \A x \in IdsOf(buffer[e]) : x \in IdsOf(buffer'[e]) \/ Covers(ack, x)
  BY DEF Sender
<1>3. ASSUME NEW a, Acked(e, a) PROVE Acked(e, a)'
  <2>1. SentIds(e)' \subseteq SentIds(e) \union {nextId[e]}
    BY <1>2
  <2>2. Good(a, nextId[e], SentIds(e), Received(Peer(e)))
    BY <1>3 DEF Acked
  <2>3. Good(a, nextId'[e], SentIds(e)', Received(Peer(e))')
    BY <1>1, <1>2, <2>1, <2>2, GoodStays
  <2> QED
    BY <2>3 DEF Acked
<1>4. ASSUME Settled(e), ~ (e = "client" /\ link = "down") PROVE Settled(e)'
  <2>1. Queue(e)' = Queue(e) \o out
    BY <1>4 DEF Sender
  <2>2. Flying(Queue(e))' = Flying(Queue(e)) \union Flying(out)
    <3>1. Flying(Queue(e) \o out) = Flying(Queue(e)) \union Flying(out)
      BY <1>1, FlyingStays
    <3> QED
      BY <2>1, <3>1 DEF Flying
  <2> QED
    BY <1>2, <1>4, <2>2 DEF Settled
<1>5. ASSUME Stored(e), Acked(e, ack) PROVE Stored(e)'
  <2>1. ASSUME NEW x \in SentIds(e), Covers(ack, x) PROVE x = 0 \/ x \in Received(Peer(e))
    BY <1>1, <1>5, <2>1 DEF Acked, Good, Covers
  <2> SUFFICES ASSUME NEW x \in SentIds(e)'
               PROVE  x = 0 \/ x \in Received(Peer(e))' \/ x \in IdsOf(buffer'[e])
    BY DEF Stored
  <2>2. CASE x \in SentIds(e)
    BY <1>2, <1>5, <2>1, <2>2 DEF Stored
  <2>3. CASE x \notin SentIds(e)
    BY <1>2, <2>3
  <2> QED
    BY <2>2, <2>3
<1> QED
  BY <1>3, <1>4, <1>5

\* ... and so does what the other end takes.
LEMMA ReceiverKeeps ==
    ASSUME TypeOK, NEW e \in End, NEW got \in BOOLEAN, Receiver(e, got)
    PROVE  LET p == Peer(e) IN
           /\ \A a : Acked(p, a) => Acked(p, a)'
           /\ Settled(p) => Settled(p)'
           /\ Stored(p) => Stored(p)'
<1> DEFINE p == Peer(e)
<1>0. p \in End /\ Peer(p) = e /\ Queue(p) \in Seq(Envelope)
  BY Kinds, Queues
<1>1. /\ Queue(p)' = IF got THEN Tail(Queue(p)) ELSE Queue(p)
      /\ got => Queue(p) # <<>> /\ Head(Queue(p)) = Head(incoming[e])
      /\ SentIds(p)' = SentIds(p) /\ nextId'[p] = nextId[p] /\ buffer'[p] = buffer[p]
      /\ Received(e)' = Received(e) \union
            (IF got /\ Head(incoming[e]).kind \notin ControlKind THEN {Head(incoming[e]).id} ELSE {})
  BY DEF Receiver
<1>2. ASSUME NEW a, Acked(p, a) PROVE Acked(p, a)'
  BY <1>0, <1>1, <1>2 DEF Acked, Good
<1>3. ASSUME Settled(p) PROVE Settled(p)'
  <2>1. CASE got
    <3>1. Flying(Queue(p)) \subseteq Flying(Tail(Queue(p))) \union
            (IF Head(Queue(p)).kind \in ControlKind THEN {} ELSE {Head(Queue(p)).id})
      BY <1>0, <1>1, <2>1, FlyingStays
    <3>2. Flying(Queue(p))' = Flying(Tail(Queue(p)))
      BY <1>1, <2>1 DEF Flying
    <3> QED
      BY <1>0, <1>1, <1>3, <2>1, <3>1, <3>2 DEF Settled
  <2>2. CASE ~ got
    <3>1. Flying(Queue(p))' = Flying(Queue(p))
      BY <1>1, <2>2 DEF Flying
    <3> QED
      BY <1>0, <1>1, <1>3, <2>2, <3>1 DEF Settled
  <2> QED
    BY <2>1, <2>2
<1>4. ASSUME Stored(p) PROVE Stored(p)'
  <2>1. IdsOf(buffer[p])' = IdsOf(buffer[p])
    BY <1>1 DEF IdsOf
  <2> QED
    BY <1>0, <1>1, <1>4, <2>1 DEF Stored
<1> QED
  BY <1>2, <1>3, <1>4

\* What is under way is made of envelopes.
LEMMA TransitTypes ==
    ASSUME TypeOK, NEW e \in End
    PROVE  /\ Transit(e) \subseteq Envelope
           /\ \A m \in Transit(e) : m.id \in Nat /\ m.re \in Id /\ m.ack \in Id /\ m.kind \in Kind
<1>1. /\ outgoing[e] \in Seq(Envelope) /\ incoming[Peer(e)] \in Seq(Envelope)
      /\ buffer[e] \in Seq(Envelope)
  BY Values, Kinds
<1>2. /\ Range(outgoing[e]) \subseteq Envelope /\ Range(incoming[Peer(e)]) \subseteq Envelope
      /\ Range(buffer[e]) \subseteq Envelope
  <2>1. \A S : \A s \in Seq(S) : Range(s) \subseteq S
    BY Elements
  <2> QED
    BY ONLY <1>1, <2>1
<1>3. Transit(e) \subseteq Envelope
  BY <1>2 DEF Transit
<1> QED
  BY <1>3 DEF Envelope

\* The order of what was sent stays as more is sent ...
LEMMA SenderOrder ==
    ASSUME Inv, NEW e \in End, Basics(e), NEW ack, NEW out, Sender(e, ack, out)
    PROVE  /\ \A n \in 0 .. Len(Queue(e)) : Ordered(e, n) => Ordered(e, n)'
           /\ Ordered(e, Len(Queue(e))) /\ Settled(e) /\ ~ (e = "client" /\ link = "down")
              /\ (\A o \in Range(out) : o.kind = "RemoteStarted" \/ o.id <= nextId[e])
              => Ordered(e, Len(Queue(e)))'
<1> DEFINE q == Queue(e)
           S == SentIds(e)
           R == Received(Peer(e))
           T == SentIds(e)'
           U == Received(Peer(e))'
           k == nextId[e]
<1>1. /\ q \in Seq(Envelope) /\ out \in Seq(Envelope) /\ Len(q) \in Nat /\ k \in Nat
      /\ q' = (IF e = "client" /\ link = "down" THEN q ELSE q \o out)
      /\ T \subseteq S \union {k} /\ R \subseteq U
  BY Queues, Values DEF Inv, Sender
<1>2. \A m \in Transit(e) : m.kind = "RemoteStarted" \/ m.id <= k
  <2>1. \A m \in Transit(e) : m.id \in Nat
    BY TransitTypes DEF Inv
  <2> QED
    BY <1>1, <2>1 DEF Basics
<1>3. \A m \in Range(q) : m.kind = "RemoteStarted" \/ m.id <= k
  BY <1>2, Queues DEF Inv
<1>4. DOMAIN q = 1 .. Len(q)
  BY <1>1, LenProperties
<1>5. \A n : (Ordered(e, n) <=> InOrder(q, n, S, R)) /\ (Ordered(e, n)' <=> InOrder(q', n, T, U))
  BY DEF Ordered
<1> HIDE DEF q, S, R, T, U, k
<1>6. ASSUME NEW n \in 0 .. Len(q), InOrder(q, n, S, R) PROVE InOrder(q', n, T, U)
  <2>1. n \in Nat /\ n <= Len(q)
    BY <1>1
  <2>2. \A i \in 1 .. n : q[i].kind = "RemoteStarted" \/ q[i].id <= k
    <3>1. \A i \in 1 .. n : i \in DOMAIN q
      BY <1>1, <1>4
    <3> QED
      BY <1>3, <3>1 DEF Range
  <2>3. InOrder(q \o out, n, T, U) /\ InOrder(q, n, T, U)
    BY <1>1, <1>6, <2>1, <2>2, OrderStays
  <2> QED
    BY <1>1, <2>3
<1>7. ASSUME InOrder(q, Len(q), S, R), S \subseteq R \union Flying(q),
             ~ (e = "client" /\ link = "down"),
             \A o \in Range(out) : o.kind = "RemoteStarted" \/ o.id <= k
      PROVE  InOrder(q', Len(q'), T, U)
  <2>1. InOrder(q \o out, Len(q \o out), T, U)
    BY <1>1, <1>3, <1>7, OrderGrows
  <2> QED
    BY <1>1, <1>7, <2>1
<1> QED
  BY <1>5, <1>6, <1>7 DEF Settled, q, S, R, T, U, k

\* ... and moves up as it is taken.
LEMMA ReceiverOrder ==
    ASSUME TypeOK, NEW e \in End, NEW got \in BOOLEAN, Receiver(e, got)
    PROVE  \A n \in 0 .. Len(Queue(Peer(e))) : Ordered(Peer(e), n) =>
             /\ ~ got => Ordered(Peer(e), n)'
             /\ got => Ordered(Peer(e), IF n = 0 THEN 0 ELSE n - 1)'
<1> DEFINE p == Peer(e)
           q == Queue(p)
           S == SentIds(p)
           R == Received(e)
           U == Received(e)'
<1>1. /\ p \in End /\ Peer(p) = e /\ q \in Seq(Envelope) /\ Len(q) \in Nat
  BY Kinds, Queues
<1>2. /\ q' = IF got THEN Tail(q) ELSE q
      /\ got => q # <<>> /\ Head(q) = Head(incoming[e])
      /\ SentIds(p)' = S /\ R \subseteq U
      /\ got /\ Head(incoming[e]).kind \notin ControlKind => Head(incoming[e]).id \in U
      /\ ~ got => U = R
  BY DEF Receiver
<1>3. \A n : (Ordered(p, n) <=> InOrder(q, n, S, R)) /\ (Ordered(p, n)' <=> InOrder(q', n, SentIds(p)', U))
  BY <1>1 DEF Ordered
<1> HIDE DEF q, S, R, U
<1>4. ASSUME NEW n \in 0 .. Len(q), InOrder(q, n, S, R), got
      PROVE  InOrder(Tail(q), IF n = 0 THEN 0 ELSE n - 1, S, U)
  <2>1. CASE n = 0
    BY <2>1 DEF InOrder
  <2>2. CASE n # 0
    <3>1. n \in 1 .. Len(q)
      BY <1>1, <2>2
    <3>2. InOrder(Tail(q), n - 1, S, U)
      BY <1>1, <1>2, <1>4, <3>1, OrderMovesUp
    <3> QED
      BY <2>2, <3>2
  <2> QED
    BY <2>1, <2>2
<1>5. ASSUME NEW n \in 0 .. Len(q), Ordered(p, n)
      PROVE  /\ ~ got => Ordered(p, n)'
             /\ got => Ordered(p, IF n = 0 THEN 0 ELSE n - 1)'
  <2>1. InOrder(q, n, S, R)
    BY <1>3, <1>5
  <2>2. ASSUME got PROVE Ordered(p, IF n = 0 THEN 0 ELSE n - 1)'
    <3>1. InOrder(Tail(q), IF n = 0 THEN 0 ELSE n - 1, S, U)
      BY <1>4, <2>1, <2>2
    <3>2. InOrder(q', IF n = 0 THEN 0 ELSE n - 1, SentIds(p)', U)
      BY <1>2, <2>2, <3>1
    <3> QED
      BY <1>3, <3>2
  <2>3. ASSUME ~ got PROVE Ordered(p, n)'
    BY <1>2, <1>3, <2>1, <2>3
  <2> QED
    BY <2>2, <2>3
<1> QED
  BY <1>5 DEF q

\* What an end takes in order comes after all that was sent before it.
LEMMA TakenInOrder ==
    ASSUME Inv, NEW e \in End, Receiver(e, TRUE), Basics(Peer(e)),
           NEW n \in 1 .. Len(Queue(Peer(e))), Ordered(Peer(e), n),
           NEW m, m = Head(incoming[e]), m.kind # "RemoteStarted"
    PROVE  /\ Acked(Peer(e), m.id)'
           /\ \A x \in SentIds(Peer(e))' : x <= m.id => x \in Received(e)'
<1> DEFINE p == Peer(e)
           q == Queue(p)
           S == SentIds(p)
           R == Received(e)
           U == Received(e)'
<1>1. /\ p \in End /\ Peer(p) = e /\ q \in Seq(Envelope) /\ Len(q) \in Nat
      /\ S \in SUBSET Nat /\ nextId[p] \in Nat
  BY Kinds, Queues, SentIdsDrawn, Values DEF Inv
<1>2. /\ q # <<>> /\ Head(q) = m /\ SentIds(p)' = S /\ R \subseteq U /\ nextId'[p] = nextId[p]
      /\ m.kind \notin ControlKind => m.id \in U
  BY DEF Receiver
<1>3. m \in Transit(p)
  <2>1. Head(q) \in Range(q)
    BY <1>1, <1>2, Elements
  <2> QED
    BY <1>1, <1>2, <2>1, Queues DEF Inv
<1>4. m.id < nextId[p] /\ (m.kind \in ControlKind => m.id \notin S)
  BY <1>3 DEF Basics
<1>5. InOrder(q, n, S, R)
  BY <1>1 DEF Ordered
<1>6. n \in Nat /\ n >= 1
  BY <1>1
<1>7. m.kind # "RemoteStarted"
  OBVIOUS
<1>8. m.id \in S => m.id \in U
  BY <1>2, <1>4
<1> HIDE DEF q, S, R, U, p
<1>9. Good(m.id, nextId[p], S, U) /\ \A x \in S : x <= m.id => x \in U
  <2>1. /\ Head(q).kind # "RemoteStarted" /\ Head(q).id < nextId[p]
        /\ Head(q).id \in S => Head(q).id \in U
    BY <1>2, <1>4, <1>7, <1>8
  <2>2. PICK l : l = nextId[p]
    OBVIOUS
  <2>3. l \in Nat /\ Head(q).id < l
    BY <1>1, <2>1, <2>2
  <2>4. Good(Head(q).id, l, S, U) /\ \A x \in S : x <= Head(q).id => x \in U
    BY <1>1, <1>2, <1>5, <1>6, <2>1, <2>3, HeadIsGood
  <2> QED
    BY <1>2, <2>2, <2>4
<1> QED
  BY <1>1, <1>2, <1>9 DEF Acked, q, S, R, U, p

\* An end that takes the envelopes in order acknowledges only what it has received.
LEMMA ActorAcks ==
    ASSUME Inv, TypeOK', NEW e \in End, NEW got \in BOOLEAN, NEW buf, NEW out,
           EndStep(e, got, buf, out), Grows(e), Basics(Peer(e)), AllAcked(e),
           got /\ Head(incoming[e]).kind # "Flush" =>
                \E n \in 1 .. Len(Queue(Peer(e))) : Ordered(Peer(e), n)
    PROVE  AllAcked(e)'
<1> DEFINE p == Peer(e)
<1>0. PICK m : m = Head(incoming[e])
  OBVIOUS
<1>1. /\ p \in End /\ Peer(p) = e /\ TypeOK
  BY Kinds DEF Inv
<1>2. Sender(e, IF got THEN m.ack ELSE None, out) /\ Receiver(e, got)
  BY <1>0, <1>1, SenderHolds, ReceiverHolds
<1>3. \A a : Acked(p, a) => Acked(p, a)'
  BY <1>1, <1>2, ReceiverKeeps
<1>4. Acked(p, maxReceived[e])'
  <2>1. CASE got /\ m.kind \notin {"Flush", "RemoteStarted"}
    <3>1. PICK n \in 1 .. Len(Queue(p)) : Ordered(p, n)
      BY <1>0, <2>1
    <3>2. Acked(p, m.id)'
      BY <1>0, <1>2, <2>1, <3>1, TakenInOrder
    <3>3. maxReceived'[e] = m.id
      BY <1>0, <1>2, <2>1 DEF Receiver
    <3> QED
      BY <3>2, <3>3
  <2>2. CASE ~ (got /\ m.kind \notin {"Flush", "RemoteStarted"})
    <3>1. maxReceived'[e] = maxReceived[e]
      BY <1>0, <1>2, <2>2 DEF Receiver
    <3>2. PICK a : a = maxReceived[e]
      OBVIOUS
    <3>3. Acked(p, a)'
      BY <1>3, <3>2 DEF AllAcked
    <3> QED
      BY <3>1, <3>2, <3>3
  <2> QED
    BY <2>1, <2>2
<1>5. ASSUME NEW o \in Transit(e)' PROVE Acked(p, o.ack)'
  <2>1. o \in Transit(e) \/ o \in Range(out)
    BY <1>2 DEF Sender
  <2>2. CASE o \in Transit(e)
    BY <1>3, <2>2 DEF AllAcked
  <2>3. CASE o \in Range(out)
    <3>1. \/ o \in Range(buf) \/ o.ack = None \/ o.ack = maxReceived'[e]
      <4>1. Puts(e, buf, out)
        BY DEF EndStep
      <4>2. CASE \E env \in Envelope : out = <<env>> /\ env.ack = maxReceived'[e]
        BY <2>3, <4>2, OnlyOne
      <4>3. CASE \A x \in Range(out) : x \in Range(buf) \/ x.ack = None
        BY <2>3, <4>3
      <4> QED
        BY <4>1, <4>2, <4>3 DEF Puts
    <3>2. Range(buf) \subseteq Transit(e)
      BY DEF EndStep, Keeps, Transit
    <3>3. Acked(p, None)'
      BY DEF Acked, Good
    <3>4. PICK a : a = maxReceived'[e]
      OBVIOUS
    <3>5. Acked(p, a)'
      BY <1>4, <3>4
    <3>6. CASE o \in Range(buf)
      BY <1>3, <3>2, <3>6 DEF AllAcked
    <3>7. CASE o.ack = None
      BY <3>3, <3>7
    <3>8. CASE o.ack = maxReceived'[e]
      BY <3>4, <3>5, <3>8
    <3> QED
      BY <3>1, <3>6, <3>7, <3>8
  <2> QED
    BY <2>1, <2>2, <2>3
<1> QED
  BY <1>1, <1>4, <1>5 DEF AllAcked

\* What the other end has acknowledged stays received.
LEMMA PeerAcks ==
    ASSUME Inv, TypeOK', NEW e \in End, NEW got \in BOOLEAN, NEW buf, NEW out,
           EndStep(e, got, buf, out), Grows(e), AllAcked(Peer(e))
    PROVE  AllAcked(Peer(e))'
<1> DEFINE p == Peer(e)
<1>1. /\ p \in End /\ Peer(p) = e /\ TypeOK
  BY Kinds DEF Inv
<1>2. Sender(e, IF got THEN Head(incoming[e]).ack ELSE None, out) /\ Receiver(e, got)
  BY <1>1, SenderHolds, ReceiverHolds
<1>3. \A a : Acked(e, a) => Acked(e, a)'
  BY <1>2, SenderKeeps
<1>4. maxReceived'[p] = maxReceived[p] /\ Transit(p)' \subseteq Transit(p)
  BY <1>2 DEF Sender, Receiver
<1>5. PICK a : a = maxReceived[p]
  OBVIOUS
<1>6. Acked(e, a)' /\ \A m \in Transit(p)' : Acked(e, m.ack)'
  BY <1>1, <1>3, <1>4, <1>5 DEF AllAcked
<1> QED
  BY <1>1, <1>4, <1>5, <1>6 DEF AllAcked

\* The editor's first answer is to something that it asked, and sent.
LEMMA FirstAnswer ==
    ASSUME Inv, NEW e \in End, NEW got \in BOOLEAN, NEW buf, NEW out,
           EndStep(e, got, buf, out), Grows(e), sending["client"] = {}, ~ Ready, Ready',
           responseChannels["client"] \subseteq SentIds("client")
    PROVE  /\ e = "client" /\ Received("client")' # {} /\ Received("server")' # {}
           /\ \E x \in Sent("client") : x.kind \in Asked
<1>0. PICK m : m = Head(incoming[e])
  OBVIOUS
<1>1. /\ got /\ e = "client" /\ m.kind \in ReplyKind \union {"Ack"} /\ CanReceive(e)
      /\ m.re \in responseChannels[e] \union streamChannels[e]
  BY <1>0 DEF EndStep
<1>2. /\ Right("server", m) /\ Peer("server") = "client" /\ Peer("client") = "server" /\ TypeOK
      /\ ReplyKind \intersect ControlKind = {} /\ "Ack" \notin ReplyKind
      /\ {"Request", "Unknown", "Stream"} \subseteq Asked
  BY <1>0, <1>1, NextEnvelope, Kinds DEF Inv, Peer, Asked
<1>3. Used("client") = Sent("client")
  BY DEF Used
<1>4. m.kind # "Ack"
  <2> SUFFICES ASSUME m.kind = "Ack" PROVE FALSE
    OBVIOUS
  <2>1. \A x \in Sent("client") : x.id = m.re => x.kind \notin Asked
    BY <1>2, <1>3 DEF Right
  <2>2. Channels("client")
    BY Kinds DEF Inv
  <2>3. CASE m.re \in responseChannels["client"]
    <3>1. PICK x \in Sent("client") : x.id = m.re
      BY <2>3, SentGrows, Kinds
    <3>2. x.kind \in {"Request", "Unknown"}
      BY <1>3, <2>2, <2>3, <3>1 DEF Channels
    <3> QED
      BY <1>2, <2>1, <3>1, <3>2
  <2>4. CASE m.re \in streamChannels["client"]
    <3>1. [id |-> m.re, kind |-> "Stream"] \in Sent("client")
      BY <1>3, <2>2, <2>4 DEF Channels
    <3> QED
      BY <1>2, <2>1, <3>1
  <2> QED
    BY <1>1, <2>3, <2>4
<1>5. m.kind \in ReplyKind
  BY <1>1, <1>4
<1>6. /\ m.re \in Received("server")
      /\ \E x \in Sent("client") : x.kind \in {"Request", "Unknown", "Stream"}
  BY <1>2, <1>3, <1>5 DEF Right
<1>7. Receiver("client", TRUE)
  BY <1>1, <1>2, ReceiverHolds
<1>8. Received("client")' # {}
  BY <1>0, <1>1, <1>2, <1>5, <1>7 DEF Receiver
<1>9. Received("server")' = Received("server")
  BY <1>1, <1>2, SenderHolds DEF Sender
<1> QED
  BY <1>1, <1>2, <1>6, <1>8, <1>9

\* A step of an end keeps what does not depend on the connection.
LEMMA BasicsEnd ==
    ASSUME Inv, TypeOK', \A d \in End : Basics(d), NEW e \in End, NEW got \in BOOLEAN, NEW buf, NEW out,
           EndStep(e, got, buf, out), Grows(e),
           got => Ready \/ \E n \in 1 .. Len(Queue(Peer(e))) : Ordered(Peer(e), n),
           Ready \/ responseChannels["client"] \subseteq SentIds("client")
    PROVE  \A d \in End : Basics(d)'
<1> DEFINE p == Peer(e)
<1>0. PICK m : m = Head(incoming[e])
  OBVIOUS
<1>1. /\ p \in End /\ Peer(p) = e /\ p # e /\ TypeOK /\ \A d \in End : d = e \/ d = p
      /\ ControlKind = {"RemoteStarted", "Flush", "Ack"} /\ "client" \in End /\ "server" \in End
  BY Kinds DEF Inv, End, Peer
<1>2. Sender(e, IF got THEN m.ack ELSE None, out) /\ Receiver(e, got)
  BY <1>0, <1>1, SenderHolds, ReceiverHolds
<1>3. Basics(e) /\ Basics(p) /\ nextId[e] \in Nat /\ nextId[p] \in Nat /\ nextId'[e] \in Nat
  BY <1>1, Values DEF TypeOK
<1>4. /\ SentIds(e) \subseteq Nat /\ \A x \in SentIds(e) : x < nextId[e]
      /\ SentIds(p) \subseteq Nat /\ \A x \in SentIds(p) : x < nextId[p]
  BY <1>1, SentIdsDrawn
<1>5. /\ SentIds(e) \subseteq SentIds(e)' /\ SentIds(e)' \subseteq SentIds(e) \union {nextId[e]}
      /\ nextId[e] <= nextId'[e] /\ Received(p)' = Received(p)
      /\ SentIds(p)' = SentIds(p) /\ nextId'[p] = nextId[p] /\ buffer'[p] = buffer[p]
      /\ Received(e)' = Received(e) \union (IF got /\ m.kind \notin ControlKind THEN {m.id} ELSE {})
      /\ Transit(e)' \subseteq Transit(e) \union Range(out) /\ Transit(p)' \subseteq Transit(p)
  BY <1>0, <1>2 DEF Sender, Receiver
<1>6. got => m \in Transit(p) /\ Right(p, m)
  BY <1>0, NextEnvelope DEF EndStep
<1>7. Received(e)' \subseteq SentIds(p)'
  <2>1. got /\ m.kind \notin ControlKind => m.id \in SentIds(p)
    <3>1. Pair(m).id = m.id
      BY DEF Pair
    <3>2. got /\ m.kind \notin ControlKind => Pair(m) \in Sent(p)
      BY <1>6 DEF Right
    <3>3. SentIds(p) = {x.id : x \in Sent(p)}
      BY <1>1, SentGrows
    <3> QED
      BY <3>1, <3>2, <3>3
  <2> QED
    BY <1>1, <1>3, <1>5, <2>1 DEF Basics
<1>8. Received(p)' \subseteq SentIds(e)'
  BY <1>1, <1>3, <1>5 DEF Basics
<1>9. Received(e)' # {} /\ 0 \in SentIds(p)' => 0 \in Received(e)'
  <2>1. CASE Received(e) # {}
    BY <1>1, <1>3, <1>5, <2>1 DEF Basics
  <2>2. CASE Received(e) = {} /\ got /\ m.kind \notin ControlKind
    <3>1. ~ Ready
      BY <1>1, <1>3, <2>2 DEF Basics
    <3>2. PICK n \in 1 .. Len(Queue(p)) : Ordered(p, n)
      BY <2>2, <3>1
    <3>3. \A x \in SentIds(p)' : x <= m.id => x \in Received(e)'
      BY <1>0, <1>1, <1>2, <1>3, <2>2, <3>2, TakenInOrder
    <3>4. m.id \in Nat
      BY <1>1, <1>6, <2>2, TransitTypes
    <3> QED
      BY <3>3, <3>4
  <2>3. CASE Received(e) = {} /\ ~ (got /\ m.kind \notin ControlKind)
    BY <1>5, <2>3
  <2> QED
    BY <2>1, <2>2, <2>3
<1>10. Received(p)' # {} /\ 0 \in SentIds(e)' => 0 \in Received(p)'
  <2> SUFFICES ASSUME NEW x \in Received(p), 0 \in SentIds(e)' PROVE 0 \in Received(p)
    BY <1>5
  <2>1. x \in SentIds(e)
    BY <1>1, <1>3 DEF Basics
  <2>2. nextId[e] # 0
    BY <1>3, <1>4, <2>1
  <2>3. 0 \in SentIds(e)
    BY <1>5, <2>2
  <2> QED
    BY <1>1, <1>3, <2>3 DEF Basics
<1>11. Ready' => Received("client")' # {} /\ Received("server")' # {}
  <2>1. CASE Ready
    <3>1. Received("client") # {} /\ Received("server") # {}
      BY <1>1, <2>1 DEF Basics
    <3>2. \A d \in End : Received(d) \subseteq Received(d)'
      BY <1>1, <1>5
    <3> QED
      BY <1>1, <3>1, <3>2
  <2>2. CASE ~ Ready
    BY <1>1, <2>2, FirstAnswer DEF Basics
  <2> QED
    BY <2>1, <2>2
<1>12. \A d \in End : Ready' => Received(d)' # {}
  BY <1>11 DEF End
<1>13. sending'[e] = {} /\ sending'[p] = {}
  BY <1>1, <1>3 DEF EndStep, Basics
<1>14. \A o \in Range(out) :
        \/ o \in Range(buf)
        \/ o.kind \in {"Ack", "RemoteStarted"} /\ SentIds(e)' = SentIds(e)
        \/ o.kind \notin ControlKind
  <2>1. Puts(e, buf, out)
    BY DEF EndStep
  <2>2. CASE UNCHANGED sent
    BY <2>1, <2>2, SentGrows, OnlyOne DEF Puts
  <2>3. CASE ~ UNCHANGED sent
    BY <2>1, <2>3, OnlyOne DEF Puts
  <2> QED
    BY <2>2, <2>3
<1>15. \A b \in Range(buf) : b \in Transit(e) /\ b.kind \notin ControlKind
  BY <1>3 DEF EndStep, Keeps, Basics, Transit
<1>16. \A b \in Range(buffer'[e]) : b.kind \notin ControlKind
  <2>1. Puts(e, buf, out) /\ buf \in Seq(Envelope)
    BY DEF EndStep, Keeps
  <2>2. CASE buffer' = [buffer EXCEPT ![e] = buf]
    BY <1>1, <1>15, <2>2 DEF TypeOK
  <2>3. ASSUME NEW env \in Envelope, SendBuffered(e, env, buf), env.kind \notin ControlKind
        PROVE  \A b \in Range(buffer'[e]) : b.kind \notin ControlKind
    <3>1. Range(buffer'[e]) = Range(buf) \union {env}
      <4>1. TypeOK /\ e \in End /\ env \in Envelope /\ buf \in Seq(Envelope) /\ SendBuffered(e, env, buf)
        BY <1>1, <2>1, <2>3
      <4> QED
        BY ONLY <4>1, Buffering
    <3> QED
      BY <1>15, <2>3, <3>1
  <2> QED
    BY <2>1, <2>2, <2>3 DEF Puts
<1>17. ASSUME NEW o \in Transit(e)'
       PROVE  /\ o.kind # "RemoteStarted" =>
                    o.id < nextId'[e] /\ (o.kind \in ControlKind => o.id \notin SentIds(e)')
              /\ o.re \in {None, 0} \/ o.re < nextId'[p]
              /\ e = "server" => o.kind # "Flush"
  <2>1. CASE o \in Transit(e)
    <3>1. /\ o.kind # "RemoteStarted" =>
                o.id < nextId[e] /\ (o.kind \in ControlKind => o.id \notin SentIds(e))
          /\ o.re \in {None, 0} \/ o.re < nextId[p]
          /\ e = "server" => o.kind # "Flush"
      BY <1>3, <2>1 DEF Basics
    <3>2. o.id \in Nat
      BY <1>1, <2>1, TransitTypes
    <3> QED
      BY <1>3, <1>5, <3>1, <3>2
  <2>2. CASE o \in Range(out) /\ o \notin Range(buf)
    <3>1. /\ \/ o.re \in {None, 0} \union Received(e)'
             \/ got /\ m.kind = "Flush" /\ o.re = m.id
          /\ o.kind # "RemoteStarted" => o.id = nextId[e] /\ nextId'[e] = nextId[e] + 1
      BY <1>0, <2>2 DEF EndStep, Marks
    <3>2. o.re \in {None, 0} \/ o.re < nextId'[p]
      <4>1. o.re \in Received(e)' => o.re < nextId'[p]
        BY <1>4, <1>5, <1>7
      <4>2. got /\ m.kind = "Flush" => m.id < nextId[p]
        BY <1>3, <1>6 DEF Basics
      <4> QED
        BY <1>5, <3>1, <4>1, <4>2
    <3>3. o.kind # "RemoteStarted" =>
            o.id < nextId'[e] /\ (o.kind \in ControlKind => o.id \notin SentIds(e)')
      BY <1>3, <1>4, <1>14, <2>2, <3>1
    <3>4. o.kind # "Flush"
      BY <1>1, <1>14, <2>2
    <3> QED
      BY <3>2, <3>3, <3>4
  <2> QED
    BY <1>5, <1>15, <2>1, <2>2
<1>18. Basics(e)'
  BY <1>5, <1>8, <1>10, <1>12, <1>13, <1>16, <1>17 DEF Basics
<1>19. Basics(p)'
  <2>1. \A o \in Transit(p)' :
            /\ o.kind # "RemoteStarted" =>
                  o.id < nextId'[p] /\ (o.kind \in ControlKind => o.id \notin SentIds(p)')
            /\ o.re \in {None, 0} \/ o.re < nextId'[e]
            /\ p = "server" => o.kind # "Flush"
    <3> SUFFICES ASSUME NEW o \in Transit(p)
                 PROVE  /\ o.kind # "RemoteStarted" =>
                              o.id < nextId'[p] /\ (o.kind \in ControlKind => o.id \notin SentIds(p)')
                        /\ o.re \in {None, 0} \/ o.re < nextId'[e]
                        /\ p = "server" => o.kind # "Flush"
      BY <1>5
    <3>1. /\ o.kind # "RemoteStarted" =>
                o.id < nextId[p] /\ (o.kind \in ControlKind => o.id \notin SentIds(p))
          /\ o.re \in {None, 0} \/ o.re < nextId[e]
          /\ p = "server" => o.kind # "Flush"
      BY <1>1, <1>3 DEF Basics
    <3>2. o.re \in Id /\ None \notin Nat /\ Id = Nat \union {None}
      BY <1>1, TransitTypes, Kinds
    <3>3. o.re \in {None, 0} \/ o.re < nextId'[e]
      BY <1>3, <1>5, <3>1, <3>2
    <3> QED
      BY <1>5, <3>1, <3>3
  <2>2. \A b \in Range(buffer'[p]) : b.kind \notin ControlKind
    BY <1>3, <1>5 DEF Basics
  <2> QED
    BY <1>1, <1>5, <1>7, <1>9, <1>12, <1>13, <2>1, <2>2 DEF Basics
<1> QED
  BY <1>1, <1>18, <1>19

\* Without threads of its own, an end has nothing half sent.
NoThreads == Background = [e \in End |-> 0]

\* Something was pinged, or nothing was asked.
PingedFirst == Pinged \/ \A x \in Sent("client") : x.kind \notin Asked

\* Pinged, in terms of what was sent.
LEMMA PingedMeans ==
    /\ Pinged <=> \E x \in Sent("client") : x.kind = "Request"
    /\ Pinged' <=> \E x \in Sent("client")' : x.kind = "Request"
BY DEF Pinged, Sent

\* A thread has no turn.
LEMMA NothingAllocated ==
    ASSUME NoThreads, NEW e \in End, sending[e] = {}
    PROVE  /\ \A k \in AppKind : ~ SendAllocate(e, k)
           /\ \A s \in sending[e] : FALSE
<1>1. Background[e] = 0
  BY DEF NoThreads
<1>2. Cardinality(sending[e]) = 0
  BY FS_EmptySet
<1> QED
  BY <1>1, <1>2 DEF SendAllocate

\* The ping comes before anything is asked.
LEMMA PingComesFirst ==
    ASSUME Inv, NoThreads, \A d \in End : sending[d] = {} /\ Grows(d), PingedFirst, Ready => Pinged, Next
    PROVE  PingedFirst' /\ (Pinged => Pinged')
<1>0. TypeOK /\ "client" \in End
  BY Kinds DEF Inv
<1>1. Pinged => Pinged'
  <2>1. Sent("client") \subseteq Sent("client")'
    BY <1>0 DEF Grows
  <2> QED
    BY <2>1, PingedMeans
<1>2. ASSUME NEW e \in End, NEW env \in Envelope, NEW buf \in Seq(Envelope), SendBuffered(e, env, buf)
      PROVE  Sent("client")' \subseteq Sent("client") \union (IF e = "client" THEN {Pair(env)} ELSE {})
  <2>1. TypeOK /\ e \in End /\ env \in Envelope /\ buf \in Seq(Envelope) /\ SendBuffered(e, env, buf)
    BY <1>0, <1>2
  <2>2. /\ Range(sent'[e]) = Range(sent[e]) \union {Pair(env)}
        /\ \A d \in End : d # e => sent'[d] = sent[d]
    BY ONLY <2>1, Buffering
  <2> QED
    BY <1>0, <2>2, Sents
<1>3. ASSUME NEW e \in End, NEW k \in AppKind, SendNow(e, k)
      PROVE  /\ Sent("client")' \subseteq Sent("client") \union
                    (IF e = "client" THEN {[id |-> nextId[e], kind |-> k]} ELSE {})
             /\ e = "client" => \E x \in Sent("client")' : x.kind = k
  <2>0. PICK env : env = Env(nextId[e], k, None, maxReceived[e], 0)
    OBVIOUS
  <2>1. env \in Envelope /\ Pair(env) = [id |-> nextId[e], kind |-> k]
    <3>1. nextId[e] \in Nat /\ k \in Kind /\ None \in Id /\ maxReceived[e] \in Id /\ 0 \in Nat
      BY <1>0, Values, Kinds
    <3> QED
      BY <2>0, <3>1 DEF Env, Envelope, Pair
  <2>2. SendBuffered(e, env, buffer[e]) /\ buffer[e] \in Seq(Envelope)
    BY <1>0, <1>3, <2>0, Values DEF SendNow
  <2>3. Range(sent'[e]) = Range(sent[e]) \union {Pair(env)}
    <3>1. TypeOK /\ e \in End /\ env \in Envelope /\ buffer[e] \in Seq(Envelope) /\ SendBuffered(e, env, buffer[e])
      BY <1>0, <2>1, <2>2
    <3> QED
      BY ONLY <3>1, Buffering
  <2>4. e = "client" => Pair(env) \in Sent("client")'
    BY <2>3, Sents
  <2> QED
    BY <1>2, <2>1, <2>2, <2>4
<1>4. ASSUME NEW k \in AppKind, NEW e \in End, Send(e, k) PROVE PingedFirst'
  <2>1. CASE e = "client"
    BY <1>1, <1>4, <2>1 DEF Send, MaySend, PingedFirst
  <2>2. CASE e # "client"
    <3>1. Sent("client")' \subseteq Sent("client")
      BY <1>3, <1>4, <2>2 DEF Send
    <3> QED
      BY <1>1, <3>1 DEF PingedFirst
  <2> QED
    BY <2>1, <2>2
<1>5. ASSUME Ping PROVE PingedFirst'
  <2>1. SendNow("client", "Request") /\ "Request" \in AppKind
    BY <1>5, Kinds DEF Ping
  <2>2. \E x \in Sent("client")' : x.kind = "Request"
    BY <1>0, <1>3, <2>1
  <2> QED
    BY <2>2, PingedMeans DEF PingedFirst
<1>6. ASSUME NEW e \in End, HandlerStep(e) PROVE PingedFirst'
  <2>1. PICK h \in running[e] : Respond(e, h) \/ SendItem(e, h) \/ EndOfStream(e, h)
    BY <1>6 DEF HandlerStep
  <2>2. h.re \in Nat /\ h.item \in Nat
    BY <1>0, Values
  <2>3. PICK kind \in ReplyKind, item \in Nat : Reply(e, kind, h.re, item)
    <3>1. {"Response", "Item", "EndStream"} = ReplyKind /\ 0 \in Nat /\ h.item + 1 \in Nat
      BY <2>2, Kinds
    <3> QED
      BY <2>1, <3>1 DEF Respond, SendItem, EndOfStream
  <2>4. PICK env : env = Env(nextId[e], kind, h.re, maxReceived[e], item)
    OBVIOUS
  <2>5. env \in Envelope /\ Pair(env).kind = kind
    <3>1. nextId[e] \in Nat /\ kind \in Kind /\ h.re \in Id /\ maxReceived[e] \in Id
      BY <1>0, <2>2, Values, Kinds
    <3> QED
      BY <2>4, <3>1 DEF Env, Envelope, Pair
  <2>6. SendBuffered(e, env, buffer[e]) /\ buffer[e] \in Seq(Envelope)
    BY <1>0, <2>3, <2>4, Values DEF Reply
  <2>7. kind \notin Asked
    BY Kinds DEF Asked
  <2>8. Sent("client")' \subseteq Sent("client") \union {Pair(env)}
    BY <1>2, <2>5, <2>6
  <2> QED
    BY <1>1, <2>5, <2>7, <2>8 DEF PingedFirst
<1>7. ASSUME NEW e \in End, HandleUnknown(e) PROVE PingedFirst'
  <2>0. PICK m : m = Head(incoming[e])
    OBVIOUS
  <2>1. m.id \in Nat /\ CanReceive(e)
    BY <1>7, <2>0, NextEnvelope DEF HandleUnknown
  <2>2. PICK env : env = Env(nextId[e], "Response", m.id, m.id, 0)
    OBVIOUS
  <2>3. env \in Envelope /\ Pair(env).kind = "Response"
    <3>1. nextId[e] \in Nat /\ m.id \in Id /\ 0 \in Nat /\ "Response" \in Kind
      BY <1>0, <2>1, Values, Kinds
    <3> QED
      BY <2>2, <3>1 DEF Env, Envelope, Pair
  <2>4. PICK buf : Receive(e, buf) /\ SendBuffered(e, env, buf)
    BY <1>7, <2>0, <2>2 DEF HandleUnknown
  <2>5. buf \in Seq(Envelope)
    BY <1>0, <2>4, Popping DEF Keeps
  <2>6. Sent("client")' \subseteq Sent("client") \union {Pair(env)}
    BY <1>2, <2>3, <2>4, <2>5
  <2> QED
    BY <1>1, <2>3, <2>6 DEF PingedFirst, Asked
<1>8. ASSUME UNCHANGED sent PROVE PingedFirst'
  <2>1. Sent("client")' = Sent("client")
    BY <1>8 DEF Sent
  <2> QED
    BY <1>1, <2>1 DEF PingedFirst
<1>9. ASSUME NEW e \in End, \/ Announce(e) \/ HandleFlush(e) \/ HandleRemoteStarted(e) \/ HandleFlushed(e)
                            \/ HandleResponse(e) \/ HandleMessage(e) \/ PollStream(e)
                            \/ (\E id \in streamChannels[e] : DropStream(e, id)) \/ Transmit(e)
      PROVE  UNCHANGED sent
  BY <1>9 DEF Announce, HandleFlush, HandleRemoteStarted, HandleFlushed, HandleResponse,
     HandleMessage, PollStream, DropStream, Transmit, history
<1>10. ASSUME Cut \/ LoseOutgoing \/ Detach \/ Accept \/ Reconnect \/ Resync \/ ResyncTimeout
       PROVE  UNCHANGED sent
  BY <1>10 DEF Cut, LoseOutgoing, Detach, Accept, Reconnect, Resync, ResyncTimeout, history
<1>11. ASSUME NEW e \in End, SendStep(e) PROVE PingedFirst'
  BY <1>4, <1>11, NothingAllocated DEF SendStep
<1>12. ASSUME NEW e \in End, ReceiveStep(e) PROVE PingedFirst'
  BY <1>7, <1>8, <1>9, <1>12 DEF ReceiveStep
<1>13. PingedFirst'
  BY <1>5, <1>6, <1>8, <1>9, <1>10, <1>11, <1>12 DEF Next
<1> QED
  BY <1>1, <1>13

\* A step of the connection: what is under way gets no more.
Rests ==
    /\ UNCHANGED <<nextId, maxReceived, buffer, sent, received, answers, responseChannels, sending>>
    /\ \A e \in End : Transit(e)' \subseteq Transit(e)

\* It takes nothing from what the ends know.
LEMMA RestsKeeps ==
    ASSUME TypeOK, Rests
    PROVE  /\ \A e \in End : SentIds(e)' = SentIds(e) /\ Received(e)' = Received(e)
           /\ \A e \in End : /\ \A a : Acked(e, a) => Acked(e, a)'
                             /\ AllAcked(e) => AllAcked(e)'
                             /\ Stored(e) => Stored(e)'
                             /\ Basics(e) => Basics(e)'
                             /\ Settled(e) /\ Queue(e)' = Queue(e) => Settled(e)'
                             /\ \A n : Ordered(e, n) /\ Queue(e)' = Queue(e) => Ordered(e, n)'
           /\ Ready' = Ready /\ Pinged' = Pinged /\ (PingedFirst => PingedFirst')
<1>1. /\ UNCHANGED <<nextId, maxReceived, buffer, sent, received, answers, responseChannels, sending>>
      /\ \A e \in End : Transit(e)' \subseteq Transit(e) /\ Peer(e) \in End
  BY Kinds DEF Rests
<1>2. /\ \A e \in End : SentIds(e)' = SentIds(e) /\ Received(e)' = Received(e) /\ IdsOf(buffer[e])' = IdsOf(buffer[e])
      /\ Ready' = Ready /\ Pinged' = Pinged /\ Sent("client")' = Sent("client")
  BY <1>1 DEF SentIds, Received, Ready, Pinged, Sent, IdsOf
<1>3. ASSUME NEW e \in End, NEW a, Acked(e, a) PROVE Acked(e, a)'
  BY <1>1, <1>2, <1>3 DEF Acked
<1>4. ASSUME NEW e \in End, AllAcked(e) PROVE AllAcked(e)'
  <2>1. PICK a : a = maxReceived[e]
    OBVIOUS
  <2>2. Acked(Peer(e), a)' /\ \A m \in Transit(e)' : Acked(Peer(e), m.ack)'
    BY <1>1, <1>3, <1>4, <2>1 DEF AllAcked
  <2> QED
    BY <1>1, <2>1, <2>2 DEF AllAcked
<1>5. ASSUME NEW e \in End, Stored(e) PROVE Stored(e)'
  BY <1>1, <1>2, <1>5 DEF Stored
<1>6. ASSUME NEW e \in End, Basics(e) PROVE Basics(e)'
  BY <1>1, <1>2, <1>6 DEF Basics
<1>7. ASSUME NEW e \in End, Settled(e), Queue(e)' = Queue(e) PROVE Settled(e)'
  BY <1>1, <1>2, <1>7 DEF Settled, Flying
<1>8. ASSUME NEW e \in End, NEW n, Ordered(e, n), Queue(e)' = Queue(e) PROVE Ordered(e, n)'
  BY <1>1, <1>2, <1>8 DEF Ordered
<1> QED
  BY <1>2, <1>3, <1>4, <1>5, <1>6, <1>7, <1>8 DEF PingedFirst

\* Queues that only get shorter hold no more.
LEMMA ShorterRests ==
    ASSUME TypeOK,
           UNCHANGED <<nextId, maxReceived, buffer, sent, received, answers, responseChannels, sending>>,
           \A d \in End : /\ Range(outgoing'[d]) \subseteq Range(outgoing[d])
                          /\ Range(incoming'[d]) \subseteq Range(incoming[d])
    PROVE  Rests
BY Kinds DEF Rests, Transit

\* An envelope crosses: the two queues of its end, joined, stay as they are.
LEMMA TransmitRests ==
    ASSUME TypeOK, NEW e \in End, Transmit(e)
    PROVE  /\ Rests /\ UNCHANGED <<conn, link, attached, flushDue, flushId>> /\ Attached
           /\ \A d \in End : Queue(d)' = Queue(d)
           /\ outgoing[e] # <<>> /\ incoming'[e] = incoming[e] /\ outgoing'[Peer(e)] = outgoing[Peer(e)]
<1> DEFINE p == Peer(e)
<1>1. /\ outgoing[e] # <<>> /\ Attached
      /\ outgoing' = [outgoing EXCEPT ![e] = Tail(@)]
      /\ incoming' = [incoming EXCEPT ![p] = Append(@, Head(outgoing[e]))]
      /\ UNCHANGED <<nextId, maxReceived, buffer, sent, received, answers, responseChannels, sending>>
      /\ UNCHANGED <<conn, link, attached, flushDue, flushId>>
  BY DEF Transmit, ids, channels, tasks, transport, resync, history
<1>2. p \in End /\ Peer(p) = e /\ p # e /\ \A d \in End : d = e \/ d = p
  BY Kinds DEF End, Peer
<1>3. outgoing[e] \in Seq(Envelope) /\ incoming[p] \in Seq(Envelope)
  BY <1>2, Values
<1>4. /\ outgoing'[e] = Tail(outgoing[e]) /\ outgoing'[p] = outgoing[p]
      /\ incoming'[p] = Append(incoming[p], Head(outgoing[e])) /\ incoming'[e] = incoming[e]
  BY <1>1, <1>2 DEF TypeOK
<1>5. Queue(e)' = Queue(e)
  <2>1. PICK s, t : s = incoming[p] /\ t = outgoing[e]
    OBVIOUS
  <2>2. s \in Seq(Envelope) /\ t \in Seq(Envelope) /\ t # <<>>
    BY <1>1, <1>3, <2>1
  <2>3. Append(s, Head(t)) \o Tail(t) = s \o t
    BY ONLY <2>2, Crossing
  <2> QED
    BY <1>4, <2>1, <2>3 DEF Queue
<1>6. Queue(p)' = Queue(p)
  BY <1>2, <1>4 DEF Queue
<1>7. Transit(e)' \subseteq Transit(e)
  <2>1. /\ Head(outgoing[e]) \in Envelope /\ Head(outgoing[e]) \in Range(outgoing[e])
        /\ Range(Tail(outgoing[e])) \subseteq Range(outgoing[e])
    BY <1>1, <1>3, Elements
  <2>2. Range(Append(incoming[p], Head(outgoing[e]))) = Range(incoming[p]) \union {Head(outgoing[e])}
    <3>1. PICK s, x : s = incoming[p] /\ x = Head(outgoing[e])
      OBVIOUS
    <3>2. s \in Seq(Envelope) /\ x \in Envelope
      BY <1>3, <2>1, <3>1
    <3>3. Range(Append(s, x)) = Range(s) \union {x}
      BY ONLY <3>2, Elements
    <3> QED
      BY <3>1, <3>3
  <2> QED
    BY <1>1, <1>4, <2>1, <2>2 DEF Transit
<1>8. Transit(p)' = Transit(p)
  BY <1>1, <1>2, <1>4 DEF Transit
<1>9. Rests
  BY <1>1, <1>2, <1>7, <1>8 DEF Rests
<1> QED
  BY <1>1, <1>2, <1>4, <1>5, <1>6, <1>9

\* The steps of the connection that touch the queues, and those that do not.
LEMMA ConnectionRests ==
    ASSUME TypeOK, Cut \/ LoseOutgoing \/ Detach \/ Accept \/ Reconnect \/ ResyncTimeout
    PROVE  Rests
<1>1. UNCHANGED <<nextId, maxReceived, buffer, sent, received, answers, responseChannels, sending>>
  <2>1. CASE Cut
    BY <2>1 DEF Cut, ids, channels, tasks, history
  <2>2. CASE LoseOutgoing
    BY <2>2 DEF LoseOutgoing, ids, channels, tasks, history
  <2>3. CASE Detach
    BY <2>3 DEF Detach, ids, channels, tasks, history
  <2>4. CASE Accept
    BY <2>4 DEF Accept, ids, channels, tasks, history
  <2>5. CASE Reconnect
    BY <2>5 DEF Reconnect, ids, channels, history
  <2>6. CASE ResyncTimeout
    BY <2>6 DEF ResyncTimeout, ids, channels, tasks, history
  <2> QED
    BY <2>1, <2>2, <2>3, <2>4, <2>5, <2>6
<1>2. \A d \in End : /\ Range(outgoing'[d]) \subseteq Range(outgoing[d])
                     /\ Range(incoming'[d]) \subseteq Range(incoming[d])
  <2>1. CASE Break
    BY <2>1, Breaking
  <2>2. CASE LoseOutgoing
    <3>1. /\ Range(Tail(outgoing["server"])) \subseteq Range(outgoing["server"])
          /\ outgoing' = [outgoing EXCEPT !["server"] = Tail(outgoing["server"])]
          /\ incoming' = incoming
      BY <2>2, Values, Elements, Kinds DEF LoseOutgoing
    <3> QED
      BY <3>1 DEF TypeOK
  <2>3. CASE Reconnect
    <3>1. Range(<<>>) = {}
      BY DEF Range
    <3> QED
      BY <2>3, <3>1 DEF Reconnect, TypeOK
  <2>4. CASE UNCHANGED <<outgoing, incoming>>
    BY <2>4
  <2> QED
    BY <2>1, <2>2, <2>3, <2>4 DEF Cut, Detach, Accept, ResyncTimeout
<1> QED
  BY <1>1, <1>2, ShorterRests

\* Nothing moves at all.
Still == Rests /\ UNCHANGED <<outgoing, incoming, conn, link, attached, flushDue, flushId>>

\* What there is to a step.
LEMMA StepsApart ==
    ASSUME Inv, NoThreads, \A d \in End : sending[d] = {}, [Next]_vars
    PROVE  \/ \E e \in End : Moves(e) /\ (e = "client" /\ flushDue => ~ Pinged)
           \/ \E e \in End : Transmit(e)
           \/ Still \/ Cut \/ LoseOutgoing \/ Detach \/ Accept \/ Reconnect \/ Resync \/ ResyncTimeout
<1>1. ASSUME NEW e \in End, SendStep(e)
      PROVE  Moves(e) /\ (e = "client" => ~ flushDue)
  <2>1. PICK k \in AppKind : Send(e, k)
    BY <1>1, NothingAllocated DEF SendStep
  <2> QED
    BY <2>1, SendNowMoves DEF Send, Foreground
<1>2. ASSUME NEW e \in End, Announce(e) PROVE Moves(e) /\ (e = "client" => ~ flushDue)
  BY <1>2, AnnounceMoves DEF Announce, Foreground
<1>3. ASSUME NEW e \in End, ReceiveStep(e) PROVE Moves(e) /\ (e = "client" => ~ flushDue)
  <2>1. Moves(e)
    BY <1>3, ControlMoves, FlushedMoves, ResponseMoves, MessageMoves, UnknownMoves DEF ReceiveStep
  <2>2. CanReceive(e)
    BY <1>3 DEF ReceiveStep, HandleFlush, HandleRemoteStarted, HandleFlushed, HandleResponse,
       HandleMessage, HandleUnknown
  <2> QED
    BY <2>1, <2>2 DEF CanReceive, Foreground
<1>4. ASSUME NEW e \in End, HandlerStep(e) PROVE Moves(e) /\ (e = "client" => ~ flushDue)
  <2>1. Moves(e)
    BY <1>4, ReplyMoves
  <2>2. Foreground(e)
    BY <1>4 DEF HandlerStep, Respond, SendItem, EndOfStream, Reply
  <2> QED
    BY <2>1, <2>2 DEF Foreground
<1>5. ASSUME NEW e \in End, PollStream(e) \/ \E id \in streamChannels[e] : DropStream(e, id) PROVE Still
  <2>1. /\ UNCHANGED <<nextId, maxReceived, buffer, sent, received, answers, responseChannels, sending>>
        /\ UNCHANGED <<outgoing, incoming, conn, link, attached, flushDue, flushId>>
    BY <1>5 DEF PollStream, DropStream, ids, channels, transport, resync, history
  <2> QED
    BY <2>1, ShorterRests DEF Inv, Still
<1>6. ASSUME Ping PROVE Moves("client") /\ ~ Pinged
  <2>1. SendNow("client", "Request") /\ "Request" \in AppKind /\ "client" \in End /\ ~ Pinged
    BY <1>6, Kinds DEF Ping
  <2> QED
    BY <2>1, SendNowMoves
<1>7. ASSUME UNCHANGED vars PROVE Still
  <2>1. /\ UNCHANGED <<nextId, maxReceived, buffer, sent, received, answers, responseChannels, sending>>
        /\ UNCHANGED <<outgoing, incoming, conn, link, attached, flushDue, flushId>>
    BY <1>7 DEF vars
  <2> QED
    BY <2>1, ShorterRests DEF Inv, Still
<1> QED
  BY <1>1, <1>2, <1>3, <1>4, <1>5, <1>6, <1>7, Kinds DEF Next

\* The first connection, up to its cut: everything sent is on its way.
NoFlush == \A m \in Transit("client") : m.kind # "Flush"
First ==
    /\ conn = 1 /\ link = "up" /\ attached \in {0, 1} /\ ~ flushDue /\ flushId = None
    /\ responseChannels["client"] \subseteq SentIds("client")
    /\ \A e \in End : Settled(e) /\ Stored(e) /\ AllAcked(e) /\ Ordered(e, Len(Queue(e)))
    /\ NoFlush

\* Cut: what had not arrived waits in the buffers.
Broken ==
    /\ conn = 1 /\ link = "down" /\ ~ flushDue /\ flushId = None /\ Ready
    /\ outgoing["client"] = <<>>
    /\ \A e \in End : Stored(e) /\ AllAcked(e) /\ Ordered(e, Len(incoming[Peer(e)]))
    /\ NoFlush

\* Connected again, and the editor's resync has not asked yet ...
Again ==
    /\ conn = 2 /\ link = "up" /\ flushDue /\ flushId = None /\ Ready
    /\ outgoing["client"] = <<>>
    /\ \A e \in End : Stored(e) /\ AllAcked(e)
    /\ Ordered("client", Len(incoming["server"]))
    /\ NoFlush

\* ... has asked, and its request is the k-th envelope to the server ...
Waits ==
    /\ conn = 2 /\ link = "up" /\ ~ flushDue /\ Ready
    /\ flushId \in responseChannels["client"] /\ flushId \notin SentIds("client")
    /\ flushId # 0 /\ flushId < nextId["client"]
Asking(k) ==
    /\ Waits
    /\ k \in 1 .. Len(Queue("client"))
    /\ Queue("client")[k].kind = "Flush" /\ Queue("client")[k].id = flushId
    /\ attached = 2 \/ k > Len(incoming["server"])
    /\ \A e \in End : Stored(e)
    /\ AllAcked("server")
    /\ \A m \in Transit("server") : m.re # flushId
    /\ Ordered("client", k - 1)
    /\ \A i \in 1 .. k : Acked("server", Queue("client")[i].ack)
    /\ \A i \in 1 .. Len(Queue("client")) : Queue("client")[i].kind = "Flush" => i = k

\* ... and is answered by the k-th envelope to the editor, behind all that was resent.
Replying(k) ==
    /\ Waits /\ attached = 2
    /\ k \in 1 .. Len(Queue("server"))
    /\ Queue("server")[k].kind = "Ack" /\ Queue("server")[k].re = flushId
    /\ Queue("server")[k].ack = None
    /\ Settled("server") /\ Stored("client")
    /\ \A i \in 1 .. (k - 1) : /\ Queue("server")[i].re # flushId
                               /\ Acked("client", Queue("server")[i].ack)
    /\ NoFlush

\* Both ends have sent again what the cut had taken.
Over ==
    /\ conn = 2 /\ link = "up" /\ attached = 2 /\ ~ flushDue /\ flushId = None /\ Ready
    /\ \A e \in End : Settled(e)
    /\ NoFlush

Phases ==
    \/ First \/ Broken \/ Again \/ Over
    \/ \E k \in Nat : Asking(k)
    \/ \E k \in Nat : Replying(k)
NothingIsLost == Inv /\ (\A e \in End : Basics(e)) /\ (Ready => Pinged) /\ PingedFirst /\ Phases

\* What every phase needs of a step of an end.
LEMMA EndKeeps ==
    ASSUME Inv, TypeOK', \A d \in End : Basics(d), NEW e \in End, NEW got \in BOOLEAN, NEW buf, NEW out,
           EndStep(e, got, buf, out), Grows(e)
    PROVE  LET p == Peer(e)
               m == Head(incoming[e]) IN
           /\ Sender(e, IF got THEN m.ack ELSE None, out) /\ Receiver(e, got)
           /\ AllAcked(p) => (got => Acked(e, m.ack))
           /\ Stored(e) /\ (got => Acked(e, m.ack)) => Stored(e)'
           /\ Stored(p) => Stored(p)'
           /\ \A d \in End : \A o \in Transit(d)' : o \in Transit(d) \/ o.kind # "Flush"
           /\ NoFlush => NoFlush'
           /\ \A o \in Range(out) : /\ o.kind = "RemoteStarted" \/ o.id <= nextId[e]
                                    /\ o.kind # "Flush"
           /\ Len(Queue(p))' = IF got THEN Len(Queue(p)) - 1 ELSE Len(Queue(p))
           /\ Len(incoming[e])' = IF got THEN Len(incoming[e]) - 1 ELSE Len(incoming[e])
           /\ Len(incoming[p])' = Len(incoming[p])
           /\ got => Len(Queue(p)) \in 1 .. Len(Queue(p)) /\ Len(incoming[e]) \in 1 .. Len(Queue(p))
           /\ got => Queue(p)[1] = m /\ m \in Transit(p)
           /\ \A i \in 1 .. (Len(Queue(p)) - 1) : got => Queue(p)'[i] = Queue(p)[i + 1]
<1> DEFINE p == Peer(e)
<1>0. PICK m : m = Head(incoming[e])
  OBVIOUS
<1>1. /\ p \in End /\ Peer(p) = e /\ p # e /\ TypeOK /\ \A d \in End : d = e \/ d = p
      /\ ControlKind = {"RemoteStarted", "Flush", "Ack"} /\ "client" \in End
  BY Kinds DEF Inv, End, Peer
<1>2. Sender(e, IF got THEN m.ack ELSE None, out) /\ Receiver(e, got)
  BY <1>0, <1>1, SenderHolds, ReceiverHolds
<1>3. got => m \in Transit(p)
  BY <1>0, NextEnvelope DEF EndStep
<1>4. AllAcked(p) => (got => Acked(e, m.ack))
  BY <1>1, <1>3 DEF AllAcked
<1>5. Stored(e) /\ (got => Acked(e, m.ack)) => Stored(e)'
  <2>1. Acked(e, None)
    BY DEF Acked, Good
  <2>2. PICK ack : ack = IF got THEN m.ack ELSE None
    OBVIOUS
  <2>3. Stored(e) /\ Acked(e, ack) => Stored(e)'
    BY <1>2, <2>2, SenderKeeps
  <2> QED
    BY <2>1, <2>2, <2>3
<1>6. Stored(p) => Stored(p)'
  BY <1>1, <1>2, ReceiverKeeps
<1>7. \A b \in Range(buf) : b \in Transit(e) /\ b.kind \notin ControlKind
  BY DEF EndStep, Keeps, Basics, Transit
<1>8. \A o \in Range(out) : o \in Range(buf) \/ o.kind \in {"Ack", "RemoteStarted"} \/ o.kind \notin ControlKind
  <2>1. Puts(e, buf, out)
    BY DEF EndStep
  <2> QED
    BY <2>1, OnlyOne DEF Puts
<1>9. \A o \in Range(out) : o.kind # "Flush"
  BY <1>1, <1>7, <1>8
<1>10. \A o \in Range(out) : o.kind = "RemoteStarted" \/ o.id <= nextId[e]
  <2>1. nextId[e] \in Nat
    BY <1>1, Values
  <2>2. \A b \in Range(buf) : b.kind = "RemoteStarted" \/ b.id <= nextId[e]
    <3>1. \A b \in Transit(e) : b.id \in Nat
      BY <1>1, TransitTypes
    <3>2. Basics(e)
      BY <1>1
    <3> QED
      BY <1>7, <2>1, <3>1, <3>2 DEF Basics
  <2> QED
    BY <2>1, <2>2 DEF EndStep, Marks
<1>11. \A d \in End : \A o \in Transit(d)' : o \in Transit(d) \/ o.kind # "Flush"
  BY <1>1, <1>2, <1>9 DEF Sender, Receiver
<1>12. NoFlush => NoFlush'
  BY <1>1, <1>11 DEF NoFlush
<1>13. /\ Len(Queue(p))' = (IF got THEN Len(Queue(p)) - 1 ELSE Len(Queue(p)))
       /\ Len(incoming[e])' = (IF got THEN Len(incoming[e]) - 1 ELSE Len(incoming[e]))
       /\ Len(incoming[p])' = Len(incoming[p])
       /\ got => Len(Queue(p)) \in 1 .. Len(Queue(p)) /\ Len(incoming[e]) \in 1 .. Len(Queue(p))
       /\ got => Queue(p)[1] = m
       /\ \A i \in 1 .. (Len(Queue(p)) - 1) : got => Queue(p)'[i] = Queue(p)[i + 1]
  <2>1. /\ Queue(p) \in Seq(Envelope) /\ Len(Queue(p)) \in Nat /\ Len(incoming[e]) <= Len(Queue(p))
        /\ incoming[e] \in Seq(Envelope) /\ Len(incoming[e]) \in Nat
    BY <1>1, Queues, Values
  <2>2. CASE got
    <3>1. /\ Queue(p)' = Tail(Queue(p)) /\ Queue(p) # <<>> /\ Head(Queue(p)) = m
          /\ incoming[e] # <<>> /\ incoming'[e] = Tail(incoming[e]) /\ incoming'[p] = incoming[p]
      BY <1>0, <1>2, <2>2 DEF Receiver, Sender
    <3>2. \A s \in Seq(Envelope) : s # <<>> =>
            /\ Len(s) > 0 /\ Len(Tail(s)) = Len(s) - 1 /\ Head(s) = s[1]
            /\ \A i \in 1 .. (Len(s) - 1) : Tail(s)[i] = s[i + 1]
      <4> SUFFICES ASSUME NEW s \in Seq(Envelope), s # <<>>
                   PROVE  /\ Len(s) > 0 /\ Len(Tail(s)) = Len(s) - 1 /\ Head(s) = s[1]
                          /\ \A i \in 1 .. (Len(s) - 1) : Tail(s)[i] = s[i + 1]
        OBVIOUS
      <4>1. Len(s) \in Nat /\ Len(s) > 0
        BY LenProperties, EmptySeq
      <4> QED
        BY <4>1, HeadTailProperties
    <3> QED
      BY <2>1, <2>2, <3>1, <3>2
  <2>3. CASE ~ got
    BY <1>2, <2>3 DEF Receiver, Sender
  <2> QED
    BY <2>2, <2>3
<1> QED
  BY <1>0, <1>2, <1>3, <1>4, <1>5, <1>6, <1>9, <1>10, <1>11, <1>12, <1>13

\* An end's step during the first connection.
LEMMA FirstEnd ==
    ASSUME Inv, TypeOK', \A d \in End : Basics(d), NEW e \in End, NEW got \in BOOLEAN, NEW buf, NEW out,
           EndStep(e, got, buf, out), Grows(e), First
    PROVE  First'
<1> DEFINE p == Peer(e)
<1>0. PICK m : m = Head(incoming[e])
  OBVIOUS
<1>1. /\ p \in End /\ Peer(p) = e /\ p # e /\ \A d \in End : d = e \/ d = p
      /\ "client" \in End /\ TypeOK
  BY Kinds DEF Inv, End, Peer
<1>2. /\ Sender(e, IF got THEN m.ack ELSE None, out) /\ Receiver(e, got)
      /\ got => Len(Queue(p)) \in 1 .. Len(Queue(p))
      /\ Len(Queue(p))' = IF got THEN Len(Queue(p)) - 1 ELSE Len(Queue(p))
      /\ NoFlush => NoFlush'
      /\ \A o \in Range(out) : o.kind = "RemoteStarted" \/ o.id <= nextId[e]
      /\ Stored(p) => Stored(p)'
      /\ Stored(e) /\ (got => Acked(e, m.ack)) => Stored(e)'
      /\ AllAcked(p) => (got => Acked(e, m.ack))
  BY <1>0, EndKeeps
<1>3. /\ \A d \in End : Settled(d) /\ Stored(d) /\ AllAcked(d) /\ Ordered(d, Len(Queue(d)))
      /\ link = "up"
  BY DEF First
<1>4. Settled(e)' /\ Settled(p)'
  <2>1. Settled(e)'
    BY <1>2, <1>3, SenderKeeps
  <2>2. Settled(p)'
    BY <1>1, <1>2, <1>3, ReceiverKeeps
  <2> QED
    BY <2>1, <2>2
<1>5. Stored(e)' /\ Stored(p)'
  BY <1>1, <1>2, <1>3
<1>6. AllAcked(e)' /\ AllAcked(p)'
  <2>1. AllAcked(e)'
    BY <1>1, <1>2, <1>3, ActorAcks
  <2>2. AllAcked(p)'
    BY <1>1, <1>3, PeerAcks
  <2> QED
    BY <2>1, <2>2
<1>7. Ordered(e, Len(Queue(e)))'
  BY <1>2, <1>3, SenderOrder
<1>8. Ordered(p, Len(Queue(p)))'
  <2>1. Len(Queue(p)) \in Nat
    BY <1>1, Queues
  <2>2. PICK n : n = IF got THEN Len(Queue(p)) - 1 ELSE Len(Queue(p))
    OBVIOUS
  <2>3. Ordered(p, n)'
    <3>1. PICK l : l = Len(Queue(p))
      OBVIOUS
    <3>2. l \in 0 .. Len(Queue(p)) /\ Ordered(p, l)
      BY <1>1, <1>3, <2>1, <3>1
    <3>3. /\ ~ got => Ordered(p, l)'
          /\ got => Ordered(p, IF l = 0 THEN 0 ELSE l - 1)'
      BY <1>1, <1>2, <3>2, ReceiverOrder
    <3>4. got => l # 0
      BY <1>2, <3>1
    <3>5. n = IF got THEN (IF l = 0 THEN 0 ELSE l - 1) ELSE l
      BY <2>2, <3>1, <3>4
    <3> QED
      BY <3>3, <3>5
  <2> QED
    BY <1>2, <2>2, <2>3
<1>9. responseChannels'["client"] \subseteq SentIds("client")'
  <2>1. SentIds("client") \subseteq SentIds("client")'
    BY <1>1, <1>2 DEF Sender, Receiver
  <2> QED
    BY <1>1, <2>1 DEF EndStep, First
<1>10. conn' = 1 /\ link' = "up" /\ attached' \in {0, 1} /\ ~ flushDue' /\ flushId' = None
  BY DEF EndStep, First, Flushes
<1>11. NoFlush'
  BY <1>2 DEF First
<1> QED
  BY <1>1, <1>4, <1>5, <1>6, <1>7, <1>8, <1>9, <1>10, <1>11 DEF First

\* The order of what an end takes, one envelope less.
LEMMA OrderAfter ==
    ASSUME TypeOK, NEW e \in End, NEW got \in BOOLEAN, Receiver(e, got),
           NEW n, n \in 0 .. Len(Queue(Peer(e))), got => n # 0, Ordered(Peer(e), n),
           NEW l, l = IF got THEN n - 1 ELSE n
    PROVE  Ordered(Peer(e), l)'
<1>1. /\ ~ got => Ordered(Peer(e), n)'
      /\ got => Ordered(Peer(e), IF n = 0 THEN 0 ELSE n - 1)'
  BY ReceiverOrder
<1>2. l = IF got THEN (IF n = 0 THEN 0 ELSE n - 1) ELSE n
  OBVIOUS
<1> QED
  BY <1>1, <1>2

\* The rest of the first connection: envelopes cross, and it is accepted or cut.
LEMMA FirstRests ==
    ASSUME Inv, First,
           (\E e \in End : Transmit(e)) \/ Still \/ Cut \/ LoseOutgoing \/ Detach \/ Accept
            \/ Reconnect \/ Resync \/ ResyncTimeout
    PROVE  First' \/ Broken'
<1>1. TypeOK /\ \A d \in End : Peer(d) \in End /\ Peer(Peer(d)) = d
  BY Kinds DEF Inv
<1>2. /\ conn = 1 /\ link = "up" /\ attached \in {0, 1} /\ ~ flushDue /\ flushId = None /\ NoFlush
      /\ responseChannels["client"] \subseteq SentIds("client")
      /\ \A e \in End : Settled(e) /\ Stored(e) /\ AllAcked(e) /\ Ordered(e, Len(Queue(e)))
  BY DEF First
<1>3. ASSUME Rests, \A d \in End : Queue(d)' = Queue(d),
             conn' = 1 /\ link' = "up" /\ attached' \in {0, 1} /\ ~ flushDue' /\ flushId' = None
      PROVE  First'
  <2>1. \A e \in End : Settled(e)' /\ Stored(e)' /\ AllAcked(e)'
    BY <1>1, <1>2, <1>3, RestsKeeps
  <2>2. ASSUME NEW e \in End PROVE Ordered(e, Len(Queue(e)))'
    <3>1. PICK n : n = Len(Queue(e))
      OBVIOUS
    <3>2. Ordered(e, n)'
      BY <1>1, <1>2, <1>3, <3>1, RestsKeeps
    <3>3. Len(Queue(e))' = n
      BY <1>3, <3>1
    <3> QED
      BY <3>2, <3>3
  <2>3. responseChannels'["client"] \subseteq SentIds("client")' /\ NoFlush'
    <3>1. /\ responseChannels' = responseChannels /\ SentIds("client")' = SentIds("client")
          /\ Transit("client")' \subseteq Transit("client")
      BY <1>1, <1>3, RestsKeeps, Kinds DEF Rests
    <3> QED
      BY <1>2, <3>1 DEF NoFlush
  <2> QED
    BY <1>3, <2>1, <2>2, <2>3 DEF First
<1>4. CASE \E e \in End : Transmit(e)
  <2>1. /\ Rests /\ UNCHANGED <<conn, link, attached, flushDue, flushId>>
        /\ \A d \in End : Queue(d)' = Queue(d)
    BY <1>1, <1>4, TransmitRests
  <2> QED
    BY <1>2, <1>3, <2>1
<1>5. CASE Still
  <2>1. \A d \in End : Queue(d)' = Queue(d)
    BY <1>5 DEF Still, Queue
  <2> QED
    BY <1>2, <1>3, <1>5, <2>1 DEF Still
<1>6. CASE Accept
  <2>1. Rests
    BY <1>1, <1>6, ConnectionRests
  <2>2. \A d \in End : Queue(d)' = Queue(d)
    BY <1>6 DEF Accept, Queue
  <2>3. UNCHANGED <<conn, link, flushDue, flushId>> /\ attached' = conn
    BY <1>6 DEF Accept, resync
  <2> QED
    BY <1>2, <1>3, <2>1, <2>2, <2>3
<1>7. CASE Cut
  <2>1. Rests
    BY <1>1, <1>7, ConnectionRests
  <2>2. /\ Ready /\ Break /\ link' = "down" /\ outgoing' = [outgoing EXCEPT !["client"] = <<>>]
        /\ UNCHANGED <<conn, flushDue, flushId>>
    BY <1>7 DEF Cut, Break, resync
  <2>3. outgoing'["client"] = <<>>
    BY <1>1, <2>2, Kinds DEF TypeOK
  <2>4. \A e \in End : Stored(e)' /\ AllAcked(e)'
    BY <1>1, <1>2, <2>1, RestsKeeps
  <2>5. ASSUME NEW e \in End PROVE Ordered(e, Len(incoming[Peer(e)]))'
    <3>1. PICK n \in [End -> 0 .. Len(incoming["client"]) + Len(incoming["server"])] :
            /\ \A d \in End : n[d] <= Len(incoming[d])
            /\ incoming' = [d \in End |-> SubSeq(incoming[d], 1, n[d])]
      BY <2>2 DEF Break
    <3>2. PICK s, k : s = incoming[Peer(e)] /\ k = n[Peer(e)]
      OBVIOUS
    <3>3. s \in Seq(Envelope) /\ Len(s) \in Nat /\ k \in Nat /\ k <= Len(s)
      <4>1. s \in Seq(Envelope) /\ Len(s) \in Nat
        BY <1>1, <3>2, Values, LenProperties
      <4>2. Len(incoming["client"]) \in Nat /\ Len(incoming["server"]) \in Nat
        BY <1>1, Values, LenProperties, Kinds
      <4>3. k \in 0 .. Len(incoming["client"]) + Len(incoming["server"])
        BY <1>1, <3>1, <3>2
      <4>4. k \in Nat
        BY ONLY <4>2, <4>3
      <4> QED
        BY <1>1, <3>1, <3>2, <4>1, <4>4
    <3>4. incoming'[Peer(e)] = SubSeq(s, 1, k)
      BY <1>1, <3>1, <3>2
    <3>5. SubSeq(s, 1, k) \in Seq(Envelope) /\ Len(SubSeq(s, 1, k)) = k
          /\ \A i \in 1 .. k : SubSeq(s, 1, k)[i] = s[i]
      <4>1. \A i \in 1 .. k : s[i] \in Envelope
        BY <3>3, ElementOfSeq
      <4>2. /\ SubSeq(s, 1, k) \in Seq(Envelope)
            /\ Len(SubSeq(s, 1, k)) = IF 1 <= k THEN (k - 1) + 1 ELSE 0
            /\ \A i \in 1 .. (k - 1) + 1 : SubSeq(s, 1, k)[i] = s[(1 + i) - 1]
        <5>1. 1 \in Int /\ k \in Int
          BY <3>3
        <5> QED
          BY <4>1, <5>1, SubSeqProperties
      <4> QED
        BY <3>3, <4>2
    <3>6. Ordered(e, Len(Queue(e)))
      BY <1>2
    <3>7. /\ Len(Queue(e)) \in Nat /\ Len(s) <= Len(Queue(e))
          /\ \A i \in 1 .. Len(s) : Queue(e)[i] = s[i]
      BY <1>1, <3>2, Queues
    <3>8. InOrder(Queue(e), k, SentIds(e), Received(Peer(e)))
      <4>1. 1 .. k \subseteq 1 .. Len(Queue(e))
        BY <3>3, <3>7
      <4> QED
        BY <3>6, <4>1 DEF Ordered, InOrder
    <3>9. \A i \in 1 .. k : Queue(e)'[i] = Queue(e)[i]
      <4>1. PICK t : t = outgoing'[e]
        OBVIOUS
      <4>2. t \in Seq(Envelope)
        BY <1>1, <2>2, <4>1, Breaking
      <4>3. Queue(e)' = SubSeq(s, 1, k) \o t
        BY <3>4, <4>1 DEF Queue
      <4>4. \A i \in 1 .. k : (SubSeq(s, 1, k) \o t)[i] = SubSeq(s, 1, k)[i]
        BY <3>5, <4>2, Joined
      <4>5. \A i \in 1 .. k : i \in 1 .. Len(s)
        BY <3>3
      <4> QED
        BY <3>5, <3>7, <4>3, <4>4, <4>5
    <3>10. InOrder(Queue(e)', k, SentIds(e), Received(Peer(e)))
      BY <3>3, <3>8, <3>9, SameOrder
    <3>11. SentIds(e)' = SentIds(e) /\ Received(Peer(e))' = Received(Peer(e))
      BY <1>1, <2>1, RestsKeeps
    <3>12. Len(incoming[Peer(e)])' = k
      BY <3>4, <3>5
    <3> QED
      BY <3>10, <3>11, <3>12 DEF Ordered
  <2>6. NoFlush' /\ Ready'
    BY <1>1, <1>2, <2>1, <2>2, RestsKeeps, Kinds DEF NoFlush, Rests
  <2> QED
    BY <1>2, <2>2, <2>3, <2>4, <2>5, <2>6 DEF Broken
<1>8. ~ LoseOutgoing /\ ~ Detach /\ ~ Reconnect /\ ~ Resync /\ ~ ResyncTimeout
  BY <1>2 DEF LoseOutgoing, Detach, Attached, Reconnect, Resync, ResyncTimeout
<1> QED
  BY <1>4, <1>5, <1>6, <1>7, <1>8

\* The editor stays ready.
LEMMA ReadyStays ==
    ASSUME Inv, TypeOK', Proper, [Next]_vars, Ready PROVE Ready'
<1>1. "client" \in End /\ answers["client"] \in Seq([re : Id, kind : Kind, item : Nat])
  BY Values, Kinds DEF Inv
<1>2. \/ answers'["client"] = answers["client"]
      \/ \E a \in [re : Id, kind : Kind, item : Nat] : answers'["client"] = Append(answers["client"], a)
  BY <1>1, Answering
<1>3. \A a \in [re : Id, kind : Kind, item : Nat] : Append(answers["client"], a) # <<>>
  <2> SUFFICES ASSUME NEW a \in [re : Id, kind : Kind, item : Nat]
               PROVE  Append(answers["client"], a) # <<>>
    OBVIOUS
  <2>1. Len(Append(answers["client"], a)) = Len(answers["client"]) + 1 /\ Len(answers["client"]) \in Nat
    BY <1>1, AppendProperties, LenProperties
  <2>2. Len(<<>>) = 0
    OBVIOUS
  <2> QED
    BY <2>1, <2>2
<1> QED
  BY <1>2, <1>3 DEF Ready

\* What an end sends while the connection is down, or before resync has asked.
LEMMA BufferedEnd ==
    ASSUME Inv, TypeOK', \A d \in End : Basics(d), NEW e \in End, NEW got \in BOOLEAN, NEW buf, NEW out,
           EndStep(e, got, buf, out), Grows(e), Ready, flushId = None,
           \A d \in End : Stored(d) /\ AllAcked(d),
           got => Ordered(Peer(e), Len(incoming[e]))
    PROVE  /\ \A d \in End : Stored(d)' /\ AllAcked(d)'
           /\ \A d \in End : Ordered(d, Len(incoming[Peer(d)])) => Ordered(d, Len(incoming[Peer(d)]))'
           /\ flushId' = None /\ (NoFlush => NoFlush')
<1> DEFINE p == Peer(e)
<1>0. PICK m : m = Head(incoming[e])
  OBVIOUS
<1>1. /\ p \in End /\ Peer(p) = e /\ p # e /\ \A d \in End : d = e \/ d = p
      /\ "client" \in End /\ TypeOK
  BY Kinds DEF Inv, End, Peer
<1>2. /\ Sender(e, IF got THEN m.ack ELSE None, out) /\ Receiver(e, got)
      /\ got => Len(incoming[e]) \in 1 .. Len(Queue(p))
      /\ Len(incoming[e])' = IF got THEN Len(incoming[e]) - 1 ELSE Len(incoming[e])
      /\ Len(incoming[p])' = Len(incoming[p])
      /\ NoFlush => NoFlush'
      /\ Stored(p) => Stored(p)'
      /\ Stored(e) /\ (got => Acked(e, m.ack)) => Stored(e)'
      /\ AllAcked(p) => (got => Acked(e, m.ack))
  BY <1>0, EndKeeps
<1>3. Stored(e)' /\ Stored(p)'
  BY <1>1, <1>2
<1>4. AllAcked(e)' /\ AllAcked(p)'
  <2>1. AllAcked(e)'
    BY <1>1, <1>2, ActorAcks
  <2>2. AllAcked(p)'
    BY <1>1, PeerAcks
  <2> QED
    BY <2>1, <2>2
<1>5. Ordered(e, Len(incoming[p])) => Ordered(e, Len(incoming[p]))'
  <2>1. PICK n : n = Len(incoming[p])
    OBVIOUS
  <2>2. n \in 0 .. Len(Queue(e))
    BY <1>1, <2>1, Queues
  <2>3. Ordered(e, n) => Ordered(e, n)'
    BY <1>1, <1>2, <2>2, SenderOrder
  <2> QED
    BY <1>2, <2>1, <2>3
<1>6. Ordered(p, Len(incoming[e])) => Ordered(p, Len(incoming[e]))'
  <2>1. PICK n, l : n = Len(incoming[e]) /\ l = IF got THEN n - 1 ELSE n
    OBVIOUS
  <2>2. n \in 0 .. Len(Queue(p)) /\ (got => n # 0)
    BY <1>1, <1>2, <2>1, Queues
  <2>3. Ordered(p, n) => Ordered(p, l)'
    BY <1>1, <1>2, <2>1, <2>2, OrderAfter
  <2> QED
    BY <1>2, <2>1, <2>3
<1>7. flushId' = None
  BY DEF EndStep, Flushes
<1> QED
  BY <1>1, <1>2, <1>3, <1>4, <1>5, <1>6, <1>7

\* An end's step while the connection is down.
LEMMA BrokenEnd ==
    ASSUME Inv, TypeOK', \A d \in End : Basics(d), NEW e \in End, NEW got \in BOOLEAN, NEW buf, NEW out,
           EndStep(e, got, buf, out), Grows(e), Broken, Ready'
    PROVE  Broken'
<1>1. /\ Peer(e) \in End /\ Peer(Peer(e)) = e /\ \A d \in End : d = e \/ d = Peer(e)
      /\ "client" \in End /\ TypeOK
  BY Kinds DEF Inv, End, Peer
<1>2. /\ conn = 1 /\ link = "down" /\ ~ flushDue /\ flushId = None /\ Ready
      /\ outgoing["client"] = <<>> /\ NoFlush
      /\ \A d \in End : Stored(d) /\ AllAcked(d) /\ Ordered(d, Len(incoming[Peer(d)]))
  BY DEF Broken
<1>3. got => Ordered(Peer(e), Len(incoming[e]))
  BY <1>1, <1>2
<1>4. /\ \A d \in End : Stored(d)' /\ AllAcked(d)'
      /\ \A d \in End : Ordered(d, Len(incoming[Peer(d)]))'
      /\ flushId' = None /\ NoFlush'
  BY <1>2, <1>3, BufferedEnd
<1>5. UNCHANGED <<conn, link, flushDue>>
  BY DEF EndStep
<1>6. outgoing'["client"] = <<>>
  <2>1. CASE e = "client"
    <3>1. Put(e, out)
      BY DEF EndStep, Puts
    <3> QED
      BY <1>2, <2>1, <3>1 DEF Put
  <2>2. CASE e # "client"
    <3>1. Peer(e) = "client" /\ Receiver(e, got)
      BY <1>1, <2>2, ReceiverHolds
    <3> QED
      BY <1>2, <3>1 DEF Receiver
  <2> QED
    BY <2>1, <2>2
<1> QED
  BY <1>2, <1>4, <1>5, <1>6 DEF Broken

\* The server's step before resync has asked.
LEMMA AgainEnd ==
    ASSUME Inv, TypeOK', \A d \in End : Basics(d), NEW e \in End, NEW got \in BOOLEAN, NEW buf, NEW out,
           EndStep(e, got, buf, out), Grows(e), Again, Ready', e # "client"
    PROVE  Again'
<1>1. /\ e = "server" /\ Peer(e) = "client" /\ Peer("client") = e /\ "client" \in End /\ TypeOK
  BY DEF End, Peer, Inv
<1>2. /\ conn = 2 /\ link = "up" /\ flushDue /\ flushId = None /\ Ready
      /\ outgoing["client"] = <<>> /\ NoFlush
      /\ \A d \in End : Stored(d) /\ AllAcked(d)
      /\ Ordered("client", Len(incoming["server"]))
  BY DEF Again
<1>3. got => Ordered(Peer(e), Len(incoming[e]))
  BY <1>1, <1>2
<1>4. /\ \A d \in End : Stored(d)' /\ AllAcked(d)'
      /\ \A d \in End : Ordered(d, Len(incoming[Peer(d)])) => Ordered(d, Len(incoming[Peer(d)]))'
      /\ flushId' = None /\ NoFlush'
  BY <1>2, <1>3, BufferedEnd
<1>5. Ordered("client", Len(incoming["server"]))'
  BY <1>1, <1>2, <1>4
<1>6. UNCHANGED <<conn, link, flushDue>>
  BY DEF EndStep
<1>7. outgoing'["client"] = <<>>
  <2>1. Receiver(e, got)
    BY <1>1, ReceiverHolds
  <2> QED
    BY <1>1, <1>2, <2>1 DEF Receiver
<1> QED
  BY <1>2, <1>4, <1>5, <1>6, <1>7 DEF Again

\* What the server loses, or its main loop notices, changes nothing of that; the
\* editor connects again.
LEMMA BrokenRests ==
    ASSUME Inv, Broken,
           (\E e \in End : Transmit(e)) \/ Still \/ Cut \/ LoseOutgoing \/ Detach \/ Accept
            \/ Reconnect \/ Resync \/ ResyncTimeout
    PROVE  Broken' \/ Again'
<1>1. /\ TypeOK /\ \A d \in End : Peer(d) \in End /\ Peer(Peer(d)) = d
      /\ "client" \in End /\ "server" \in End /\ Peer("client") = "server" /\ Peer("server") = "client"
  BY Kinds DEF Inv, Peer
<1>2. /\ conn = 1 /\ link = "down" /\ ~ flushDue /\ flushId = None /\ Ready
      /\ outgoing["client"] = <<>> /\ NoFlush
      /\ \A d \in End : Stored(d) /\ AllAcked(d) /\ Ordered(d, Len(incoming[Peer(d)]))
  BY DEF Broken
<1>3. ~ Cut /\ ~ Accept /\ ~ Resync /\ ~ ResyncTimeout /\ \A e \in End : ~ Transmit(e)
  BY <1>2 DEF Cut, Break, Accept, Resync, ResyncTimeout, Transmit, Attached
<1>4. Rests
  BY <1>1, <1>3, ConnectionRests DEF Still
<1>5. /\ \A d \in End : Stored(d)' /\ AllAcked(d)' /\ SentIds(d)' = SentIds(d) /\ Received(d)' = Received(d)
      /\ Ready' /\ NoFlush'
  BY <1>1, <1>2, <1>4, RestsKeeps DEF NoFlush, Rests
<1>6. ASSUME NEW d \in End, incoming'[Peer(d)] = incoming[Peer(d)], outgoing'[d] \in Seq(Envelope)
      PROVE  Ordered(d, Len(incoming[Peer(d)]))'
  <2>1. PICK s, t, u : s = incoming[Peer(d)] /\ t = outgoing[d] /\ u = outgoing'[d]
    OBVIOUS
  <2>2. s \in Seq(Envelope) /\ t \in Seq(Envelope) /\ u \in Seq(Envelope)
    BY <1>1, <1>6, <2>1, Values
  <2>3. \A i \in 1 .. Len(s) : (s \o t)[i] = s[i] /\ (s \o u)[i] = s[i]
    BY ONLY <2>2, Joined
  <2>4. Queue(d) = s \o t /\ Queue(d)' = s \o u
    BY <1>6, <2>1 DEF Queue
  <2>5. InOrder(s \o t, Len(s), SentIds(d), Received(Peer(d)))
    BY <1>2, <2>1, <2>4 DEF Ordered
  <2>6. Len(s) \in Nat
    BY <2>2, LenProperties
  <2>7. InOrder(s \o u, Len(s), SentIds(d), Received(Peer(d)))
    BY <2>3, <2>5, <2>6, SameOrder
  <2>8. SentIds(d)' = SentIds(d) /\ Received(Peer(d))' = Received(Peer(d)) /\ Len(incoming[Peer(d)])' = Len(s)
    BY <1>1, <1>5, <1>6, <2>1
  <2> QED
    BY <2>4, <2>7, <2>8 DEF Ordered
<1>7. CASE Still
  <2>1. \A d \in End : Queue(d)' = Queue(d) /\ incoming'[Peer(d)] = incoming[Peer(d)] /\ outgoing'[d] = outgoing[d]
    BY <1>7 DEF Still, Queue
  <2>2. \A d \in End : Ordered(d, Len(incoming[Peer(d)]))'
    BY <1>1, <1>6, <2>1, Values
  <2> QED
    BY <1>1, <1>2, <1>5, <1>7, <2>1, <2>2 DEF Broken, Still
<1>8. CASE LoseOutgoing
  <2>1. /\ outgoing' = [outgoing EXCEPT !["server"] = Tail(@)] /\ outgoing["server"] # <<>>
        /\ UNCHANGED <<incoming, conn, link, flushDue, flushId>>
    BY <1>8 DEF LoseOutgoing, transport, resync
  <2>2. \A d \in End : outgoing'[d] \in Seq(Envelope)
    <3>1. Tail(outgoing["server"]) \in Seq(Envelope)
      BY <1>1, <2>1, Values, HeadTailProperties
    <3> QED
      BY <1>1, <2>1, <3>1, Values DEF TypeOK
  <2>3. outgoing'["client"] = <<>>
    BY <1>1, <1>2, <2>1 DEF TypeOK
  <2>4. \A d \in End : Ordered(d, Len(incoming[Peer(d)]))'
    BY <1>1, <1>6, <2>1, <2>2
  <2> QED
    BY <1>2, <1>5, <2>1, <2>3, <2>4 DEF Broken
<1>9. CASE Detach
  <2>1. UNCHANGED <<incoming, outgoing, conn, link, flushDue, flushId>>
    BY <1>9 DEF Detach, resync
  <2>2. \A d \in End : Ordered(d, Len(incoming[Peer(d)]))'
    BY <1>1, <1>6, <2>1, Values
  <2> QED
    BY <1>2, <1>5, <2>1, <2>2 DEF Broken
<1>10. CASE Reconnect
  <2>1. /\ conn' = conn + 1 /\ link' = "up" /\ flushDue' = TRUE /\ flushId' = flushId
        /\ outgoing' = [outgoing EXCEPT !["client"] = <<>>]
        /\ incoming' = [incoming EXCEPT !["client"] = <<>>]
    BY <1>10 DEF Reconnect
  <2>2. /\ outgoing'["client"] = <<>> /\ outgoing'["client"] \in Seq(Envelope)
        /\ incoming'[Peer("client")] = incoming[Peer("client")]
    <3>1. <<>> \in Seq(Envelope)
      OBVIOUS
    <3> QED
      BY <1>1, <2>1, <3>1 DEF TypeOK
  <2>3. Ordered("client", Len(incoming["server"]))'
    BY <1>1, <1>6, <2>2
  <2>4. conn' = 2
    BY <1>2, <2>1
  <2> QED
    BY <1>2, <1>5, <2>1, <2>2, <2>3, <2>4 DEF Again
<1> QED
  BY <1>3, <1>7, <1>8, <1>9, <1>10

\* The request of resync is one more envelope to the server, and keeps the rest.
LEMMA ResyncMeans ==
    ASSUME Inv, \A d \in End : Basics(d), Resync
    PROVE  \E fl \in Envelope :
           /\ fl.id = nextId["client"] /\ fl.kind = "Flush" /\ fl.ack = maxReceived["client"]
           /\ Put("client", <<fl>>) /\ <<fl>> \in Seq(Envelope) /\ flushDue
           /\ ~ flushDue' /\ flushId' = nextId["client"] /\ flushId' \in responseChannels'["client"]
           /\ flushId' < nextId'["client"]
           /\ UNCHANGED <<conn, link, attached, incoming>>
           /\ Transit("client")' \subseteq Transit("client") \union {fl}
           /\ Transit("server")' = Transit("server")
           /\ \A d \in End : SentIds(d)' = SentIds(d) /\ Received(d)' = Received(d)
           /\ Ready' = Ready /\ Pinged' = Pinged /\ PingedFirst' = PingedFirst
           /\ \A d \in End : /\ Stored(d) => Stored(d)'
                             /\ \A a : Acked(d, a) => Acked(d, a)'
                             /\ maxReceived'[d] = maxReceived[d]
                             /\ Basics(d)'
<1>0. PICK fl : fl = Env(nextId["client"], "Flush", None, maxReceived["client"], 0)
  OBVIOUS
<1>1. /\ TypeOK /\ "client" \in End /\ "server" \in End /\ \A d \in End : d \in {"client", "server"}
      /\ Peer("client") = "server" /\ Peer("server") = "client"
      /\ nextId["client"] \in Nat /\ nextId["server"] \in Nat /\ ControlKind = {"RemoteStarted", "Flush", "Ack"}
      /\ \A d \in End : Peer(d) \in End
  BY Kinds, Values DEF Inv, Peer, End
<1>2. /\ fl \in Envelope /\ <<fl>> \in Seq(Envelope) /\ Range(<<fl>>) = {fl}
      /\ fl.id = nextId["client"] /\ fl.kind = "Flush" /\ fl.re = None
  <2>1. /\ nextId["client"] \in Nat /\ "Flush" \in Kind /\ None \in Id
        /\ maxReceived["client"] \in Id /\ 0 \in Nat
    BY <1>1, Values, Kinds
  <2>2. PICK n, a : n = nextId["client"] /\ a = maxReceived["client"]
    OBVIOUS
  <2>3. n \in Nat /\ "Flush" \in Kind /\ None \in Id /\ a \in Id /\ 0 \in Nat
    BY <2>1, <2>2
  <2>4. LET m == Env(n, "Flush", None, a, 0) IN
        /\ m \in Envelope /\ m.id = n /\ m.kind = "Flush" /\ m.re = None
        /\ <<m>> \in Seq(Envelope) /\ Range(<<m>>) = {m}
    BY ONLY <2>3, Made
  <2>5. fl = Env(n, "Flush", None, a, 0)
    BY <1>0, <2>2
  <2> QED
    BY ONLY <2>2, <2>4, <2>5
<1>3. fl.ack = maxReceived["client"]
  BY <1>0 DEF Env
<1>4. /\ nextId' = [nextId EXCEPT !["client"] = @ + 1] /\ Put("client", <<fl>>)
      /\ responseChannels' = [responseChannels EXCEPT !["client"] = @ \union {nextId["client"]}]
      /\ flushDue /\ flushDue' = FALSE /\ flushId' = nextId["client"]
      /\ UNCHANGED <<sent, sending, received, answers, buffer, incoming, maxReceived, conn, link, attached>>
  BY <1>0 DEF Resync, tasks, transport, history
<1>5. /\ nextId'["client"] = nextId["client"] + 1 /\ nextId'["server"] = nextId["server"]
      /\ nextId["client"] < nextId'["client"] /\ nextId'["client"] \in Nat
      /\ nextId["client"] \in responseChannels'["client"]
  <2>1. /\ nextId'["client"] = nextId["client"] + 1 /\ \A d \in End : d # "client" => nextId'[d] = nextId[d]
    BY <1>1, <1>4, Drawing
  <2>2. responseChannels \in [End -> SUBSET Nat]
    BY <1>1 DEF TypeOK
  <2>3. nextId["client"] \in responseChannels'["client"]
    BY <1>1, <1>4, <2>2
  <2> QED
    BY <1>1, <2>1, <2>3
<1>6. /\ Transit("client")' \subseteq Transit("client") \union {fl}
      /\ Transit("server")' = Transit("server")
  <2>1. /\ Range(outgoing'["client"]) \subseteq Range(outgoing["client"]) \union {fl}
        /\ outgoing'["server"] = outgoing["server"]
    BY <1>1, <1>2, <1>4, Putting
  <2> QED
    BY <1>1, <1>4, <2>1 DEF Transit
<1>7. /\ \A d \in End : SentIds(d)' = SentIds(d) /\ Received(d)' = Received(d) /\ Sent(d)' = Sent(d)
      /\ \A d \in End : IdsOf(buffer[d])' = IdsOf(buffer[d])
      /\ Ready' = Ready /\ Pinged' = Pinged
  BY <1>4 DEF SentIds, IdsOf, Received, Ready, Pinged, Sent
<1>8. PingedFirst' = PingedFirst
  BY <1>1, <1>7 DEF PingedFirst
<1>9. \A d \in End : Stored(d) => Stored(d)'
  BY <1>1, <1>7 DEF Stored
<1>10. \A d \in End : \A a : Acked(d, a) => Acked(d, a)'
  <2>1. \A d \in End : \A a \in Nat : a < nextId[d] => a < nextId'[d]
    BY <1>1, <1>5
  <2> QED
    BY <1>1, <1>7, <2>1 DEF Acked, Good
<1>11. Basics("client")'
  <2>1. Basics("client")
    BY <1>1
  <2>2. \A x \in SentIds("client") : x < nextId["client"]
    BY <1>1, SentIdsDrawn
  <2>3. nextId["client"] \notin SentIds("client")
    BY <1>1, <2>2
  <2>4. ASSUME NEW m \in Transit("client")'
        PROVE  /\ m.kind # "RemoteStarted" =>
                    m.id < nextId'["client"] /\ (m.kind \in ControlKind => m.id \notin SentIds("client"))
               /\ m.re \in {None, 0} \/ m.re < nextId["server"]
    <3>1. CASE m \in Transit("client")
      <4>1. m.id \in Nat
        BY <1>1, <3>1, TransitTypes
      <4> QED
        BY <1>1, <1>5, <2>1, <3>1, <4>1 DEF Basics
    <3>2. CASE m = fl
      BY <1>1, <1>2, <1>5, <2>3, <3>2
    <3> QED
      BY <1>6, <2>4, <3>1, <3>2
  <2> QED
    BY <1>1, <1>4, <1>5, <1>7, <2>1, <2>4 DEF Basics
<1>12. Basics("server")'
  <2>1. Basics("server")
    BY <1>1
  <2>2. ASSUME NEW m \in Transit("server") PROVE m.re \in {None, 0} \/ m.re < nextId'["client"]
    <3>1. m.re \in Id
      BY <1>1, <2>2, TransitTypes
    <3>2. m.re \in {None, 0} \/ m.re < nextId["client"]
      BY <1>1, <2>1, <2>2 DEF Basics
    <3> QED
      BY <1>1, <1>5, <3>1, <3>2 DEF Id
  <2> QED
    BY <1>1, <1>4, <1>5, <1>6, <1>7, <2>1, <2>2 DEF Basics
<1> QED
  BY <1>1, <1>2, <1>3, <1>4, <1>5, <1>6, <1>7, <1>8, <1>9, <1>10, <1>11, <1>12

\* Connected again, up to the request of resync.
LEMMA AgainRests ==
    ASSUME Inv, \A d \in End : Basics(d), Again, MaxConnections <= 2,
           (\E e \in End : Transmit(e)) \/ Still \/ Cut \/ LoseOutgoing \/ Detach \/ Accept
            \/ Reconnect \/ Resync \/ ResyncTimeout
    PROVE  Again' \/ \E k \in Nat : Asking(k)'
<1>1. /\ TypeOK /\ \A d \in End : Peer(d) \in End /\ Peer(Peer(d)) = d
      /\ "client" \in End /\ "server" \in End /\ Peer("client") = "server" /\ Peer("server") = "client"
      /\ \A d \in End : d \in {"client", "server"}
  BY Kinds DEF Inv, Peer, End
<1>2. /\ conn = 2 /\ link = "up" /\ flushDue /\ flushId = None /\ Ready
      /\ outgoing["client"] = <<>> /\ NoFlush
      /\ \A d \in End : Stored(d) /\ AllAcked(d)
      /\ Ordered("client", Len(incoming["server"]))
  BY DEF Again
<1>3. ~ Cut /\ ~ Reconnect /\ ~ ResyncTimeout /\ ~ Transmit("client")
  <2>1. ~ (conn < MaxConnections)
    BY <1>2, BoundsAssumption
  <2> QED
    BY <1>2, <2>1 DEF Cut, Break, Reconnect, ResyncTimeout, Transmit
<1>4. ASSUME Rests, incoming'["server"] = incoming["server"], outgoing'["client"] = outgoing["client"],
             UNCHANGED <<conn, link, flushDue, flushId>>
      PROVE  Again'
  <2>1. Queue("client")' = Queue("client")
    BY <1>1, <1>4 DEF Queue
  <2>2. PICK n : n = Len(incoming["server"])
    OBVIOUS
  <2>3. Ordered("client", n)'
    BY <1>1, <1>2, <1>4, <2>1, <2>2, RestsKeeps
  <2>4. Ordered("client", Len(incoming["server"]))'
    BY <1>4, <2>2, <2>3
  <2>5. Ready' /\ NoFlush' /\ \A d \in End : Stored(d)' /\ AllAcked(d)'
    BY <1>1, <1>2, <1>4, RestsKeeps DEF NoFlush, Rests
  <2> QED
    BY <1>2, <1>4, <2>4, <2>5 DEF Again
<1>5. CASE Transmit("server")
  BY <1>1, <1>4, <1>5, TransmitRests
<1>6. CASE Still
  BY <1>4, <1>6 DEF Still
<1>7. CASE LoseOutgoing
  <2>1. /\ outgoing' = [outgoing EXCEPT !["server"] = Tail(@)] /\ Rests
        /\ UNCHANGED <<incoming, conn, link, flushDue, flushId>>
    BY <1>1, <1>7, ConnectionRests DEF LoseOutgoing, transport, resync
  <2>2. outgoing'["client"] = outgoing["client"]
    BY <1>1, <2>1 DEF TypeOK
  <2> QED
    BY <1>4, <2>1, <2>2
<1>8. CASE Detach \/ Accept
  <2>1. Rests /\ UNCHANGED <<incoming, outgoing, conn, link, flushDue, flushId>>
    BY <1>1, <1>8, ConnectionRests DEF Detach, Accept, resync
  <2> QED
    BY <1>4, <2>1
<1>9. CASE Resync
  <2>1. PICK fl \in Envelope :
           /\ fl.id = nextId["client"] /\ fl.kind = "Flush" /\ fl.ack = maxReceived["client"]
           /\ Put("client", <<fl>>) /\ <<fl>> \in Seq(Envelope)
           /\ ~ flushDue' /\ flushId' = nextId["client"] /\ flushId' \in responseChannels'["client"]
           /\ flushId' < nextId'["client"]
           /\ UNCHANGED <<conn, link, attached, incoming>>
           /\ Transit("server")' = Transit("server")
           /\ \A d \in End : SentIds(d)' = SentIds(d) /\ Received(d)' = Received(d)
           /\ Ready' = Ready
           /\ \A d \in End : /\ Stored(d) => Stored(d)'
                             /\ \A a : Acked(d, a) => Acked(d, a)'
                             /\ maxReceived'[d] = maxReceived[d]
    BY <1>9, ResyncMeans
  <2>2. PICK s : s = incoming["server"]
    OBVIOUS
  <2>3. s \in Seq(Envelope) /\ Len(s) \in Nat
    BY <1>1, <2>2, Values, LenProperties
  <2>4. Queue("client") = s /\ Queue("client")' = s \o <<fl>>
    <3>1. Queue("client") = s \o <<>>
      BY <1>1, <1>2, <2>2 DEF Queue
    <3>2. Queue("client") = s
      BY <2>3, <3>1, ConcatEmptySeq
    <3>3. Queue("client")' = Queue("client") \o <<fl>>
      BY <1>1, <1>2, <2>1, QueueGrows
    <3> QED
      BY <3>2, <3>3
  <2>5. PICK k : k = Len(s) + 1
    OBVIOUS
  <2>6. /\ k \in Nat /\ k \in 1 .. Len(s \o <<fl>>) /\ k > Len(s) /\ k - 1 = Len(s)
        /\ (s \o <<fl>>)[k] = fl /\ Len(s \o <<fl>>) = k
        /\ \A i \in 1 .. Len(s) : (s \o <<fl>>)[i] = s[i]
        /\ \A i \in 1 .. k : i = k \/ i \in 1 .. Len(s)
    <3>1. <<fl>> \in Seq(Envelope) /\ Len(<<fl>>) = 1 /\ <<fl>>[1] = fl
      BY <2>1
    <3>2. /\ Len(s \o <<fl>>) = Len(s) + 1
          /\ \A i \in 1 .. Len(s) : (s \o <<fl>>)[i] = s[i]
          /\ \A i \in 1 .. 1 : (s \o <<fl>>)[Len(s) + i] = <<fl>>[i]
      BY <2>3, <3>1, Joined
    <3> QED
      BY <2>3, <2>5, <3>1, <3>2
  <2>7. \A i \in 1 .. Len(s) : s[i] \in Transit("client")
    BY <1>1, <2>4, Queues
  <2>8. flushId' # 0 /\ flushId' \notin SentIds("client")'
    <3>1. nextId["client"] \in Nat /\ \A x \in SentIds("client") : x < nextId["client"]
      BY <1>1, Values, SentIdsDrawn
    <3>2. Received("server") # {} /\ Received("server") \subseteq SentIds("client")
          /\ SentIds("client") \subseteq Nat
      BY <1>1, <1>2, SentIdsDrawn DEF Basics
    <3>3. nextId["client"] # 0
      BY <3>1, <3>2
    <3> QED
      BY <1>1, <2>1, <3>1, <3>3
  <2>9. \A m \in Transit("server")' : m.re # flushId'
    <3>1. ASSUME NEW m \in Transit("server") PROVE m.re # nextId["client"]
      <4>1. m.re \in {None, 0} \/ m.re < nextId["client"]
        BY <1>1 DEF Basics
      <4>2. nextId["client"] \in Nat /\ nextId["client"] # 0 /\ None \notin Nat
        BY <1>1, <2>1, <2>8, Values, Kinds
      <4> QED
        BY <4>1, <4>2
    <3> QED
      BY <2>1, <3>1
  <2>10. Ordered("client", k - 1)'
    <3>1. InOrder(s, Len(s), SentIds("client"), Received("server"))
      BY <1>1, <1>2, <2>2, <2>4 DEF Ordered
    <3>2. InOrder(s \o <<fl>>, Len(s), SentIds("client"), Received("server"))
      BY <2>3, <2>6, <3>1, SameOrder
    <3> QED
      BY <1>1, <2>1, <2>4, <2>6, <3>2 DEF Ordered
  <2>11. AllAcked("server")' /\ \A a : Acked("server", a) => Acked("server", a)'
    <3>1. PICK a : a = maxReceived["server"]
      OBVIOUS
    <3>2. Acked("client", a)' /\ \A m \in Transit("server") : Acked("client", m.ack)'
      BY <1>1, <1>2, <2>1, <3>1 DEF AllAcked
    <3> QED
      BY <1>1, <2>1, <3>1, <3>2 DEF AllAcked
  <2>12. \A i \in 1 .. k : Acked("server", Queue("client")[i].ack)'
    <3>1. Acked("server", maxReceived["client"]) /\ \A i \in 1 .. Len(s) : Acked("server", s[i].ack)
      BY <1>1, <1>2, <2>7 DEF AllAcked
    <3>2. PICK a : a = maxReceived["client"]
      OBVIOUS
    <3>3. Acked("server", a)' /\ \A i \in 1 .. Len(s) : Acked("server", s[i].ack)'
      BY <2>11, <3>1, <3>2
    <3>4. ASSUME NEW i \in 1 .. k PROVE Acked("server", Queue("client")[i].ack)'
      <4>1. PICK b : b = (s \o <<fl>>)[i].ack
        OBVIOUS
      <4>2. b = a \/ (i \in 1 .. Len(s) /\ b = s[i].ack)
        <5>1. CASE i = k
          <6>1. (s \o <<fl>>)[i] = fl /\ fl.ack = maxReceived["client"]
            BY <2>1, <2>6, <5>1
          <6> QED
            BY ONLY <3>2, <4>1, <6>1
        <5>2. CASE i \in 1 .. Len(s)
          BY <2>6, <4>1, <5>2
        <5> QED
          BY <2>6, <5>1, <5>2
      <4>3. Acked("server", b)'
        BY <3>3, <4>2
      <4>4. Queue("client")'[i].ack = b
        BY <2>4, <4>1
      <4> QED
        BY <4>3, <4>4 DEF Acked
    <3> QED
      BY <3>4
  <2>13. \A i \in 1 .. k : (s \o <<fl>>)[i].kind = "Flush" => i = k
    BY <1>2, <2>6, <2>7 DEF NoFlush
  <2>14. Waits'
    BY <1>2, <2>1, <2>8 DEF Waits
  <2>15. Asking(k)'
    BY <1>1, <1>2, <2>1, <2>2, <2>4, <2>6, <2>9, <2>10, <2>11, <2>12, <2>13, <2>14 DEF Asking
  <2> QED
    BY <2>6, <2>15
<1> QED
  BY <1>1, <1>3, <1>5, <1>6, <1>7, <1>8, <1>9

\* A queue that has grown, place by place.
LEMMA LongerQueue ==
    ASSUME TypeOK, NEW e \in End, NEW out \in Seq(Envelope), Queue(e)' = Queue(e) \o out
    PROVE  /\ Len(Queue(e)) \in Nat /\ Len(Queue(e))' \in Nat /\ Len(Queue(e)) <= Len(Queue(e))'
           /\ \A i \in 1 .. Len(Queue(e)) : Queue(e)'[i] = Queue(e)[i]
           /\ \A i \in 1 .. Len(Queue(e))' : i \in 1 .. Len(Queue(e)) \/ Queue(e)'[i] \in Range(out)
           /\ Len(Queue(e))' = Len(Queue(e)) + Len(out)
           /\ Len(out) \in Nat
           /\ \A i \in 1 .. Len(out) : Queue(e)'[Len(Queue(e)) + i] = out[i]
<1>1. PICK q : q = Queue(e)
  OBVIOUS
<1>2. q \in Seq(Envelope)
  BY <1>1, Queues
<1>3. /\ Len(q) \in Nat /\ Len(out) \in Nat /\ Len(q \o out) = Len(q) + Len(out)
      /\ \A i \in 1 .. Len(q) : (q \o out)[i] = q[i]
      /\ \A i \in 1 .. Len(out) : (q \o out)[Len(q) + i] = out[i]
      /\ \A i \in 1 .. (Len(q) + Len(out)) :
           i \in 1 .. Len(q) \/ \E j \in 1 .. Len(out) : i = Len(q) + j
  BY ONLY <1>2, out \in Seq(Envelope), Joined
<1>4. \A j \in 1 .. Len(out) : out[j] \in Range(out)
  BY DEF Range
<1>5. \A i \in 1 .. Len(q \o out) : i \in 1 .. Len(q) \/ (q \o out)[i] \in Range(out)
  BY <1>3, <1>4
<1>6. Len(q) <= Len(q \o out) /\ Len(q \o out) \in Nat
  BY <1>3
<1>7. Queue(e)' = q \o out
  BY <1>1
<1> QED
  BY <1>1, <1>3, <1>5, <1>6, <1>7

\* What is under way is in the queue, or waits in the buffer.
LEMMA TransitIsQueued ==
    ASSUME TypeOK, TypeOK', NEW e \in End
    PROVE  /\ Transit(e) = Range(Queue(e)) \union Range(buffer[e])
           /\ Transit(e)' = Range(Queue(e)') \union Range(buffer'[e])
<1>1. /\ outgoing[e] \in Seq(Envelope) /\ incoming[Peer(e)] \in Seq(Envelope)
      /\ outgoing'[e] \in Seq(Envelope) /\ incoming'[Peer(e)] \in Seq(Envelope)
  BY Kinds DEF TypeOK
<1>2. \A s, t \in Seq(Envelope) : Range(s \o t) = Range(s) \union Range(t)
  BY Elements
<1>3. /\ Range(incoming[Peer(e)] \o outgoing[e]) = Range(incoming[Peer(e)]) \union Range(outgoing[e])
      /\ Range(incoming'[Peer(e)] \o outgoing'[e]) = Range(incoming'[Peer(e)]) \union Range(outgoing'[e])
  BY <1>1, <1>2
<1> QED
  BY <1>3 DEF Queue, Transit

\* The editor waits for its answer, and what it sends meanwhile has higher ids.
LEMMA WaitsOn ==
    ASSUME Inv, Waits, Ready', NEW ack, NEW out, Sender("client", ack, out) \/
                (SentIds("client")' = SentIds("client") /\ nextId'["client"] = nextId["client"]),
           UNCHANGED <<conn, link, flushDue>>, flushId' = flushId,
           flushId' \in responseChannels'["client"], nextId'["client"] \in Nat
    PROVE  Waits'
<1>1. /\ conn = 2 /\ link = "up" /\ ~ flushDue
      /\ flushId \in responseChannels["client"] /\ flushId \notin SentIds("client")
      /\ flushId # 0 /\ flushId < nextId["client"]
  BY DEF Waits
<1>2. flushId \in Nat /\ nextId["client"] \in Nat
  BY <1>1, Values, Kinds DEF Inv
<1>3. flushId \notin SentIds("client")' /\ flushId < nextId'["client"]
  BY <1>1, <1>2 DEF Sender
<1> QED
  BY <1>1, <1>3 DEF Waits

\* What the editor does while the server has not got its request.
LEMMA AskingClient ==
    ASSUME Inv, TypeOK', \A d \in End : Basics(d), NEW got \in BOOLEAN, NEW buf, NEW out,
           EndStep("client", got, buf, out), Grows("client"), NEW k \in Nat, Asking(k), Ready'
    PROVE  Asking(k)'
<1>0. PICK m : m = Head(incoming["client"])
  OBVIOUS
<1>1. /\ TypeOK /\ "client" \in End /\ "server" \in End /\ \A d \in End : d \in {"client", "server"}
      /\ Peer("client") = "server" /\ Peer("server") = "client"
      /\ nextId'["client"] \in Nat
  BY Kinds DEF Inv, Peer, End, TypeOK
<1>2. /\ Waits /\ k \in 1 .. Len(Queue("client"))
      /\ Queue("client")[k].kind = "Flush" /\ Queue("client")[k].id = flushId
      /\ attached = 2 \/ k > Len(incoming["server"])
      /\ \A e \in End : Stored(e)
      /\ AllAcked("server")
      /\ \A o \in Transit("server") : o.re # flushId
      /\ Ordered("client", k - 1)
      /\ \A i \in 1 .. k : Acked("server", Queue("client")[i].ack)
      /\ \A i \in 1 .. Len(Queue("client")) : Queue("client")[i].kind = "Flush" => i = k
  BY DEF Asking
<1>3. conn = 2 /\ link = "up" /\ flushId \in responseChannels["client"]
  BY <1>2 DEF Waits
<1>4. /\ Sender("client", IF got THEN m.ack ELSE None, out) /\ Receiver("client", got)
      /\ got => m \in Transit("server")
      /\ AllAcked("server") => (got => Acked("client", m.ack))
      /\ Stored("client") /\ (got => Acked("client", m.ack)) => Stored("client")'
      /\ Stored("server") => Stored("server")'
      /\ \A o \in Range(out) : o.kind # "Flush"
  BY <1>0, <1>1, EndKeeps
<1>5. flushId' = flushId /\ flushId' \in responseChannels'["client"]
  BY <1>0, <1>2, <1>3, <1>4 DEF EndStep, Flushes
<1>6. UNCHANGED <<conn, link, attached, flushDue>>
  BY DEF EndStep
<1>7. Waits'
  BY <1>1, <1>2, <1>4, <1>5, <1>6, WaitsOn
<1>8. /\ k \in 1 .. Len(Queue("client"))' /\ Queue("client")'[k] = Queue("client")[k]
      /\ \A i \in 1 .. k : Queue("client")'[i] = Queue("client")[i]
      /\ \A i \in 1 .. Len(Queue("client"))' : Queue("client")'[i].kind = "Flush" => i = k
  <2>1. out \in Seq(Envelope) /\ Queue("client")' = Queue("client") \o out
    BY <1>3, <1>4 DEF Sender
  <2>2. /\ Len(Queue("client")) \in Nat /\ Len(Queue("client"))' \in Nat
        /\ Len(Queue("client")) <= Len(Queue("client"))'
        /\ \A i \in 1 .. Len(Queue("client")) : Queue("client")'[i] = Queue("client")[i]
        /\ \A i \in 1 .. Len(Queue("client"))' :
                i \in 1 .. Len(Queue("client")) \/ Queue("client")'[i] \in Range(out)
    BY <1>1, <2>1, LongerQueue
  <2> QED
    BY <1>2, <1>4, <2>2
<1>9. Stored("client")' /\ Stored("server")'
  BY <1>1, <1>2, <1>4
<1>10. AllAcked("server")'
  BY <1>1, <1>2, PeerAcks
<1>11. \A o \in Transit("server")' : o.re # flushId'
  BY <1>1, <1>2, <1>4, <1>5 DEF Receiver
<1>12. Ordered("client", k - 1)'
  <2>1. PICK n : n = k - 1
    OBVIOUS
  <2>2. n \in 0 .. Len(Queue("client")) /\ Ordered("client", n)
    BY <1>1, <1>2, <2>1, Queues
  <2>3. Ordered("client", n)'
    BY <1>1, <1>4, <2>2, SenderOrder
  <2> QED
    BY <2>1, <2>3
<1>13. \A i \in 1 .. k : Acked("server", Queue("client")[i].ack)'
  <2> SUFFICES ASSUME NEW i \in 1 .. k PROVE Acked("server", Queue("client")[i].ack)'
    OBVIOUS
  <2>1. PICK a : a = Queue("client")[i].ack
    OBVIOUS
  <2>2. Acked("server", a)'
    BY <1>1, <1>2, <1>4, <2>1, ReceiverKeeps
  <2>3. Queue("client")'[i].ack = a
    BY <1>8, <2>1
  <2> QED
    BY <2>2, <2>3 DEF Acked
<1>14. attached' = 2 \/ k > Len(incoming["server"])'
  BY <1>1, <1>2, <1>4, <1>6 DEF Sender
<1>15. \A e \in End : Stored(e)'
  BY <1>1, <1>9
<1> QED
  BY <1>2, <1>5, <1>7, <1>8, <1>10, <1>11, <1>12, <1>13, <1>14, <1>15 DEF Asking

\* What the server puts is no answer to resync before it has got the request.
LEMMA NoAnswerYet ==
    ASSUME Inv, TypeOK', Basics("client")', Waits', Waits, flushId' = flushId, NEW got \in BOOLEAN, NEW buf, NEW out,
           EndStep("server", got, buf, out), Sender("server", IF got THEN Head(incoming["server"]).ack ELSE None, out),
           ~ (got /\ Head(incoming["server"]).kind = "Flush"),
           \A o \in Transit("server") : o.re # flushId
    PROVE  \A o \in Transit("server")' : o.re # flushId'
<1>1. flushId \in Nat /\ flushId # 0 /\ flushId # None /\ flushId \notin SentIds("client")'
  BY Values, Kinds DEF Waits, Inv
<1>2. Received("server")' \subseteq SentIds("client")' /\ Peer("client") = "server"
  BY DEF Basics, Peer
<1>3. \A b \in Range(buf) : b \in Transit("server")
  BY DEF EndStep, Keeps, Transit
<1>4. \A o \in Range(out) : o \in Range(buf) \/ o.re \in {None, 0} \union Received("server")'
  BY DEF EndStep, Marks
<1>5. \A o \in Range(out) : o.re # flushId
  BY <1>1, <1>2, <1>3, <1>4
<1> QED
  BY <1>5 DEF Sender

\* The server takes what is ahead of the request ...
LEMMA AskingServer ==
    ASSUME Inv, TypeOK', \A d \in End : Basics(d) /\ Basics(d)', NEW got \in BOOLEAN, NEW buf, NEW out,
           EndStep("server", got, buf, out), Grows("server"), NEW k \in Nat, Asking(k), Ready',
           got => k # 1
    PROVE  Asking(IF got THEN k - 1 ELSE k)'
<1>0. PICK m, l : m = Head(incoming["server"]) /\ l = IF got THEN k - 1 ELSE k
  OBVIOUS
<1>1. /\ TypeOK /\ "client" \in End /\ "server" \in End /\ \A d \in End : d \in {"client", "server"}
      /\ Peer("client") = "server" /\ Peer("server") = "client"
      /\ nextId'["client"] \in Nat
  BY Kinds DEF Inv, Peer, End, TypeOK
<1>2. /\ Waits /\ k \in 1 .. Len(Queue("client"))
      /\ Queue("client")[k].kind = "Flush" /\ Queue("client")[k].id = flushId
      /\ attached = 2 \/ k > Len(incoming["server"])
      /\ \A e \in End : Stored(e)
      /\ AllAcked("server")
      /\ \A o \in Transit("server") : o.re # flushId
      /\ Ordered("client", k - 1)
      /\ \A i \in 1 .. k : Acked("server", Queue("client")[i].ack)
      /\ \A i \in 1 .. Len(Queue("client")) : Queue("client")[i].kind = "Flush" => i = k
  BY DEF Asking
<1>3. conn = 2 /\ link = "up" /\ flushId \in responseChannels["client"]
  BY <1>2 DEF Waits
<1>4. /\ Sender("server", IF got THEN m.ack ELSE None, out) /\ Receiver("server", got)
      /\ Stored("server") /\ (got => Acked("server", m.ack)) => Stored("server")'
      /\ Stored("client") => Stored("client")'
      /\ Len(Queue("client"))' = IF got THEN Len(Queue("client")) - 1 ELSE Len(Queue("client"))
      /\ Len(incoming["server"])' = IF got THEN Len(incoming["server"]) - 1 ELSE Len(incoming["server"])
      /\ got => Len(Queue("client")) \in 1 .. Len(Queue("client"))
      /\ got => Queue("client")[1] = m
      /\ \A i \in 1 .. (Len(Queue("client")) - 1) : got => Queue("client")'[i] = Queue("client")[i + 1]
  BY <1>0, <1>1, EndKeeps
<1>5. flushId' = flushId /\ flushId' \in responseChannels'["client"]
  BY <1>3 DEF EndStep, Flushes
<1>6. UNCHANGED <<conn, link, attached, flushDue>>
  BY DEF EndStep
<1>7. SentIds("client")' = SentIds("client") /\ nextId'["client"] = nextId["client"]
  BY <1>1, <1>4 DEF Receiver
<1>8. Waits'
  BY <1>1, <1>2, <1>5, <1>6, <1>7, WaitsOn
<1>9. /\ Len(Queue("client")) \in Nat /\ Len(incoming["server"]) \in Nat
      /\ l \in Nat /\ l \in 1 .. Len(Queue("client"))'
  BY <1>0, <1>1, <1>2, <1>4, Queues
<1>10. /\ ~ got => Queue("client")' = Queue("client")
       /\ got => m.kind # "Flush"
  BY <1>1, <1>2, <1>4, <1>9 DEF Receiver
<1>11. \A i \in 1 .. Len(Queue("client"))' :
         \E j \in 1 .. Len(Queue("client")) : /\ j = IF got THEN i + 1 ELSE i
                                              /\ Queue("client")'[i] = Queue("client")[j]
  <2>1. CASE got
    <3> SUFFICES ASSUME NEW i \in 1 .. Len(Queue("client"))'
                 PROVE  i + 1 \in 1 .. Len(Queue("client")) /\ Queue("client")'[i] = Queue("client")[i + 1]
      BY <2>1
    <3>1. i \in 1 .. (Len(Queue("client")) - 1) /\ i + 1 \in 1 .. Len(Queue("client"))
      BY <1>4, <1>9, <2>1
    <3> QED
      BY <1>4, <2>1, <3>1
  <2>2. CASE ~ got
    BY <1>4, <1>10, <2>2
  <2> QED
    BY <2>1, <2>2
<1>12. /\ Queue("client")'[l] = Queue("client")[k]
       /\ \A i \in 1 .. Len(Queue("client"))' : Queue("client")'[i].kind = "Flush" => i = l
       /\ \A i \in 1 .. l : \E j \in 1 .. k : Queue("client")'[i] = Queue("client")[j]
  <2>1. \A i \in 1 .. l : i \in 1 .. Len(Queue("client"))'
    BY <1>4, <1>9
  <2>2. l = IF got THEN k - 1 ELSE k
    BY <1>0
  <2>3. PICK j \in 1 .. Len(Queue("client")) : /\ j = (IF got THEN l + 1 ELSE l)
                                              /\ Queue("client")'[l] = Queue("client")[j]
    BY <1>9, <1>11
  <2>4. j = k
    BY <1>9, <2>2, <2>3
  <2>5. ASSUME NEW i \in 1 .. Len(Queue("client"))', Queue("client")'[i].kind = "Flush" PROVE i = l
    <3>1. PICK h \in 1 .. Len(Queue("client")) : /\ h = (IF got THEN i + 1 ELSE i)
                                                /\ Queue("client")'[i] = Queue("client")[h]
      BY <1>11
    <3>2. h = k
      BY <1>2, <2>5, <3>1
    <3> QED
      BY <1>4, <1>9, <2>2, <3>1, <3>2
  <2>6. ASSUME NEW i \in 1 .. l PROVE \E h \in 1 .. k : Queue("client")'[i] = Queue("client")[h]
    <3>1. PICK h \in 1 .. Len(Queue("client")) : /\ h = (IF got THEN i + 1 ELSE i)
                                                /\ Queue("client")'[i] = Queue("client")[h]
      BY <1>11, <2>1
    <3>2. h \in 1 .. k
      BY <1>9, <2>2, <3>1
    <3> QED
      BY <3>1, <3>2
  <2> QED
    BY <2>3, <2>4, <2>5, <2>6
<1>13. Stored("client")' /\ Stored("server")'
  <2>1. 1 \in 1 .. k
    BY <1>2
  <2> QED
    BY <1>1, <1>2, <1>4, <2>1
<1>14. AllAcked("server")'
  <2>1. ASSUME got PROVE \E n \in 1 .. Len(Queue("client")) : Ordered("client", n)
    <3>1. k - 1 \in 1 .. Len(Queue("client"))
      BY <1>2, <1>9, <2>1
    <3> QED
      BY <1>2, <3>1
  <2> QED
    BY <1>1, <1>2, <2>1, ActorAcks
<1>15. \A o \in Transit("server")' : o.re # flushId'
  BY <1>0, <1>1, <1>2, <1>4, <1>5, <1>8, <1>10, NoAnswerYet
<1>16. Ordered("client", l - 1)'
  <2>1. PICK n, h : n = k - 1 /\ h = l - 1
    OBVIOUS
  <2>2. n \in 0 .. Len(Queue("client")) /\ Ordered("client", n)
    BY <1>2, <1>9, <2>1
  <2>3. (got => n # 0) /\ h = IF got THEN n - 1 ELSE n
    BY <1>0, <1>2, <1>9, <2>1
  <2>4. Ordered("client", h)'
    BY <1>1, <1>4, <2>2, <2>3, OrderAfter
  <2> QED
    BY <2>1, <2>4
<1>17. \A i \in 1 .. l : Acked("server", Queue("client")[i].ack)'
  <2> SUFFICES ASSUME NEW i \in 1 .. l PROVE Acked("server", Queue("client")[i].ack)'
    OBVIOUS
  <2>1. PICK j \in 1 .. k : Queue("client")'[i] = Queue("client")[j]
    BY <1>12
  <2>2. PICK a : a = Queue("client")[j].ack
    OBVIOUS
  <2>3. Acked("server", a)
    BY <1>2, <2>2
  <2>4. Acked("server", a)'
    BY <1>1, <1>4, <2>3, SenderKeeps
  <2>5. Queue("client")'[i].ack = a
    BY <2>1, <2>2
  <2> QED
    BY <2>4, <2>5 DEF Acked
<1>18. attached' = 2 \/ l > Len(incoming["server"])'
  BY <1>0, <1>2, <1>4, <1>6, <1>9
<1>19. \A e \in End : Stored(e)'
  BY <1>1, <1>13
<1>20. Asking(l)'
  BY <1>2, <1>5, <1>8, <1>9, <1>12, <1>14, <1>15, <1>16, <1>17, <1>18, <1>19 DEF Asking
<1> QED
  BY <1>0, <1>20

\* ... and answers the request behind all that it sends again.
LEMMA AskingAnswered ==
    ASSUME Inv, TypeOK', \A d \in End : Basics(d), NEW buf, NEW out,
           EndStep("server", TRUE, buf, out), Grows("server"), Asking(1), Ready'
    PROVE  \E k \in Nat : Replying(k)'
<1>0. PICK m : m = Head(incoming["server"])
  OBVIOUS
<1>1. /\ TypeOK /\ "client" \in End /\ "server" \in End /\ \A d \in End : d \in {"client", "server"}
      /\ Peer("client") = "server" /\ Peer("server") = "client"
      /\ nextId'["client"] \in Nat /\ ControlKind = {"RemoteStarted", "Flush", "Ack"}
  BY Kinds DEF Inv, Peer, End, TypeOK
<1>2. /\ Waits /\ 1 \in 1 .. Len(Queue("client"))
      /\ Queue("client")[1].kind = "Flush" /\ Queue("client")[1].id = flushId
      /\ attached = 2 \/ 1 > Len(incoming["server"])
      /\ \A e \in End : Stored(e)
      /\ AllAcked("server")
      /\ \A o \in Transit("server") : o.re # flushId
      /\ \A i \in 1 .. 1 : Acked("server", Queue("client")[i].ack)
      /\ \A i \in 1 .. Len(Queue("client")) : Queue("client")[i].kind = "Flush" => i = 1
  BY DEF Asking
<1>3. conn = 2 /\ link = "up" /\ flushId \in responseChannels["client"] /\ Ready
  BY <1>2 DEF Waits
<1>4. /\ Sender("server", m.ack, out) /\ Receiver("server", TRUE)
      /\ Stored("server") /\ Acked("server", m.ack) => Stored("server")'
      /\ Stored("client") => Stored("client")'
      /\ Len(Queue("client"))' = Len(Queue("client")) - 1
      /\ Queue("client")[1] = m
      /\ \A i \in 1 .. (Len(Queue("client")) - 1) : Queue("client")'[i] = Queue("client")[i + 1]
      /\ Len(incoming["server"]) \in 1 .. Len(Queue("client"))
  BY <1>0, <1>1, EndKeeps
<1>5. flushId' = flushId /\ flushId' \in responseChannels'["client"]
  BY <1>3 DEF EndStep, Flushes
<1>6. UNCHANGED <<conn, link, attached, flushDue>>
  BY DEF EndStep
<1>7. SentIds("client")' = SentIds("client") /\ nextId'["client"] = nextId["client"]
  BY <1>1, <1>4 DEF Receiver
<1>8. Waits'
  BY <1>1, <1>2, <1>5, <1>6, <1>7, WaitsOn
<1>9. attached' = 2
  BY <1>2, <1>4, <1>6
<1>10. PICK ack \in Envelope : /\ out = Append(buf, ack)
                              /\ ack.kind = "Ack" /\ ack.re = flushId /\ ack.ack = None
  BY <1>0, <1>2, <1>4 DEF EndStep, Flushes
<1>11. buf \in Seq(Envelope) /\ Range(buf) \subseteq Range(buffer["server"]) /\ out \in Seq(Envelope)
  BY DEF EndStep, Keeps, Puts
<1>12. /\ Range(out) = Range(buf) \union {ack}
       /\ Len(buf) \in Nat /\ Len(out) = Len(buf) + 1 /\ out[Len(out)] = ack
       /\ \A i \in 1 .. Len(buf) : out[i] = buf[i]
  <2>1. \A s \in Seq(Envelope) : \A x \in Envelope : Range(Append(s, x)) = Range(s) \union {x}
    BY Elements
  <2>2. /\ Len(buf) \in Nat /\ Len(Append(buf, ack)) = Len(buf) + 1
        /\ Append(buf, ack)[Len(buf) + 1] = ack
        /\ \A i \in 1 .. Len(buf) : Append(buf, ack)[i] = buf[i]
    BY <1>11, LenProperties, AppendProperties
  <2> QED
    BY <1>10, <1>11, <2>1, <2>2
<1>13. UNCHANGED sent /\ buffer' = [buffer EXCEPT !["server"] = buf]
  <2>1. Puts("server", buf, out)
    BY DEF EndStep
  <2>2. ASSUME NEW env \in Envelope, out = <<env>>, env.kind \notin ControlKind PROVE FALSE
    <3>1. Len(out) = 1 /\ out[1] = env
      BY <2>2
    <3>2. ack = env
      BY <1>12, <3>1
    <3> QED
      BY <1>1, <1>10, <2>2, <3>2
  <2> QED
    BY <2>1, <2>2 DEF Puts
<1>14. \A b \in Range(buf) : b.kind \notin ControlKind /\ b \in Transit("server")
  BY <1>1, <1>11 DEF Basics, Transit
<1>15. /\ out \in Seq(Envelope) /\ Queue("server")' = Queue("server") \o out
  BY <1>1, <1>4 DEF Sender
<1>16. /\ Len(Queue("server")) \in Nat /\ Len(Queue("server"))' \in Nat
       /\ Len(Queue("server"))' = Len(Queue("server")) + Len(out)
       /\ \A i \in 1 .. Len(Queue("server")) : Queue("server")'[i] = Queue("server")[i]
       /\ \A i \in 1 .. Len(out) : Queue("server")'[Len(Queue("server")) + i] = out[i]
  BY <1>1, <1>15, LongerQueue
<1>17. PICK k : k = Len(Queue("server"))'
  OBVIOUS
<1>18. k \in 1 .. Len(Queue("server"))' /\ k \in Nat /\ Queue("server")'[k] = ack
  <2>1. Len(out) \in 1 .. Len(out)
    BY <1>12
  <2>2. Queue("server")'[Len(Queue("server")) + Len(out)] = ack
    BY <1>12, <1>16, <2>1
  <2> QED
    BY <1>12, <1>16, <1>17, <2>2
<1>19. \A i \in 1 .. (k - 1) : Queue("server")'[i] \in Transit("server")
  <2> SUFFICES ASSUME NEW i \in 1 .. (k - 1) PROVE Queue("server")'[i] \in Transit("server")
    OBVIOUS
  <2>1. CASE i \in 1 .. Len(Queue("server"))
    BY <1>1, <1>16, <2>1, Queues
  <2>2. CASE i \notin 1 .. Len(Queue("server"))
    <3>1. PICK j : j = i - Len(Queue("server"))
      OBVIOUS
    <3>2. j \in 1 .. Len(buf) /\ j \in 1 .. Len(out) /\ i = Len(Queue("server")) + j
      BY <1>12, <1>16, <1>17, <2>2, <3>1
    <3>3. Queue("server")'[i] = buf[j]
      BY <1>12, <1>16, <3>2
    <3>4. buf[j] \in Range(buf)
      BY <1>11, <3>2, LenProperties DEF Range
    <3> QED
      BY <1>14, <3>3, <3>4
  <2> QED
    BY <2>1, <2>2
<1>20. Stored("client")' /\ Stored("server")'
  <2>1. Acked("server", m.ack)
    BY <1>2, <1>4
  <2> QED
    BY <1>1, <1>2, <1>4, <2>1
<1>21. \A i \in 1 .. (k - 1) : /\ Queue("server")'[i].re # flushId'
                               /\ Acked("client", Queue("server")[i].ack)'
  <2> SUFFICES ASSUME NEW i \in 1 .. (k - 1)
               PROVE  Queue("server")'[i].re # flushId' /\ Acked("client", Queue("server")[i].ack)'
    OBVIOUS
  <2>1. PICK o, a : o = Queue("server")'[i] /\ a = o.ack
    OBVIOUS
  <2>2. o \in Transit("server")
    BY <1>19, <2>1
  <2>3. Acked("client", a)
    BY <1>1, <1>2, <2>1, <2>2 DEF AllAcked
  <2>4. Acked("client", a)'
    BY <1>1, <1>4, <2>3, ReceiverKeeps
  <2> QED
    BY <1>2, <1>5, <2>1, <2>2, <2>4 DEF Acked
<1>22. Settled("server")'
  <2>1. SentIds("server")' = SentIds("server") /\ buffer'["server"] = buf
    BY <1>1, <1>13 DEF SentIds, IdsOf, TypeOK
  <2>2. Received("client") # {} /\ Received("client")' = Received("client")
    BY <1>1, <1>3, <1>4 DEF Basics, Sender
  <2>3. Flying(out) \subseteq Flying(Queue("server"))'
    <3>1. Queue("server") \in Seq(Envelope)
      BY <1>1, Queues
    <3>2. Flying(Queue("server") \o out) = Flying(Queue("server")) \union Flying(out)
      BY <1>11, <3>1, FlyingStays
    <3> QED
      BY <1>15, <3>2 DEF Flying
  <2>4. IdsOf(buf) \subseteq Flying(out)
    <3> SUFFICES ASSUME NEW j \in DOMAIN buf PROVE buf[j].id \in Flying(out)
      BY DEF IdsOf
    <3>1. j \in 1 .. Len(buf) /\ j \in DOMAIN out
      <4>1. DOMAIN buf = 1 .. Len(buf) /\ DOMAIN out = 1 .. Len(out)
        BY <1>11, LenProperties
      <4> QED
        BY <1>12, <4>1
    <3>2. out[j] = buf[j] /\ buf[j].kind \notin ControlKind
      BY <1>12, <1>14, <3>1 DEF Range
    <3> QED
      BY <3>1, <3>2 DEF Flying
  <2>5. ASSUME NEW x \in SentIds("server")' PROVE x \in Received("client")' \union Flying(Queue("server"))'
    <3>1. x = 0 \/ x \in Received("client")' \/ x \in IdsOf(buf)
      BY <1>1, <1>20, <2>1, <2>5 DEF Stored
    <3>2. x = 0 => x \in Received("client")
      BY <1>1, <2>1, <2>2, <2>5 DEF Basics
    <3> QED
      BY <2>2, <2>3, <2>4, <3>1, <3>2
  <2> QED
    BY <1>1, <2>5 DEF Settled, Flying
<1>23. NoFlush'
  <2>1. Transit("client")' = Range(Queue("client")') \union Range(buffer'["client"])
    BY <1>1, TransitIsQueued
  <2>2. \A b \in Range(buffer'["client"]) : b.kind # "Flush"
    <3>1. buffer'["client"] = buffer["client"]
      BY <1>1, <1>4 DEF Receiver
    <3> QED
      BY <1>1, <3>1 DEF Basics
  <2>3. \A o \in Range(Queue("client")') : o.kind # "Flush"
    <3>1. Queue("client")' \in Seq(Envelope)
      <4>1. Queue("client") \in Seq(Envelope) /\ Queue("client")' = Tail(Queue("client")) /\ Queue("client") # <<>>
        BY <1>1, <1>4, Queues DEF Receiver
      <4> QED
        BY <4>1, HeadTailProperties
    <3>2. DOMAIN Queue("client")' = 1 .. Len(Queue("client"))'
      BY <3>1, LenProperties
    <3>3. Len(Queue("client")) \in Nat
      BY <1>1, Queues
    <3>4. ASSUME NEW i \in 1 .. (Len(Queue("client")) - 1) PROVE Queue("client")'[i].kind # "Flush"
      <4>1. i + 1 \in 1 .. Len(Queue("client")) /\ i + 1 # 1
        BY <3>3
      <4> QED
        BY <1>2, <1>4, <4>1
    <3> QED
      BY <1>4, <3>2, <3>4 DEF Range
  <2> QED
    BY <1>1, <2>1, <2>2, <2>3 DEF NoFlush
<1>24. Queue("server")'[k].kind = "Ack" /\ Queue("server")'[k].re = flushId' /\ Queue("server")'[k].ack = None
  BY <1>5, <1>10, <1>18
<1>25. Replying(k)'
  BY <1>8, <1>9, <1>18, <1>20, <1>21, <1>22, <1>23, <1>24 DEF Replying
<1> QED
  BY <1>18, <1>25

\* Once two connections were made, no more come and the second one stays.
LEMMA LastConnection ==
    ASSUME MaxConnections <= 2, conn = 2, link = "up", ~ flushDue
    PROVE  ~ Cut /\ ~ Reconnect /\ ~ Resync /\ ~ ResyncTimeout
<1>1. ~ (conn < MaxConnections)
  BY BoundsAssumption
<1> QED
  BY <1>1 DEF Cut, Break, Reconnect, Resync, ResyncTimeout

\* The connection carries the request.
LEMMA AskingRests ==
    ASSUME Inv, NEW k \in Nat, Asking(k), MaxConnections <= 2,
           (\E e \in End : Transmit(e)) \/ Still \/ Cut \/ LoseOutgoing \/ Detach \/ Accept
            \/ Reconnect \/ Resync \/ ResyncTimeout
    PROVE  Asking(k)'
<1>1. /\ TypeOK /\ \A d \in End : Peer(d) \in End /\ Peer(Peer(d)) = d
      /\ "client" \in End /\ "server" \in End /\ Peer("client") = "server" /\ Peer("server") = "client"
      /\ \A d \in End : d \in {"client", "server"}
  BY Kinds DEF Inv, Peer, End
<1>2. /\ Waits /\ k \in 1 .. Len(Queue("client"))
      /\ Queue("client")[k].kind = "Flush" /\ Queue("client")[k].id = flushId
      /\ attached = 2 \/ k > Len(incoming["server"])
      /\ \A e \in End : Stored(e)
      /\ AllAcked("server")
      /\ \A o \in Transit("server") : o.re # flushId
      /\ Ordered("client", k - 1)
      /\ \A i \in 1 .. k : Acked("server", Queue("client")[i].ack)
      /\ \A i \in 1 .. Len(Queue("client")) : Queue("client")[i].kind = "Flush" => i = k
  BY DEF Asking
<1>3. /\ conn = 2 /\ link = "up" /\ ~ flushDue /\ Ready
      /\ flushId \in responseChannels["client"] /\ flushId \notin SentIds("client")
      /\ flushId # 0 /\ flushId < nextId["client"]
  BY <1>2 DEF Waits
<1>4. ~ Cut /\ ~ Reconnect /\ ~ Resync /\ ~ ResyncTimeout
  BY <1>3, LastConnection
<1>5. ASSUME Rests, Queue("client")' = Queue("client"), UNCHANGED <<conn, link, flushDue, flushId>>,
             attached' = 2 \/ k > Len(incoming'["server"])
      PROVE  Asking(k)'
  <2>1. /\ responseChannels' = responseChannels /\ nextId' = nextId
        /\ \A d \in End : Transit(d)' \subseteq Transit(d)
    BY <1>5 DEF Rests
  <2>2. /\ SentIds("client")' = SentIds("client") /\ Ready' = Ready
        /\ \A d \in End : Stored(d) => Stored(d)'
        /\ AllAcked("server") => AllAcked("server")'
        /\ \A a : Acked("server", a) => Acked("server", a)'
    BY <1>1, <1>5, RestsKeeps
  <2>3. Waits'
    BY <1>3, <1>5, <2>1, <2>2 DEF Waits
  <2>4. Ordered("client", k - 1)'
    <3>1. PICK n : n = k - 1
      OBVIOUS
    <3>2. Ordered("client", n)'
      BY <1>1, <1>2, <1>5, <3>1, RestsKeeps
    <3> QED
      BY <3>1, <3>2
  <2>5. \A i \in 1 .. k : Acked("server", Queue("client")[i].ack)'
    <3> SUFFICES ASSUME NEW i \in 1 .. k PROVE Acked("server", Queue("client")[i].ack)'
      OBVIOUS
    <3>1. PICK a : a = Queue("client")[i].ack
      OBVIOUS
    <3>2. Acked("server", a)'
      BY <1>2, <2>2, <3>1
    <3>3. Queue("client")'[i].ack = a
      BY <1>5, <3>1
    <3> QED
      BY <3>2, <3>3 DEF Acked
  <2>6. \A o \in Transit("server")' : o.re # flushId'
    BY <1>1, <1>2, <1>5, <2>1
  <2> QED
    BY <1>2, <1>5, <2>2, <2>3, <2>4, <2>5, <2>6 DEF Asking
<1>6. CASE \E e \in End : Transmit(e)
  <2>1. PICK e \in End : Transmit(e)
    BY <1>6
  <2>2. /\ Rests /\ UNCHANGED <<conn, link, attached, flushDue, flushId>> /\ Attached
        /\ \A d \in End : Queue(d)' = Queue(d)
    BY <1>1, <2>1, TransmitRests
  <2> QED
    BY <1>1, <1>3, <1>5, <2>2 DEF Attached
<1>7. CASE Still
  <2>1. Queue("client")' = Queue("client")
    BY <1>7 DEF Still, Queue
  <2> QED
    BY <1>2, <1>5, <1>7, <2>1 DEF Still
<1>8. CASE LoseOutgoing \/ Detach
  <2>1. Rests /\ UNCHANGED <<incoming, conn, link, flushDue, flushId>>
    BY <1>1, <1>8, ConnectionRests DEF LoseOutgoing, Detach, transport, resync
  <2>2. outgoing'["client"] = outgoing["client"]
    BY <1>1, <1>8 DEF LoseOutgoing, Detach, TypeOK
  <2>3. k > Len(incoming["server"])
    BY <1>2, <1>3, <1>8 DEF LoseOutgoing, Detach, Attached
  <2>4. Queue("client")' = Queue("client")
    BY <1>1, <2>1, <2>2 DEF Queue
  <2> QED
    BY <1>5, <2>1, <2>3, <2>4
<1>9. CASE Accept
  <2>1. Rests /\ UNCHANGED <<incoming, outgoing, conn, link, flushDue, flushId>> /\ attached' = 2
    BY <1>1, <1>3, <1>9, ConnectionRests DEF Accept, resync
  <2>2. Queue("client")' = Queue("client")
    BY <2>1 DEF Queue
  <2> QED
    BY <1>5, <2>1, <2>2
<1> QED
  BY <1>4, <1>6, <1>7, <1>8, <1>9

\* The server goes on after its answer.
LEMMA ReplyingServer ==
    ASSUME Inv, TypeOK', \A d \in End : Basics(d), NEW got \in BOOLEAN, NEW buf, NEW out,
           EndStep("server", got, buf, out), Grows("server"), NEW k \in Nat, Replying(k), Ready'
    PROVE  Replying(k)'
<1>0. PICK m : m = Head(incoming["server"])
  OBVIOUS
<1>1. /\ TypeOK /\ "client" \in End /\ "server" \in End /\ \A d \in End : d \in {"client", "server"}
      /\ Peer("client") = "server" /\ Peer("server") = "client" /\ nextId'["client"] \in Nat
  BY Kinds DEF Inv, Peer, End, TypeOK
<1>2. /\ Waits /\ attached = 2
      /\ k \in 1 .. Len(Queue("server"))
      /\ Queue("server")[k].kind = "Ack" /\ Queue("server")[k].re = flushId
      /\ Queue("server")[k].ack = None
      /\ Settled("server") /\ Stored("client")
      /\ \A i \in 1 .. (k - 1) : /\ Queue("server")[i].re # flushId
                                 /\ Acked("client", Queue("server")[i].ack)
      /\ NoFlush
  BY DEF Replying
<1>3. conn = 2 /\ link = "up" /\ flushId \in responseChannels["client"]
  BY <1>2 DEF Waits
<1>4. /\ Sender("server", IF got THEN m.ack ELSE None, out) /\ Receiver("server", got)
      /\ Stored("client") => Stored("client")'
      /\ NoFlush => NoFlush'
  BY <1>0, <1>1, EndKeeps
<1>5. flushId' = flushId /\ flushId' \in responseChannels'["client"]
  BY <1>3 DEF EndStep, Flushes
<1>6. UNCHANGED <<conn, link, attached, flushDue>>
  BY DEF EndStep
<1>7. SentIds("client")' = SentIds("client") /\ nextId'["client"] = nextId["client"]
  BY <1>1, <1>4 DEF Receiver
<1>8. Waits'
  BY <1>1, <1>2, <1>5, <1>6, <1>7, WaitsOn
<1>9. /\ k \in 1 .. Len(Queue("server"))' /\ \A i \in 1 .. k : Queue("server")'[i] = Queue("server")[i]
  <2>1. out \in Seq(Envelope) /\ Queue("server")' = Queue("server") \o out
    BY <1>4 DEF Sender
  <2>2. /\ Len(Queue("server")) \in Nat /\ Len(Queue("server"))' \in Nat
        /\ Len(Queue("server")) <= Len(Queue("server"))'
        /\ \A i \in 1 .. Len(Queue("server")) : Queue("server")'[i] = Queue("server")[i]
    BY <1>1, <2>1, LongerQueue
  <2> QED
    BY <1>2, <2>2
<1>10. Settled("server")'
  BY <1>1, <1>2, <1>4, SenderKeeps
<1>11. \A i \in 1 .. (k - 1) : /\ Queue("server")'[i].re # flushId'
                               /\ Acked("client", Queue("server")[i].ack)'
  <2> SUFFICES ASSUME NEW i \in 1 .. (k - 1)
               PROVE  Queue("server")'[i].re # flushId' /\ Acked("client", Queue("server")[i].ack)'
    OBVIOUS
  <2>1. PICK a : a = Queue("server")[i].ack
    OBVIOUS
  <2>2. Acked("client", a)'
    BY <1>1, <1>2, <1>4, <2>1, ReceiverKeeps
  <2>3. Queue("server")'[i] = Queue("server")[i]
    BY <1>9
  <2> QED
    BY <1>2, <1>5, <2>1, <2>2, <2>3 DEF Acked
<1>12. Queue("server")'[k] = Queue("server")[k]
  BY <1>2, <1>9
<1> QED
  BY <1>2, <1>4, <1>5, <1>6, <1>8, <1>9, <1>10, <1>11, <1>12 DEF Replying

\* The editor takes what is ahead of the answer ...
LEMMA ReplyingClient ==
    ASSUME Inv, TypeOK', \A d \in End : Basics(d), NEW got \in BOOLEAN, NEW buf, NEW out,
           EndStep("client", got, buf, out), Grows("client"), NEW k \in Nat, Replying(k), Ready',
           got => k # 1
    PROVE  Replying(IF got THEN k - 1 ELSE k)'
<1>0. PICK m, l : m = Head(incoming["client"]) /\ l = IF got THEN k - 1 ELSE k
  OBVIOUS
<1>1. /\ TypeOK /\ "client" \in End /\ "server" \in End /\ \A d \in End : d \in {"client", "server"}
      /\ Peer("client") = "server" /\ Peer("server") = "client" /\ nextId'["client"] \in Nat
  BY Kinds DEF Inv, Peer, End, TypeOK
<1>2. /\ Waits /\ attached = 2
      /\ k \in 1 .. Len(Queue("server"))
      /\ Queue("server")[k].kind = "Ack" /\ Queue("server")[k].re = flushId
      /\ Queue("server")[k].ack = None
      /\ Settled("server") /\ Stored("client")
      /\ \A i \in 1 .. (k - 1) : /\ Queue("server")[i].re # flushId
                                 /\ Acked("client", Queue("server")[i].ack)
      /\ NoFlush
  BY DEF Replying
<1>3. conn = 2 /\ link = "up" /\ flushId \in responseChannels["client"]
  BY <1>2 DEF Waits
<1>4. /\ Sender("client", IF got THEN m.ack ELSE None, out) /\ Receiver("client", got)
      /\ Stored("client") /\ (got => Acked("client", m.ack)) => Stored("client")'
      /\ NoFlush => NoFlush'
      /\ Len(Queue("server"))' = IF got THEN Len(Queue("server")) - 1 ELSE Len(Queue("server"))
      /\ got => Queue("server")[1] = m
      /\ \A i \in 1 .. (Len(Queue("server")) - 1) : got => Queue("server")'[i] = Queue("server")[i + 1]
  BY <1>0, <1>1, EndKeeps
<1>5. Len(Queue("server")) \in Nat /\ l \in Nat /\ l \in 1 .. Len(Queue("server"))'
  BY <1>0, <1>1, <1>2, <1>4, Queues
<1>6. got => m.re # flushId /\ Acked("client", m.ack)
  <2>1. got => 1 \in 1 .. (k - 1)
    BY <1>2, <1>5
  <2> QED
    BY <1>2, <1>4, <2>1
<1>7. flushId' = flushId /\ flushId' \in responseChannels'["client"]
  BY <1>0, <1>3, <1>6 DEF EndStep, Flushes
<1>8. UNCHANGED <<conn, link, attached, flushDue>>
  BY DEF EndStep
<1>9. Waits'
  BY <1>1, <1>2, <1>4, <1>7, <1>8, WaitsOn
<1>10. ~ got => Queue("server")' = Queue("server")
  BY <1>1, <1>4 DEF Receiver
<1>11. /\ Queue("server")'[l] = Queue("server")[k]
       /\ \A i \in 1 .. (l - 1) : \E j \in 1 .. (k - 1) : Queue("server")'[i] = Queue("server")[j]
  <2>1. CASE got
    <3>1. l = k - 1 /\ l \in 1 .. (Len(Queue("server")) - 1) /\ l + 1 = k
      BY <1>0, <1>2, <1>4, <1>5, <2>1
    <3>2. Queue("server")'[l] = Queue("server")[k]
      BY <1>4, <2>1, <3>1
    <3>3. ASSUME NEW i \in 1 .. (l - 1) PROVE \E j \in 1 .. (k - 1) : Queue("server")'[i] = Queue("server")[j]
      <4>1. i \in 1 .. (Len(Queue("server")) - 1) /\ i + 1 \in 1 .. (k - 1)
        BY <1>5, <3>1
      <4> QED
        BY <1>4, <2>1, <4>1
    <3> QED
      BY <3>2, <3>3
  <2>2. CASE ~ got
    BY <1>0, <1>10, <2>2
  <2> QED
    BY <2>1, <2>2
<1>12. Settled("server")'
  BY <1>1, <1>2, <1>4, ReceiverKeeps
<1>13. Stored("client")'
  BY <1>2, <1>4, <1>6
<1>14. \A i \in 1 .. (l - 1) : /\ Queue("server")'[i].re # flushId'
                               /\ Acked("client", Queue("server")[i].ack)'
  <2> SUFFICES ASSUME NEW i \in 1 .. (l - 1)
               PROVE  Queue("server")'[i].re # flushId' /\ Acked("client", Queue("server")[i].ack)'
    OBVIOUS
  <2>1. PICK j \in 1 .. (k - 1) : Queue("server")'[i] = Queue("server")[j]
    BY <1>11
  <2>2. PICK a : a = Queue("server")[j].ack
    OBVIOUS
  <2>3. Acked("client", a)
    BY <1>2, <2>2
  <2>4. Acked("client", a)'
    BY <1>1, <1>4, <2>3, SenderKeeps
  <2> QED
    BY <1>2, <1>7, <2>1, <2>2, <2>4 DEF Acked
<1>15. Replying(l)'
  BY <1>2, <1>4, <1>5, <1>7, <1>8, <1>9, <1>11, <1>12, <1>13, <1>14 DEF Replying
<1> QED
  BY <1>0, <1>15

\* ... and, answered, sends again all that it has in its buffer.
LEMMA ReplyingAnswered ==
    ASSUME Inv, TypeOK', \A d \in End : Basics(d), NEW buf, NEW out,
           EndStep("client", TRUE, buf, out), Grows("client"), Replying(1), Ready'
    PROVE  Over'
<1>0. PICK m : m = Head(incoming["client"])
  OBVIOUS
<1>1. /\ TypeOK /\ "client" \in End /\ "server" \in End /\ \A d \in End : d \in {"client", "server"}
      /\ Peer("client") = "server" /\ Peer("server") = "client"
  BY Kinds DEF Inv, Peer, End
<1>2. /\ Waits /\ attached = 2
      /\ Queue("server")[1].kind = "Ack" /\ Queue("server")[1].re = flushId
      /\ Queue("server")[1].ack = None
      /\ Settled("server") /\ Stored("client") /\ NoFlush
  BY DEF Replying
<1>3. conn = 2 /\ link = "up" /\ ~ flushDue /\ flushId \in responseChannels["client"] /\ Ready
  BY <1>2 DEF Waits
<1>4. /\ Sender("client", m.ack, out) /\ Receiver("client", TRUE)
      /\ NoFlush => NoFlush' /\ Queue("server")[1] = m
  BY <1>0, <1>1, EndKeeps
<1>5. flushId' = None /\ out = buf
  BY <1>0, <1>2, <1>3, <1>4 DEF EndStep, Flushes
<1>6. UNCHANGED <<conn, link, attached, flushDue>>
  BY DEF EndStep
<1>7. Settled("server")'
  BY <1>1, <1>2, <1>4, ReceiverKeeps
<1>8. Range(buf) = Range(buffer["client"]) /\ buf \in Seq(Envelope)
  <2>1. /\ buf \in Seq(Envelope) /\ Range(buf) \subseteq Range(buffer["client"])
        /\ \A b \in Range(buffer["client"]) \ Range(buf) : Covers(m.ack, b.id)
    BY <1>0 DEF EndStep, Keeps
  <2>2. m.ack = None
    BY <1>2, <1>4
  <2> QED
    BY <2>1, <2>2 DEF Covers
<1>9. IdsOf(buffer["client"]) \subseteq Flying(out)
  <2> SUFFICES ASSUME NEW i \in DOMAIN buffer["client"] PROVE buffer["client"][i].id \in Flying(out)
    BY DEF IdsOf
  <2>1. buffer["client"][i] \in Range(buffer["client"])
    BY DEF Range
  <2>2. PICK j \in DOMAIN buf : buf[j] = buffer["client"][i]
    BY <1>8, <2>1 DEF Range
  <2>3. buf[j].kind \notin ControlKind
    BY <1>1, <2>1, <2>2 DEF Basics
  <2> QED
    BY <1>5, <2>2, <2>3 DEF Flying
<1>10. Settled("client")'
  <2>1. /\ out \in Seq(Envelope) /\ Queue("client")' = Queue("client") \o out
        /\ \A x \in SentIds("client")' : x \in SentIds("client") \/ x \in Flying(out)
        /\ Received("server")' = Received("server")
    BY <1>1, <1>3, <1>4 DEF Sender
  <2>2. Flying(out) \subseteq Flying(Queue("client"))'
    <3>1. Queue("client") \in Seq(Envelope)
      BY <1>1, Queues
    <3>2. Flying(Queue("client") \o out) = Flying(Queue("client")) \union Flying(out)
      BY <2>1, <3>1, FlyingStays
    <3> QED
      BY <2>1, <3>2 DEF Flying
  <2>3. ASSUME NEW x \in SentIds("client") PROVE x \in Received("server") \union Flying(out)
    <3>1. x = 0 \/ x \in Received("server") \/ x \in IdsOf(buffer["client"])
      BY <1>1, <1>2, <2>3 DEF Stored
    <3>2. x = 0 => x \in Received("server")
      BY <1>1, <1>3, <2>3 DEF Basics
    <3> QED
      BY <1>9, <3>1, <3>2
  <2> QED
    BY <1>1, <2>1, <2>2, <2>3 DEF Settled, Flying
<1> QED
  BY <1>1, <1>2, <1>3, <1>4, <1>5, <1>6, <1>7, <1>10 DEF Over

\* The connection carries the answer.
LEMMA ReplyingRests ==
    ASSUME Inv, NEW k \in Nat, Replying(k), MaxConnections <= 2,
           (\E e \in End : Transmit(e)) \/ Still \/ Cut \/ LoseOutgoing \/ Detach \/ Accept
            \/ Reconnect \/ Resync \/ ResyncTimeout
    PROVE  Replying(k)'
<1>1. /\ TypeOK /\ "client" \in End /\ "server" \in End /\ \A d \in End : d \in {"client", "server"}
      /\ Peer("client") = "server" /\ Peer("server") = "client"
  BY Kinds DEF Inv, Peer, End
<1>2. /\ Waits /\ attached = 2
      /\ k \in 1 .. Len(Queue("server"))
      /\ Queue("server")[k].kind = "Ack" /\ Queue("server")[k].re = flushId
      /\ Queue("server")[k].ack = None
      /\ Settled("server") /\ Stored("client")
      /\ \A i \in 1 .. (k - 1) : /\ Queue("server")[i].re # flushId
                                 /\ Acked("client", Queue("server")[i].ack)
      /\ NoFlush
  BY DEF Replying
<1>3. /\ conn = 2 /\ link = "up" /\ ~ flushDue /\ Ready
      /\ flushId \in responseChannels["client"] /\ flushId \notin SentIds("client")
      /\ flushId # 0 /\ flushId < nextId["client"]
  BY <1>2 DEF Waits
<1>4. ~ Cut /\ ~ Reconnect /\ ~ Resync /\ ~ ResyncTimeout
  BY <1>3, LastConnection
<1>5. ~ LoseOutgoing /\ ~ Detach /\ ~ Accept
  BY <1>2, <1>3 DEF LoseOutgoing, Detach, Accept, Attached
<1>6. Rests /\ Queue("server")' = Queue("server") /\ UNCHANGED <<conn, link, attached, flushDue, flushId>>
  <2>1. CASE Still
    BY <2>1 DEF Still, Queue
  <2>2. CASE \E e \in End : Transmit(e)
    BY <1>1, <2>2, TransmitRests
  <2> QED
    BY <1>4, <1>5, <2>1, <2>2
<1>7. /\ responseChannels' = responseChannels /\ nextId' = nextId
      /\ \A d \in End : Transit(d)' \subseteq Transit(d)
  BY <1>6 DEF Rests
<1>8. /\ SentIds("client")' = SentIds("client") /\ Ready' = Ready
      /\ Stored("client")' /\ Settled("server")'
      /\ \A a : Acked("client", a) => Acked("client", a)'
  BY <1>1, <1>2, <1>6, RestsKeeps
<1>9. Waits'
  BY <1>3, <1>6, <1>7, <1>8 DEF Waits
<1>10. NoFlush'
  BY <1>1, <1>2, <1>7 DEF NoFlush
<1>11. \A i \in 1 .. (k - 1) : /\ Queue("server")'[i].re # flushId'
                               /\ Acked("client", Queue("server")[i].ack)'
  <2> SUFFICES ASSUME NEW i \in 1 .. (k - 1)
               PROVE  Queue("server")'[i].re # flushId' /\ Acked("client", Queue("server")[i].ack)'
    OBVIOUS
  <2>1. PICK a : a = Queue("server")[i].ack
    OBVIOUS
  <2>2. Acked("client", a)'
    BY <1>2, <1>8, <2>1
  <2> QED
    BY <1>2, <1>6, <2>1, <2>2 DEF Acked
<1> QED
  BY <1>2, <1>6, <1>8, <1>9, <1>10, <1>11 DEF Replying

\* With everything on its way again, nothing takes it away.
LEMMA OverEnd ==
    ASSUME Inv, TypeOK', \A d \in End : Basics(d), NEW e \in End, NEW got \in BOOLEAN, NEW buf, NEW out,
           EndStep(e, got, buf, out), Grows(e), Over, Ready'
    PROVE  Over'
<1>1. /\ TypeOK /\ Peer(e) \in End /\ Peer(Peer(e)) = e /\ \A d \in End : d = e \/ d = Peer(e)
  BY Kinds DEF Inv, Peer, End
<1>2. /\ conn = 2 /\ link = "up" /\ attached = 2 /\ ~ flushDue /\ flushId = None
      /\ \A d \in End : Settled(d)
      /\ NoFlush
  BY DEF Over
<1>3. /\ Sender(e, IF got THEN Head(incoming[e]).ack ELSE None, out) /\ Receiver(e, got)
      /\ NoFlush => NoFlush'
  BY <1>1, EndKeeps
<1>4. Settled(e)'
  BY <1>2, <1>3, SenderKeeps
<1>5. Settled(Peer(e))'
  BY <1>1, <1>2, <1>3, ReceiverKeeps
<1>6. flushId' = None /\ UNCHANGED <<conn, link, attached, flushDue>>
  BY <1>2 DEF EndStep, Flushes
<1> QED
  BY <1>1, <1>2, <1>3, <1>4, <1>5, <1>6 DEF Over

\* Neither does the connection.
LEMMA OverRests ==
    ASSUME Inv, Over, MaxConnections <= 2,
           (\E e \in End : Transmit(e)) \/ Still \/ Cut \/ LoseOutgoing \/ Detach \/ Accept
            \/ Reconnect \/ Resync \/ ResyncTimeout
    PROVE  Over'
<1>1. TypeOK /\ "client" \in End
  BY Kinds DEF Inv
<1>2. /\ conn = 2 /\ link = "up" /\ attached = 2 /\ ~ flushDue /\ flushId = None /\ Ready
      /\ \A d \in End : Settled(d)
      /\ NoFlush
  BY DEF Over
<1>3. ~ Cut /\ ~ Reconnect /\ ~ Resync /\ ~ ResyncTimeout
  BY <1>2, LastConnection
<1>4. ~ LoseOutgoing /\ ~ Detach /\ ~ Accept
  BY <1>2 DEF LoseOutgoing, Detach, Accept, Attached
<1>5. /\ Rests /\ (\A d \in End : Queue(d)' = Queue(d))
      /\ UNCHANGED <<conn, link, attached, flushDue, flushId>>
  <2>1. CASE Still
    BY <2>1 DEF Still, Queue
  <2>2. CASE \E e \in End : Transmit(e)
    BY <1>1, <2>2, TransmitRests
  <2> QED
    BY <1>3, <1>4, <2>1, <2>2
<1>6. Ready' /\ \A d \in End : Settled(d)'
  BY <1>1, <1>2, <1>5, RestsKeeps
<1>7. NoFlush'
  BY <1>1, <1>2, <1>5 DEF NoFlush, Rests
<1> QED
  BY <1>2, <1>5, <1>6, <1>7 DEF Over

\* At first nothing was sent.
LEMMA NothingIsLostInit == Init => NothingIsLost
<1> SUFFICES ASSUME Init PROVE NothingIsLost
  OBVIOUS
<1>1. /\ Inv /\ conn = 1 /\ link = "up" /\ attached = 0 /\ ~ flushDue /\ flushId = None
      /\ responseChannels["client"] = {} /\ answers["client"] = <<>> /\ "client" \in End
      /\ \A e \in End : /\ sent[e] = <<>> /\ received[e] = <<>> /\ sending[e] = {} /\ maxReceived[e] = 0
                        /\ outgoing[e] = <<>> /\ incoming[e] = <<>> /\ buffer[e] = <<>>
                        /\ Peer(e) \in End
  BY InvInit, Kinds DEF Init
<1>2. Range(<<>>) = {} /\ DOMAIN <<>> = {} /\ Len(<<>>) = 0
  BY DEF Range
<1>3. ~ Ready
  BY <1>1 DEF Ready
<1>4. ASSUME NEW e \in End
      PROVE  /\ SentIds(e) = {} /\ Received(e) = {} /\ Received(Peer(e)) = {} /\ Transit(e) = {}
             /\ Sent(e) = {} /\ Range(buffer[e]) = {} /\ Len(Queue(e)) = 0
  <2>1. SentIds(e) = {} /\ Received(e) = {} /\ Received(Peer(e)) = {} /\ Sent(e) = {}
    BY <1>1, <1>2 DEF SentIds, IdsOf, Received, Sent
  <2>2. Transit(e) = {} /\ Range(buffer[e]) = {}
    BY <1>1, <1>2 DEF Transit
  <2>3. <<>> \o <<>> = <<>>
    BY ConcatEmptySeq, EmptySeq
  <2>4. Queue(e) = <<>>
    BY <1>1, <2>3 DEF Queue
  <2> QED
    BY <1>2, <2>1, <2>2, <2>4
<1>5. \A e \in End : Basics(e)
  BY <1>1, <1>3, <1>4 DEF Basics
<1>6. PingedFirst
  BY <1>1, <1>4 DEF PingedFirst
<1>7. ASSUME NEW e \in End PROVE Settled(e) /\ Stored(e) /\ AllAcked(e) /\ Ordered(e, Len(Queue(e)))
  <2>1. Settled(e) /\ Stored(e)
    BY <1>4, <1>7 DEF Settled, Stored
  <2>2. \A d \in End : Acked(d, 0)
    BY DEF Acked, Good
  <2>3. AllAcked(e)
    <3>1. maxReceived[e] = 0 /\ Transit(e) = {} /\ Peer(e) \in End
      BY <1>1, <1>4, <1>7
    <3> QED
      BY <2>2, <3>1 DEF AllAcked
  <2>4. Ordered(e, Len(Queue(e)))
    BY <1>4, <1>7 DEF Ordered, InOrder
  <2> QED
    BY <2>1, <2>3, <2>4
<1>8. First
  <2>1. NoFlush
    BY <1>1, <1>4 DEF NoFlush
  <2> QED
    BY <1>1, <1>7, <2>1 DEF First
<1> QED
  BY <1>1, <1>3, <1>5, <1>6, <1>8 DEF NothingIsLost, Phases

\* An end's step, in every phase.
LEMMA PhasesEnd ==
    ASSUME Inv, TypeOK', \A d \in End : Basics(d) /\ Basics(d)', NEW e \in End, NEW got \in BOOLEAN,
           NEW buf, NEW out, EndStep(e, got, buf, out), Grows(e), Phases, Ready => Ready' /\ Pinged,
           e = "client" /\ flushDue => ~ Pinged
    PROVE  Phases'
<1>1. e = "client" \/ e = "server"
  BY DEF End
<1>2. CASE First
  BY <1>2, FirstEnd DEF Phases
<1>3. CASE Broken
  <2>1. Ready'
    BY <1>3 DEF Broken
  <2> QED
    BY <1>3, <2>1, BrokenEnd DEF Phases
<1>4. CASE Again
  <2>1. Ready' /\ e # "client"
    BY <1>4 DEF Again
  <2> QED
    BY <1>4, <2>1, AgainEnd DEF Phases
<1>5. CASE Over
  <2>1. Ready'
    BY <1>5 DEF Over
  <2> QED
    BY <1>5, <2>1, OverEnd DEF Phases
<1>6. ASSUME NEW k \in Nat, Asking(k) PROVE Phases'
  <2>1. Ready' /\ k - 1 \in Nat
    <3>1. Ready' /\ k \in 1 .. Len(Queue("client"))
      BY <1>6 DEF Asking, Waits
    <3> QED
      BY <3>1
  <2>2. CASE e = "client"
    <3>1. Asking(k)'
      BY <1>6, <2>1, <2>2, AskingClient
    <3> QED
      BY <3>1 DEF Phases
  <2>3. CASE e = "server" /\ (got => k # 1)
    <3>1. PICK l : l = IF got THEN k - 1 ELSE k
      OBVIOUS
    <3>2. Asking(l)' /\ l \in Nat
      BY <1>6, <2>1, <2>3, <3>1, AskingServer
    <3> QED
      BY <3>2 DEF Phases
  <2>4. CASE e = "server" /\ got /\ k = 1
    <3>1. got = TRUE
      BY <2>4
    <3>2. \E l \in Nat : Replying(l)'
      BY <1>6, <2>1, <2>4, <3>1, AskingAnswered
    <3> QED
      BY <3>2 DEF Phases
  <2> QED
    BY <1>1, <2>2, <2>3, <2>4
<1>7. ASSUME NEW k \in Nat, Replying(k) PROVE Phases'
  <2>1. Ready' /\ k - 1 \in Nat
    <3>1. Ready' /\ k \in 1 .. Len(Queue("server"))
      BY <1>7 DEF Replying, Waits
    <3> QED
      BY <3>1
  <2>2. CASE e = "server"
    <3>1. Replying(k)'
      BY <1>7, <2>1, <2>2, ReplyingServer
    <3> QED
      BY <3>1 DEF Phases
  <2>3. CASE e = "client" /\ (got => k # 1)
    <3>1. PICK l : l = IF got THEN k - 1 ELSE k
      OBVIOUS
    <3>2. Replying(l)' /\ l \in Nat
      BY <1>7, <2>1, <2>3, <3>1, ReplyingClient
    <3> QED
      BY <3>2 DEF Phases
  <2>4. CASE e = "client" /\ got /\ k = 1
    <3>1. got = TRUE
      BY <2>4
    <3>2. Over'
      BY <1>7, <2>1, <2>4, <3>1, ReplyingAnswered
    <3> QED
      BY <3>2 DEF Phases
  <2> QED
    BY <1>1, <2>2, <2>3, <2>4
<1> QED
  BY <1>2, <1>3, <1>4, <1>5, <1>6, <1>7 DEF Phases

\* A step of the connection, in every phase.
LEMMA PhasesRests ==
    ASSUME Inv, \A d \in End : Basics(d), Phases, MaxConnections <= 2,
           (\E e \in End : Transmit(e)) \/ Still \/ Cut \/ LoseOutgoing \/ Detach \/ Accept
            \/ Reconnect \/ Resync \/ ResyncTimeout
    PROVE  Phases'
<1>1. CASE First
  BY <1>1, FirstRests DEF Phases
<1>2. CASE Broken
  BY <1>2, BrokenRests DEF Phases
<1>3. CASE Again
  BY <1>3, AgainRests DEF Phases
<1>4. CASE Over
  BY <1>4, OverRests DEF Phases
<1>5. ASSUME NEW k \in Nat, Asking(k) PROVE Phases'
  BY <1>5, AskingRests DEF Phases
<1>6. ASSUME NEW k \in Nat, Replying(k) PROVE Phases'
  BY <1>6, ReplyingRests DEF Phases
<1> QED
  BY <1>1, <1>2, <1>3, <1>4, <1>5, <1>6 DEF Phases

\* What an end takes comes in order, until the connection is cut and the editor is ready.
LEMMA FirstOrReady ==
    ASSUME Inv, Phases, NEW e \in End, NEW got \in BOOLEAN, NEW buf, NEW out, EndStep(e, got, buf, out)
    PROVE  /\ got => Ready \/ \E n \in 1 .. Len(Queue(Peer(e))) : Ordered(Peer(e), n)
           /\ Ready \/ responseChannels["client"] \subseteq SentIds("client")
<1>1. CASE ~ First
  BY <1>1 DEF Phases, Broken, Again, Asking, Replying, Waits, Over
<1>2. CASE First
  <2>1. Peer(e) \in End /\ Peer(Peer(e)) = e /\ TypeOK
    BY Kinds DEF Inv
  <2>2. got => Len(Queue(Peer(e))) \in 1 .. Len(Queue(Peer(e)))
    <3>1. ASSUME got PROVE Len(Queue(Peer(e))) \in Nat /\ Len(Queue(Peer(e))) >= 1
      <4>1. PICK s : s = incoming[e]
        OBVIOUS
      <4>2. s # <<>> /\ s \in Seq(Envelope)
        BY <2>1, <3>1, <4>1, Values DEF EndStep, Gets
      <4>3. Len(s) \in Nat /\ Len(s) > 0
        BY <4>2, LenProperties, EmptySeq
      <4>4. Len(s) <= Len(Queue(Peer(e))) /\ Len(Queue(Peer(e))) \in Nat
        BY <2>1, <4>1, Queues
      <4> QED
        BY <4>3, <4>4
    <3> QED
      BY <3>1
  <2> QED
    BY <1>2, <2>1, <2>2 DEF First
<1> QED
  BY <1>1, <1>2

\* Every step keeps it, while no more than one cut is made.
LEMMA NothingIsLostStep ==
    ASSUME NoThreads, MaxConnections <= 2, NothingIsLost, [Next]_vars
    PROVE  NothingIsLost'
<1>1. /\ Inv /\ (\A d \in End : Basics(d)) /\ (Ready => Pinged) /\ PingedFirst /\ Phases
  BY DEF NothingIsLost
<1>2. Inv' /\ TypeOK' /\ TypeOK
  BY <1>1, InvStep DEF Inv
<1>3. Proper /\ \A d \in End : Grows(d) /\ sending[d] = {}
  <2>1. Proper
    BY <1>1, EveryStepIsProper DEF Inv
  <2> QED
    BY <1>1, <2>1 DEF Proper, Basics
<1>4. Ready => Ready'
  BY <1>1, <1>2, <1>3, ReadyStays
<1>5. \/ \E e \in End : Moves(e) /\ (e = "client" /\ flushDue => ~ Pinged)
      \/ \E e \in End : Transmit(e)
      \/ Still \/ Cut \/ LoseOutgoing \/ Detach \/ Accept \/ Reconnect \/ Resync \/ ResyncTimeout
  BY <1>1, <1>3, StepsApart
<1>6. PingedFirst' /\ (Pinged => Pinged')
  <2>1. CASE Next
    BY <1>1, <1>3, <2>1, PingComesFirst
  <2>2. CASE UNCHANGED vars
    BY <1>1, <2>2 DEF PingedFirst, Pinged, Sent, vars
  <2> QED
    BY <2>1, <2>2
<1>7. ASSUME NEW e \in End, Moves(e), e = "client" /\ flushDue => ~ Pinged
      PROVE  NothingIsLost'
  <2>1. PICK got \in BOOLEAN : \E buf, out : EndStep(e, got, buf, out)
    BY <1>7 DEF Moves
  <2>2. PICK buf, out : EndStep(e, got, buf, out)
    BY <2>1
  <2>3. /\ got => Ready \/ \E n \in 1 .. Len(Queue(Peer(e))) : Ordered(Peer(e), n)
        /\ Ready \/ responseChannels["client"] \subseteq SentIds("client")
    BY <1>1, <2>2, FirstOrReady
  <2>4. \A d \in End : Basics(d)'
    BY <1>1, <1>2, <1>3, <2>2, <2>3, BasicsEnd
  <2>5. Ready' => Pinged'
    <3>1. CASE Ready
      BY <1>1, <1>6, <3>1
    <3>2. CASE ~ Ready /\ Ready'
      <4>1. \E x \in Sent("client") : x.kind \in Asked
        BY <1>1, <1>3, <2>2, <2>3, <3>2, FirstAnswer, Kinds
      <4> QED
        BY <1>1, <1>6, <4>1 DEF PingedFirst
    <3> QED
      BY <3>1, <3>2
  <2>6. Phases'
    BY <1>1, <1>2, <1>3, <1>4, <1>7, <2>2, <2>4, PhasesEnd
  <2> QED
    BY <1>2, <1>6, <2>4, <2>5, <2>6 DEF NothingIsLost
<1>8. CASE (\E e \in End : Transmit(e)) \/ Still \/ Cut \/ LoseOutgoing \/ Detach \/ Accept
            \/ Reconnect \/ Resync \/ ResyncTimeout
  <2>1. Phases'
    BY <1>1, <1>8, PhasesRests
  <2>2. (\A d \in End : Basics(d)') /\ Ready' = Ready
    <3>1. CASE Resync
      <4>1. PICK fl \in Envelope : Ready' = Ready /\ \A d \in End : Basics(d)'
        BY <1>1, <3>1, ResyncMeans
      <4> QED
        BY <4>1
    <3>2. CASE ~ Resync
      <4>1. Rests
        BY <1>2, <1>8, <3>2, TransmitRests, ConnectionRests DEF Still
      <4> QED
        BY <1>1, <1>2, <4>1, RestsKeeps
    <3> QED
      BY <3>1, <3>2
  <2> QED
    BY <1>1, <1>2, <1>6, <2>1, <2>2 DEF NothingIsLost
<1> QED
  BY <1>5, <1>7, <1>8

\* It says what is promised.
LEMMA NothingIsLostMeans == NothingIsLost => NothingLost
<1> SUFFICES ASSUME NothingIsLost, NEW e \in End, NEW x \in IdsOf(sent[e])
             PROVE  x \in Received(Peer(e)) \union IdsOf(buffer[e]) \union InFlight(e)
  BY DEF NothingLost
<1>1. Inv /\ (\A d \in End : Basics(d)) /\ Phases /\ TypeOK /\ Peer(e) \in End /\ Peer(Peer(e)) = e
  BY Kinds DEF NothingIsLost, Inv
<1>2. x \in SentIds(e)
  BY DEF SentIds
<1>3. Flying(Queue(e)) \subseteq InFlight(e)
  <2>1. PICK s, t : s = incoming[Peer(e)] /\ t = outgoing[e]
    OBVIOUS
  <2>2. s \in Seq(Envelope) /\ t \in Seq(Envelope)
    BY <1>1, <2>1, Values
  <2>3. Flying(s \o t) = Flying(s) \union Flying(t) /\ Flying(t \o s) = Flying(t) \union Flying(s)
    BY <2>2, FlyingStays
  <2>4. Flying(t \o s) \subseteq InFlight(e)
    BY <2>1 DEF Flying, InFlight
  <2> QED
    BY <2>1, <2>3, <2>4 DEF Queue
<1>4. CASE Settled(e)
  BY <1>2, <1>3, <1>4 DEF Settled
<1>5. CASE Stored(e) /\ Ready
  <2>1. x = 0 => x \in Received(Peer(e))
    <3>1. Received(Peer(e)) # {}
      BY <1>1, <1>5 DEF Basics
    <3> QED
      BY <1>1, <1>2, <3>1 DEF Basics
  <2> QED
    BY <1>2, <1>5, <2>1 DEF Stored
<1>6. Settled(e) \/ (Stored(e) /\ Ready)
  <2>1. CASE First \/ Over
    BY <2>1 DEF First, Over
  <2>2. CASE Broken \/ Again \/ \E k \in Nat : Asking(k)
    BY <2>2 DEF Broken, Again, Asking, Waits
  <2>3. CASE \E k \in Nat : Replying(k)
    BY <2>3 DEF Replying, Waits, End
  <2> QED
    BY <1>1, <2>1, <2>2, <2>3 DEF Phases
<1> QED
  BY <1>4, <1>5, <1>6

\* Over one cut and the resync after it, nothing that was given to send_buffered is
\* lost, whatever is sent from the foreground.
THEOREM NothingLostOverOneCut ==
    ASSUME Background = [e \in End |-> 0], MaxConnections <= 2
    PROVE  Spec => []NothingLost
<1>0. NoThreads /\ MaxConnections <= 2
  BY DEF NoThreads
<1>1. Init => NothingIsLost
  BY NothingIsLostInit
<1>2. NothingIsLost /\ [Next]_vars => NothingIsLost'
  BY <1>0, NothingIsLostStep
<1>3. NothingIsLost => NothingLost
  BY NothingIsLostMeans
<1> QED
  BY <1>1, <1>2, <1>3, PTL DEF Spec

-----------------------------------------------------------------------------
(* Streams are whole while the connection holds *)

\* The items for request r among the first n of a sequence.
Items(s, n, r) == {s[i].item : i \in {i \in 1 .. n : s[i].re = r /\ s[i].kind = "Item"}}

\* The item for request r that an envelope has, if it has one.
ItemFor(m, r) == IF m.re = r /\ m.kind = "Item" THEN {m.item} ELSE {}

\* Reply j comes after all the items it should, those in got or ahead of it.
Whole(s, j, got) ==
    /\ s[j].kind = "Item" => got \union Items(s, j - 1, s[j].re) = 1 .. (s[j].item - 1)
    /\ s[j].kind = "EndStream" => got \union Items(s, j - 1, s[j].re) = 1 .. StreamLength

\* The answers a that an end has got, the replies q on their way to it and the handlers R
\* at the other end continue each other, for the streams c that it waits for.
Streaming(a, c, q, R) ==
    /\ \A j \in DOMAIN a : Whole(a, j, {})
    /\ \A j \in DOMAIN q : q[j].re \in c => Whole(q, j, Items(a, Len(a), q[j].re))
    /\ \A h \in R : h.kind = "Stream" /\ h.re \in c =>
         Items(a, Len(a), h.re) \union Items(q, Len(q), h.re) = 1 .. h.item
    /\ \A g, h \in R : g.kind = "Stream" /\ h.kind = "Stream" /\ g.re = h.re => g = h

\* An id is in the queue q, drawn for one of the sends S, or received: one of the three.
Fresh(q, S, R, n) ==
    /\ \A i \in DOMAIN q : q[i].kind # "Flush" /\ (q[i].kind \notin ControlKind => q[i].id \notin R)
    /\ \A i, j \in DOMAIN q :
        i < j /\ q[i].kind \notin ControlKind /\ q[j].kind \notin ControlKind => q[i].id # q[j].id
    /\ \A s \in S : /\ s.env.id \notin R
                    /\ \A i \in DOMAIN q : q[i].kind \notin ControlKind => q[i].id # s.env.id
    /\ \A s, t \in S : s.env.id = t.env.id => s = t
    /\ \A x \in R : x < n

\* The streams that end e consumes, the ids it draws, and the time up to the first cut.
Streams(e) == Streaming(answers[e], streamChannels[e], Queue(Peer(e)), running[Peer(e)])
Singles(e) == Fresh(Queue(e), sending[e], Received(Peer(e)), nextId[e])
Connected == conn = 1 /\ attached \in {0, 1} /\ link = "up" /\ ~ flushDue /\ flushId = None
StreamsHold ==
    /\ Inv /\ conn > 0
    /\ conn = 1 /\ link = "up" => Connected /\ \A e \in End : Streams(e) /\ Singles(e)

\* One more at the end of a sequence.
LEMMA ItemsStay ==
    ASSUME NEW S, NEW q \in Seq(S), NEW m \in S, NEW r, NEW n \in 0 .. Len(q)
    PROVE  Items(Append(q, m), n, r) = Items(q, n, r)
<1>1. PICK t : t = Append(q, m)
  OBVIOUS
<1>2. \A i \in 1 .. Len(q) : t[i] = q[i]
  BY <1>1, AppendProperties
<1>3. \A i \in 1 .. n : t[i] = q[i]
  BY <1>2, LenProperties
<1>4. Items(t, n, r) = Items(q, n, r)
  BY <1>3 DEF Items
<1> QED
  BY <1>1, <1>4

\* It adds one item at most.
LEMMA ItemsBehind ==
    ASSUME NEW S, NEW q \in Seq(S), NEW m \in S, NEW r
    PROVE  LET t == Append(q, m)
               mine == ItemFor(m, r) IN
           /\ Len(q) \in Nat /\ DOMAIN q = 1 .. Len(q)
           /\ t \in Seq(S) /\ Len(t) = Len(q) + 1 /\ DOMAIN t = 1 .. (Len(q) + 1)
           /\ (\A i \in 1 .. Len(q) : t[i] = q[i]) /\ t[Len(q) + 1] = m
           /\ Items(t, Len(t), r) = Items(q, Len(q), r) \union mine
<1>0. PICK mine : mine = ItemFor(m, r)
  OBVIOUS
<1>1. PICK t : t = Append(q, m)
  OBVIOUS
<1>2. PICK k : k = Len(q)
  OBVIOUS
<1>3. /\ k \in Nat /\ DOMAIN q = 1 .. k
      /\ t \in Seq(S) /\ Len(t) = k + 1 /\ DOMAIN t = 1 .. (k + 1)
      /\ (\A i \in 1 .. k : t[i] = q[i]) /\ t[k + 1] = m
  <2>1. /\ t \in Seq(S) /\ Len(t) = Len(q) + 1 /\ \A i \in 1 .. Len(q) : t[i] = q[i]
        /\ t[Len(q) + 1] = m
    BY <1>1, AppendProperties
  <2> QED
    BY <1>2, <2>1, LenProperties
<1>4. \A n \in 0 .. k : Items(t, n, r) = Items(q, n, r)
  BY <1>1, <1>2, ItemsStay
<1>5. Items(t, k + 1, r) = Items(t, k, r) \union mine
  <2>1. Items(t, k, r) \subseteq Items(t, k + 1, r)
    BY <1>3 DEF Items
  <2>2. mine \subseteq Items(t, k + 1, r)
    <3>1. k + 1 \in 1 .. (k + 1)
      BY <1>3
    <3> QED
      BY <1>0, <1>3, <3>1 DEF Items, ItemFor
  <2>3. ASSUME NEW i \in 1 .. (k + 1), t[i].re = r, t[i].kind = "Item"
        PROVE  t[i].item \in Items(t, k, r) \union mine
    <3>1. CASE i \in 1 .. k
      BY <2>3, <3>1 DEF Items
    <3>2. CASE i = k + 1
      BY <1>0, <1>3, <2>3, <3>2 DEF ItemFor
    <3> QED
      BY <1>3, <3>1, <3>2
  <2>4. Items(t, k + 1, r) \subseteq Items(t, k, r) \union mine
    <3> QED
      BY <2>3 DEF Items
  <2> QED
    BY <2>1, <2>2, <2>4
<1>6. k \in 0 .. k
  BY <1>3
<1>7. Items(t, k, r) = Items(q, k, r)
  BY <1>4, <1>6
<1>8. Items(t, Len(t), r) = Items(q, Len(q), r) \union mine
  BY <1>2, <1>3, <1>5, <1>7
<1> QED
  BY <1>0, <1>1, <1>2, <1>3, <1>8

\* The first of a sequence, and the others.
LEMMA ItemsAfter ==
    ASSUME NEW S, NEW q \in Seq(S), q # <<>>
    PROVE  LET m == Head(q)
               t == Tail(q) IN
           /\ Len(t) \in Nat /\ Len(q) = Len(t) + 1 /\ DOMAIN q = 1 .. (Len(t) + 1)
           /\ t \in Seq(S) /\ m \in S /\ DOMAIN t = 1 .. Len(t)
           /\ (\A i \in 1 .. Len(t) : t[i] = q[i + 1]) /\ q[1] = m
<1>1. PICK t : t = Tail(q)
  OBVIOUS
<1>2. PICK m : m = Head(q)
  OBVIOUS
<1>3. PICK k : k = Len(t)
  OBVIOUS
<1>4. /\ k \in Nat /\ Len(q) = k + 1 /\ DOMAIN q = 1 .. (k + 1)
      /\ t \in Seq(S) /\ m \in S /\ DOMAIN t = 1 .. k
      /\ (\A i \in 1 .. k : t[i] = q[i + 1]) /\ q[1] = m
  <2>1. /\ m \in S /\ t \in Seq(S) /\ Len(t) = Len(q) - 1
        /\ \A i \in 1 .. Len(t) : t[i] = q[i + 1]
    BY <1>1, <1>2, HeadTailProperties
  <2>2. Len(q) \in Nat /\ DOMAIN q = 1 .. Len(q) /\ Head(q) = q[1]
    BY LenProperties
  <2>3. Len(t) \in Nat /\ DOMAIN t = 1 .. Len(t)
    BY <2>1, LenProperties
  <2> QED
    BY <1>2, <1>3, <2>1, <2>2, <2>3
<1> QED
  BY <1>1, <1>2, <1>3, <1>4

\* A reply is said that continues the stream it is for, or is for none.
LEMMA StreamingSays ==
    ASSUME NEW S, NEW a, NEW c, NEW q \in Seq(S), NEW R, Streaming(a, c, q, R),
           NEW m \in S, NEW d \in SUBSET c, NEW T,
           m.re \in d =>
            LET so == Items(a, Len(a), m.re) \union Items(q, Len(q), m.re) IN
            /\ m.kind = "Item" => so = 1 .. (m.item - 1)
            /\ m.kind = "EndStream" => so = 1 .. StreamLength,
           \A h \in T : h.kind = "Stream" /\ h.re \in d =>
            Items(a, Len(a), h.re) \union
                (Items(q, Len(q), h.re) \union
                    ItemFor(m, h.re)) = 1 .. h.item,
           \A g, h \in T : g.kind = "Stream" /\ h.kind = "Stream" /\ g.re = h.re => g = h
    PROVE  Streaming(a, d, Append(q, m), T)
<1>1. PICK t : t = Append(q, m)
  OBVIOUS
<1>2. PICK k : k = Len(q)
  OBVIOUS
<1>3. /\ k \in Nat /\ DOMAIN q = 1 .. k /\ DOMAIN t = 1 .. (k + 1) /\ Len(t) = k + 1
      /\ (\A i \in 1 .. k : t[i] = q[i]) /\ t[k + 1] = m
  BY <1>1, <1>2, ItemsBehind
<1>4. \A r : \A n \in 0 .. k : Items(t, n, r) = Items(q, n, r)
  BY <1>1, <1>2, ItemsStay
<1>5. \A r : Items(t, k + 1, r) =
            Items(q, k, r) \union ItemFor(m, r)
  BY <1>1, <1>2, <1>3, ItemsBehind
<1>6. ASSUME NEW j \in 1 .. (k + 1), t[j].re \in d
      PROVE  Whole(t, j, Items(a, Len(a), t[j].re))
  <2>1. CASE j \in 1 .. k
    <3>1. j - 1 \in 0 .. k /\ t[j] = q[j] /\ j \in DOMAIN q /\ q[j].re \in c
      BY <1>3, <1>6, <2>1
    <3>2. Whole(q, j, Items(a, Len(a), q[j].re))
      BY <3>1 DEF Streaming
    <3>3. Items(t, j - 1, q[j].re) = Items(q, j - 1, q[j].re)
      BY <1>4, <3>1
    <3> QED
      BY <3>1, <3>2, <3>3 DEF Whole
  <2>2. CASE j = k + 1
    <3>1. t[j] = m /\ j - 1 = k /\ k \in 0 .. k
      BY <1>3, <2>2
    <3>2. Items(t, j - 1, m.re) = Items(q, k, m.re)
      BY <1>4, <3>1
    <3> QED
      BY <1>2, <1>6, <3>1, <3>2 DEF Whole
  <2> QED
    BY <1>3, <2>1, <2>2
<1>7. ASSUME NEW h \in T, h.kind = "Stream", h.re \in d
      PROVE  Items(a, Len(a), h.re) \union Items(t, Len(t), h.re) = 1 .. h.item
  <2>1. Items(t, Len(t), h.re) = Items(q, Len(q), h.re) \union
                    ItemFor(m, h.re)
    BY <1>2, <1>3, <1>5
  <2> QED
    BY <1>7, <2>1
<1>8. \A j \in DOMAIN a : Whole(a, j, {})
  BY DEF Streaming
<1> QED
  BY <1>1, <1>3, <1>6, <1>7, <1>8 DEF Streaming

\* The next reply is taken: it is for none of the streams, or is their next answer.
LEMMA StreamingTakes ==
    ASSUME NEW S, NEW A, NEW a \in Seq(A), NEW c, NEW q \in Seq(S), NEW R, Streaming(a, c, q, R),
           q # <<>>, NEW d \in SUBSET c, NEW b,
           \/ b = a /\ (Head(q).re \notin d \/ Head(q).kind # "Item")
           \/ \E x \in A : /\ b = Append(a, x)
                           /\ x.re = Head(q).re /\ x.kind = Head(q).kind /\ x.item = Head(q).item
                           /\ x.re \in c \/ x.kind \notin {"Item", "EndStream"}
    PROVE  Streaming(b, d, Tail(q), R)
<1>1. PICK t, m : t = Tail(q) /\ m = Head(q)
  OBVIOUS
<1>2. PICK k : k = Len(t)
  OBVIOUS
<1>3. /\ k \in Nat /\ Len(q) = k + 1 /\ DOMAIN q = 1 .. (k + 1) /\ DOMAIN t = 1 .. k
      /\ (\A i \in 1 .. k : t[i] = q[i + 1]) /\ q[1] = m
  BY <1>1, <1>2, ItemsAfter
<1>4. \A r : \A n \in 0 .. k : Items(q, n + 1, r) =
            ItemFor(m, r) \union Items(t, n, r)
  <2> SUFFICES ASSUME NEW r, NEW n \in 0 .. k
               PROVE  Items(q, n + 1, r) = ItemFor(m, r) \union Items(t, n, r)
    OBVIOUS
  <2>0. PICK mine : mine = ItemFor(m, r)
    OBVIOUS
  <2>1. Items(t, n, r) \subseteq Items(q, n + 1, r)
    <3>1. ASSUME NEW i \in 1 .. n, t[i].re = r, t[i].kind = "Item" PROVE t[i].item \in Items(q, n + 1, r)
      <4>1. i + 1 \in 1 .. (n + 1) /\ t[i] = q[i + 1]
        BY <1>3
      <4> QED
        BY <3>1, <4>1 DEF Items
    <3> QED
      BY <3>1 DEF Items
  <2>2. mine \subseteq Items(q, n + 1, r)
    <3>1. 1 \in 1 .. (n + 1)
      OBVIOUS
    <3> QED
      BY <1>3, <2>0, <3>1 DEF Items, ItemFor
  <2>3. ASSUME NEW i \in 1 .. (n + 1), q[i].re = r, q[i].kind = "Item"
        PROVE  q[i].item \in mine \union Items(t, n, r)
    <3>1. CASE i = 1
      BY <1>3, <2>0, <2>3, <3>1 DEF ItemFor
    <3>2. CASE i # 1
      <4>1. PICK j : j = i - 1
        OBVIOUS
      <4>2. j \in 1 .. n /\ t[j] = q[i]
        BY <1>3, <3>2, <4>1
      <4> QED
        BY <2>3, <4>2 DEF Items
    <3> QED
      BY <3>1, <3>2
  <2>4. Items(q, n + 1, r) \subseteq mine \union Items(t, n, r)
    BY <2>3 DEF Items
  <2> QED
    BY <2>0, <2>1, <2>2, <2>4
<1>5. \A r : Items(q, 0, r) = {}
  BY DEF Items
<1>6. /\ \A j \in DOMAIN b : Whole(b, j, {})
      /\ \A r \in d : Items(b, Len(b), r) =
            Items(a, Len(a), r) \union ItemFor(m, r)
  <2>1. CASE b = a /\ (m.re \notin d \/ m.kind # "Item")
    <3>1. \A r \in d : ItemFor(m, r) = {}
      BY <2>1 DEF ItemFor
    <3>2. \A j \in DOMAIN a : Whole(a, j, {})
      BY DEF Streaming
    <3> QED
      BY <2>1, <3>1, <3>2
  <2>2. ASSUME NEW x \in A, b = Append(a, x), x.re = m.re, x.kind = m.kind, x.item = m.item,
               x.re \in c \/ x.kind \notin {"Item", "EndStream"}
        PROVE  /\ \A j \in DOMAIN b : Whole(b, j, {})
               /\ \A r \in d : Items(b, Len(b), r) =
                    Items(a, Len(a), r) \union ItemFor(m, r)
    <3>1. PICK n : n = Len(a)
      OBVIOUS
    <3>2. /\ n \in Nat /\ DOMAIN a = 1 .. n /\ DOMAIN b = 1 .. (n + 1) /\ Len(b) = n + 1
          /\ (\A i \in 1 .. n : b[i] = a[i]) /\ b[n + 1] = x
      BY <2>2, <3>1, ItemsBehind
    <3>3. \A r : \A l \in 0 .. n : Items(b, l, r) = Items(a, l, r)
      <4>1. a \in Seq(A) /\ x \in A
        OBVIOUS
      <4>2. \A r : \A l \in 0 .. Len(a) : Items(Append(a, x), l, r) = Items(a, l, r)
        BY ONLY <4>1, ItemsStay
      <4> QED
        BY ONLY <2>2, <3>1, <4>2
    <3>4. \A r : Items(b, Len(b), r) = Items(a, Len(a), r) \union ItemFor(m, r)
      <4>1. \A r : Items(b, Len(b), r) = Items(a, Len(a), r) \union ItemFor(x, r)
        BY <2>2, ItemsBehind
      <4>2. \A r : ItemFor(x, r) = ItemFor(m, r)
        BY <2>2 DEF ItemFor
      <4> QED
        BY <4>1, <4>2
    <3>5. ASSUME NEW j \in 1 .. (n + 1) PROVE Whole(b, j, {})
      <4>1. CASE j \in 1 .. n
        <5>1. j - 1 \in 0 .. n /\ b[j] = a[j] /\ j \in DOMAIN a
          BY <3>2, <4>1
        <5>2. Whole(a, j, {}) /\ Items(b, j - 1, a[j].re) = Items(a, j - 1, a[j].re)
          BY <3>3, <5>1 DEF Streaming
        <5> QED
          BY <5>1, <5>2 DEF Whole
      <4>2. CASE j = n + 1
        <5>1. b[j] = x /\ j - 1 = n /\ n \in 0 .. n /\ 1 \in DOMAIN q /\ 1 - 1 = 0
          BY <1>3, <3>2, <4>2
        <5>2. Items(b, j - 1, x.re) = Items(a, n, x.re)
          BY <3>3, <5>1
        <5>3. x.re \in c => Whole(q, 1, Items(a, n, x.re))
          BY <1>3, <2>2, <3>1, <5>1 DEF Streaming
        <5>4. x.re \in c => /\ x.kind = "Item" => Items(a, n, x.re) = 1 .. (x.item - 1)
                            /\ x.kind = "EndStream" => Items(a, n, x.re) = 1 .. StreamLength
          BY <1>3, <1>5, <2>2, <5>1, <5>3 DEF Whole
        <5> QED
          BY <2>2, <5>1, <5>2, <5>4 DEF Whole
      <4> QED
        BY <3>2, <4>1, <4>2
    <3> QED
      BY <3>2, <3>4, <3>5
  <2> QED
    BY <1>1, <2>1, <2>2
<1>7. ASSUME NEW j \in 1 .. k, t[j].re \in d PROVE Whole(t, j, Items(b, Len(b), t[j].re))
  <2>1. j + 1 \in DOMAIN q /\ t[j] = q[j + 1] /\ q[j + 1].re \in c /\ j - 1 \in 0 .. k
        /\ (j + 1) - 1 = (j - 1) + 1
    BY <1>3, <1>7
  <2>2. PICK r : r = t[j].re
    OBVIOUS
  <2>3. Whole(q, j + 1, Items(a, Len(a), r))
    BY <2>1, <2>2 DEF Streaming
  <2>4. Items(q, (j + 1) - 1, r) =
            ItemFor(m, r) \union Items(t, j - 1, r)
    BY <1>4, <2>1
  <2>5. Items(b, Len(b), r) =
            Items(a, Len(a), r) \union ItemFor(m, r)
    BY <1>6, <1>7, <2>2
  <2>6. Items(b, Len(b), r) \union Items(t, j - 1, r)
            = Items(a, Len(a), r) \union Items(q, (j + 1) - 1, r)
    BY <2>4, <2>5
  <2> QED
    BY <2>1, <2>2, <2>3, <2>6 DEF Whole
<1>8. ASSUME NEW h \in R, h.kind = "Stream", h.re \in d
      PROVE  Items(b, Len(b), h.re) \union Items(t, Len(t), h.re) = 1 .. h.item
  <2>1. PICK r : r = h.re
    OBVIOUS
  <2>2. Items(a, Len(a), r) \union Items(q, Len(q), r) = 1 .. h.item
    BY <1>8, <2>1 DEF Streaming
  <2>3. Items(q, Len(q), r) =
            ItemFor(m, r) \union Items(t, k, r)
    <3>1. k \in 0 .. k
      BY <1>3
    <3> QED
      BY <1>3, <1>4, <3>1
  <2>4. Items(b, Len(b), r) =
            Items(a, Len(a), r) \union ItemFor(m, r)
    BY <1>6, <1>8, <2>1
  <2> QED
    BY <1>2, <2>1, <2>2, <2>3, <2>4
<1>9. \A g, h \in R : g.kind = "Stream" /\ h.kind = "Stream" /\ g.re = h.re => g = h
  BY DEF Streaming
<1> QED
  BY <1>1, <1>3, <1>6, <1>7, <1>8, <1>9 DEF Streaming

\* A stream is opened that nobody has heard of.
LEMMA StreamingOpens ==
    ASSUME NEW a, NEW c, NEW q, NEW R, Streaming(a, c, q, R),
           NEW r, NEW d \in SUBSET (c \union {r}),
           \A j \in DOMAIN q : q[j].kind \in {"Item", "EndStream"} => q[j].re # r,
           \A h \in R : h.re # r, NEW T \in SUBSET R
    PROVE  Streaming(a, d, q, T)
<1>1. ASSUME NEW j \in DOMAIN q, q[j].re \in d
      PROVE  Whole(q, j, Items(a, Len(a), q[j].re))
  <2>1. CASE q[j].kind \in {"Item", "EndStream"}
    <3>1. q[j].re \in c
      BY <1>1, <2>1
    <3> QED
      BY <3>1 DEF Streaming
  <2>2. CASE q[j].kind \notin {"Item", "EndStream"}
    BY <2>2 DEF Whole
  <2> QED
    BY <2>1, <2>2
<1>2. ASSUME NEW h \in T, h.kind = "Stream", h.re \in d
      PROVE  Items(a, Len(a), h.re) \union Items(q, Len(q), h.re) = 1 .. h.item
  BY <1>2 DEF Streaming
<1>3. /\ \A j \in DOMAIN a : Whole(a, j, {})
      /\ \A g, h \in T : g.kind = "Stream" /\ h.kind = "Stream" /\ g.re = h.re => g = h
  BY DEF Streaming
<1> QED
  BY <1>1, <1>2, <1>3 DEF Streaming

\* Streams are given up, or handlers.
LEMMA StreamingLess ==
    ASSUME NEW a, NEW c, NEW q, NEW R, Streaming(a, c, q, R), NEW d \in SUBSET c, NEW T \in SUBSET R
    PROVE  Streaming(a, d, q, T)
<1>1. \A j \in DOMAIN q : q[j].re \in d => Whole(q, j, Items(a, Len(a), q[j].re))
  BY DEF Streaming
<1>2. \A h \in T : h.kind = "Stream" /\ h.re \in d =>
         Items(a, Len(a), h.re) \union Items(q, Len(q), h.re) = 1 .. h.item
  BY DEF Streaming
<1>3. /\ \A j \in DOMAIN a : Whole(a, j, {})
      /\ \A g, h \in T : g.kind = "Stream" /\ h.kind = "Stream" /\ g.re = h.re => g = h
  BY DEF Streaming
<1> QED
  BY <1>1, <1>2, <1>3 DEF Streaming

\* A handler is started for a request that nobody has replied to.
LEMMA StreamingRuns ==
    ASSUME NEW a, NEW c, NEW q, NEW R, Streaming(a, c, q, R),
           NEW h, h.item = 0, \A g \in R : g.re # h.re,
           \A j \in DOMAIN q : q[j].kind = "Item" => q[j].re # h.re,
           h.re \in c => \A j \in DOMAIN a : a[j].kind = "Item" => a[j].re # h.re,
           NEW A, a \in Seq(A), NEW S, q \in Seq(S)
    PROVE  Streaming(a, c, q, R \union {h})
<1>1. DOMAIN a = 1 .. Len(a) /\ DOMAIN q = 1 .. Len(q)
  BY LenProperties
<1>2. h.re \in c => Items(a, Len(a), h.re) = {}
  BY <1>1 DEF Items
<1>3. Items(q, Len(q), h.re) = {}
  BY <1>1 DEF Items
<1>4. h.re \in c => Items(a, Len(a), h.re) \union Items(q, Len(q), h.re) = 1 .. h.item
  <2>1. 1 .. 0 = {}
    OBVIOUS
  <2> QED
    BY <1>2, <1>3, <2>1
<1>5. \A f, g \in R \union {h} : f.kind = "Stream" /\ g.kind = "Stream" /\ f.re = g.re => f = g
  BY DEF Streaming
<1> QED
  BY <1>4, <1>5 DEF Streaming

\* An envelope is sent: it says something to the connection, or uses an id that is new.
LEMMA FreshSays ==
    ASSUME NEW q \in Seq(Envelope), NEW P, NEW R, NEW n \in Nat, Fresh(q, P, R, n),
           NEW m \in Envelope, m.kind # "Flush", NEW T \in SUBSET P, NEW l \in Nat, n <= l, R \subseteq Nat,
           m.kind \notin ControlKind =>
             /\ m.id \notin R /\ \A s \in T : s.env.id # m.id
             /\ \A i \in DOMAIN q : q[i].kind \notin ControlKind => q[i].id # m.id
    PROVE  Fresh(Append(q, m), T, R, l)
<1>1. PICK t : t = Append(q, m)
  OBVIOUS
<1>2. PICK k : k = Len(q)
  OBVIOUS
<1>3. /\ k \in Nat /\ DOMAIN q = 1 .. k /\ DOMAIN t = 1 .. (k + 1)
      /\ (\A i \in 1 .. k : t[i] = q[i]) /\ t[k + 1] = m
  BY <1>1, <1>2, ItemsBehind
<1>4. \A i \in DOMAIN t : (i \in DOMAIN q /\ t[i] = q[i]) \/ (i = k + 1 /\ t[i] = m)
  BY <1>3
<1>5. \A i \in DOMAIN t : t[i].kind # "Flush" /\ (t[i].kind \notin ControlKind => t[i].id \notin R)
  BY <1>4 DEF Fresh
<1>6. ASSUME NEW i \in DOMAIN t, NEW j \in DOMAIN t, i < j,
             t[i].kind \notin ControlKind, t[j].kind \notin ControlKind
      PROVE  t[i].id # t[j].id
  <2>1. i \in DOMAIN q /\ t[i] = q[i]
    BY <1>3, <1>6
  <2>2. CASE j \in DOMAIN q /\ t[j] = q[j]
    BY <1>6, <2>1, <2>2 DEF Fresh
  <2>3. CASE t[j] = m
    BY <1>6, <2>1, <2>3
  <2> QED
    BY <1>4, <2>2, <2>3
<1>7. ASSUME NEW s \in T
      PROVE  /\ s.env.id \notin R
             /\ \A i \in DOMAIN t : t[i].kind \notin ControlKind => t[i].id # s.env.id
  BY <1>4 DEF Fresh
<1>8. \A s, u \in T : s.env.id = u.env.id => s = u
  BY DEF Fresh
<1>9. \A x \in R : x < l
  <2>1. \A x \in R : x < n /\ x \in Nat
    BY DEF Fresh
  <2> QED
    BY <2>1
<1> QED
  BY <1>1, <1>5, <1>6, <1>7, <1>8, <1>9 DEF Fresh

\* An id is drawn, or what it was drawn for is changed.
LEMMA FreshDraws ==
    ASSUME NEW q, NEW P, NEW R \in SUBSET Nat, NEW n \in Nat, Fresh(q, P, R, n), NEW l \in Nat, n <= l,
           NEW T \in SUBSET P, NEW u, u.env.id \notin R, \A s \in T : s.env.id # u.env.id,
           \A i \in DOMAIN q : q[i].kind \notin ControlKind => q[i].id # u.env.id
    PROVE  Fresh(q, T \union {u}, R, l)
<1>1. /\ \A i \in DOMAIN q : q[i].kind # "Flush" /\ (q[i].kind \notin ControlKind => q[i].id \notin R)
      /\ \A i, j \in DOMAIN q :
            i < j /\ q[i].kind \notin ControlKind /\ q[j].kind \notin ControlKind => q[i].id # q[j].id
  BY DEF Fresh
<1>2. \A s \in T \union {u} :
        /\ s.env.id \notin R
        /\ \A i \in DOMAIN q : q[i].kind \notin ControlKind => q[i].id # s.env.id
  BY DEF Fresh
<1>3. \A s, v \in T \union {u} : s.env.id = v.env.id => s = v
  BY DEF Fresh
<1>4. \A x \in R : x < l
  <2>1. \A x \in R : x < n /\ x \in Nat
    BY DEF Fresh
  <2> QED
    BY <2>1
<1> QED
  BY <1>1, <1>2, <1>3, <1>4 DEF Fresh

\* The next envelope is taken, and its id received.
LEMMA FreshTakes ==
    ASSUME NEW q \in Seq(Envelope), NEW P, NEW R, NEW n, Fresh(q, P, R, n), q # <<>>,
           NEW Q, Q = R \union (IF Head(q).kind \notin ControlKind THEN {Head(q).id} ELSE {}),
           Head(q).kind \notin ControlKind => Head(q).id < n
    PROVE  Fresh(Tail(q), P, Q, n)
<1>1. PICK t, m : t = Tail(q) /\ m = Head(q)
  OBVIOUS
<1>2. PICK k : k = Len(t)
  OBVIOUS
<1>3. /\ k \in Nat /\ DOMAIN q = 1 .. (k + 1) /\ DOMAIN t = 1 .. k
      /\ (\A i \in 1 .. k : t[i] = q[i + 1]) /\ q[1] = m
  BY <1>1, <1>2, ItemsAfter
<1>4. \A i \in DOMAIN t : i + 1 \in DOMAIN q /\ t[i] = q[i + 1] /\ 1 < i + 1 /\ 1 \in DOMAIN q
  BY <1>3
<1>5. ASSUME NEW i \in DOMAIN t
      PROVE  t[i].kind # "Flush" /\ (t[i].kind \notin ControlKind => t[i].id \notin Q)
  <2>1. q[i + 1].kind # "Flush" /\ (q[i + 1].kind \notin ControlKind => q[i + 1].id \notin R)
    BY <1>4 DEF Fresh
  <2>2. q[i + 1].kind \notin ControlKind /\ m.kind \notin ControlKind => m.id # q[i + 1].id
    BY <1>3, <1>4 DEF Fresh
  <2> QED
    BY <1>1, <1>4, <2>1, <2>2
<1>6. ASSUME NEW i \in DOMAIN t, NEW j \in DOMAIN t, i < j,
             t[i].kind \notin ControlKind, t[j].kind \notin ControlKind
      PROVE  t[i].id # t[j].id
  <2>1. i + 1 < j + 1
    BY <1>3, <1>6
  <2> QED
    BY <1>4, <1>6, <2>1 DEF Fresh
<1>7. ASSUME NEW s \in P
      PROVE  /\ s.env.id \notin Q
             /\ \A i \in DOMAIN t : t[i].kind \notin ControlKind => t[i].id # s.env.id
  <2>1. /\ s.env.id \notin R
        /\ \A i \in DOMAIN q : q[i].kind \notin ControlKind => q[i].id # s.env.id
    BY DEF Fresh
  <2>2. 1 \in DOMAIN q
    BY <1>3
  <2> QED
    BY <1>1, <1>3, <1>4, <2>1, <2>2
<1>8. \A s, u \in P : s.env.id = u.env.id => s = u
  BY DEF Fresh
<1>9. \A x \in Q : x < n
  BY <1>1 DEF Fresh
<1> QED
  BY <1>1, <1>5, <1>6, <1>7, <1>8, <1>9 DEF Fresh

\* On a connection that holds, what an end puts into its queue comes last.
LEMMA PutsOne ==
    ASSUME TypeOK, Connected, NEW e \in End, NEW m \in Envelope, Put(e, <<m>>),
           incoming'[Peer(e)] = incoming[Peer(e)]
    PROVE  Queue(e)' = Append(Queue(e), m) /\ outgoing'[Peer(e)] = outgoing[Peer(e)]
<1>1. <<m>> \in Seq(Envelope) /\ Queue(e) \in Seq(Envelope)
  BY OnlyOne, Queues
<1>2. Queue(e)' = Queue(e) \o <<m>> /\ outgoing'[Peer(e)] = outgoing[Peer(e)]
  <2>1. PICK out : out = <<m>>
    OBVIOUS
  <2>2. TypeOK /\ e \in End /\ out \in Seq(Envelope) /\ Put(e, out) /\ incoming'[Peer(e)] = incoming[Peer(e)]
    BY <1>1, <2>1
  <2>3. Queue(e)' = IF e = "client" /\ link = "down" THEN Queue(e) ELSE Queue(e) \o out
    BY ONLY <2>2, QueueGrows
  <2>4. \A d \in End : d # e => outgoing'[d] = outgoing[d]
    BY ONLY <2>2, Putting
  <2>5. link # "down" /\ Peer(e) \in End /\ Peer(e) # e
    BY Kinds DEF Connected
  <2> QED
    BY ONLY <2>1, <2>3, <2>4, <2>5
<1>3. Queue(e) \o <<m>> = Append(Queue(e), m)
  <2>1. PICK q \in Seq(Envelope) : q = Queue(e)
    BY <1>1
  <2> QED
    BY <2>1, AppendIsConcat
<1> QED
  BY <1>2, <1>3

\* Ids under way or about to be were drawn.
LEMMA QueueIds ==
    ASSUME Inv, NEW e \in End
    PROVE  /\ \A i \in DOMAIN Queue(e) : /\ Queue(e)[i] \in Envelope /\ Right(e, Queue(e)[i])
                                         /\ Queue(e)[i].kind \notin ControlKind =>
                                                Queue(e)[i].id \in Nat /\ Queue(e)[i].id < nextId[e]
           /\ \A s \in sending[e] : s.env.id \in Nat /\ s.env.id < nextId[e]
           /\ nextId[e] \in Nat /\ Received(e) \subseteq Nat /\ Received(Peer(e)) \subseteq Nat
<1>1. TypeOK /\ Ids(e) /\ Envelopes(e) /\ nextId[e] \in Nat
  BY Values DEF Inv
<1>2. ASSUME NEW i \in DOMAIN Queue(e)
      PROVE  /\ Queue(e)[i] \in Envelope /\ Right(e, Queue(e)[i])
             /\ Queue(e)[i].kind \notin ControlKind =>
                    Queue(e)[i].id \in Nat /\ Queue(e)[i].id < nextId[e]
  <2>1. PICK m : m = Queue(e)[i]
    OBVIOUS
  <2>2. m \in Transit(e)
    BY <1>1, <2>1, Queues
  <2>3. m \in Envelope /\ m.id \in Nat /\ Right(e, m)
    BY <1>1, <2>2, TransitTypes DEF Envelopes
  <2>4. m.kind \notin ControlKind => Pair(m) \in Used(e) /\ Pair(m).id = m.id
    BY <2>3 DEF Right, Used, Pair
  <2>5. m.kind \notin ControlKind => m.id < nextId[e]
    BY <1>1, <2>4 DEF Ids
  <2> QED
    BY <2>1, <2>3, <2>5
<1>3. ASSUME NEW s \in sending[e] PROVE s.env.id \in Nat /\ s.env.id < nextId[e]
  <2>1. Pair(s.env) \in Used(e) /\ Pair(s.env).id = s.env.id
    BY DEF Used, Pair
  <2>2. s.env.id < nextId[e]
    BY <1>1, <2>1 DEF Ids
  <2> QED
    BY <1>1, <2>1, <2>2, UsedTypes
<1>4. \A d \in End : Received(d) \subseteq Nat
  <2>1. ASSUME NEW d \in End PROVE Received(d) \subseteq Nat
    <3>1. received[d] \in Seq(Nat)
      BY <1>1, Values
    <3>2. Range(received[d]) \subseteq Nat
      BY <3>1, Elements
    <3> QED
      BY <3>2 DEF Received, Range
  <2> QED
    BY <2>1
<1> QED
  BY <1>1, <1>2, <1>3, <1>4, Kinds

\* The next envelope that an end takes.
LEMMA TakesOne ==
    ASSUME Inv, NEW e \in End, CanReceive(e), Singles(Peer(e)),
           incoming' = [incoming EXCEPT ![e] = Tail(@)], outgoing'[Peer(e)] = outgoing[Peer(e)]
    PROVE  LET m == Head(incoming[e])
               q == Queue(Peer(e)) IN
           /\ q \in Seq(Envelope) /\ q # <<>> /\ Head(q) = m /\ q' = Tail(q)
           /\ m \in Envelope /\ Right(Peer(e), m) /\ m.kind # "Flush"
           /\ m.kind \notin ControlKind => m.id < nextId[Peer(e)] /\ m.id \notin Received(e)
           /\ incoming'[Peer(e)] = incoming[Peer(e)]
<1>1. /\ TypeOK /\ Peer(e) \in End /\ Peer(Peer(e)) = e /\ Peer(e) # e /\ incoming[e] # <<>>
      /\ incoming \in [End -> Seq(Envelope)]
  BY Kinds DEF Inv, CanReceive, TypeOK
<1>2. incoming'[e] = Tail(incoming[e]) /\ incoming'[Peer(e)] = incoming[Peer(e)]
  BY <1>1
<1>3. PICK m, q : m = Head(incoming[e]) /\ q = Queue(Peer(e))
  OBVIOUS
<1>4. q # <<>> /\ Head(q) = m /\ Queue(Peer(e))' = Tail(q)
  BY <1>1, <1>2, <1>3, QueueMoves
<1>5. q \in Seq(Envelope)
  BY <1>1, <1>3, Queues
<1>6. 1 \in DOMAIN q /\ q[1] = m
  BY <1>4, <1>5, ItemsAfter
<1>7. /\ m \in Envelope /\ Right(Peer(e), m)
      /\ m.kind \notin ControlKind => m.id < nextId[Peer(e)]
  BY <1>1, <1>3, <1>6, QueueIds
<1>8. m.kind # "Flush" /\ (m.kind \notin ControlKind => m.id \notin Received(e))
  BY <1>1, <1>3, <1>6 DEF Singles, Fresh
<1> QED
  BY <1>2, <1>3, <1>4, <1>5, <1>7, <1>8

\* It is on its way no more, and its id is received.
LEMMA SinglesTake ==
    ASSUME Inv, NEW e \in End, CanReceive(e), Singles(Peer(e)),
           incoming' = [incoming EXCEPT ![e] = Tail(@)], outgoing'[Peer(e)] = outgoing[Peer(e)],
           Received(e)' = Received(e) \union (IF Head(incoming[e]).kind \notin ControlKind
                                              THEN {Head(incoming[e]).id} ELSE {}),
           sending'[Peer(e)] = sending[Peer(e)], nextId'[Peer(e)] = nextId[Peer(e)]
    PROVE  Singles(Peer(e))'
<1>1. Peer(Peer(e)) = e
  BY Kinds
<1>2. PICK q : q = Queue(Peer(e))
  OBVIOUS
<1>3. /\ q \in Seq(Envelope) /\ q # <<>> /\ Head(q) = Head(incoming[e]) /\ Queue(Peer(e))' = Tail(q)
      /\ Head(q).kind \notin ControlKind => Head(q).id < nextId[Peer(e)]
  BY <1>2, TakesOne
<1>4. Fresh(q, sending[Peer(e)], Received(e), nextId[Peer(e)])
  BY <1>1, <1>2 DEF Singles
<1>5. Fresh(Tail(q), sending[Peer(e)], Received(e)', nextId[Peer(e)])
  BY <1>3, <1>4, FreshTakes
<1> QED
  BY <1>1, <1>3, <1>5 DEF Singles

\* An envelope that is no item leaves the streams as they are.
LEMMA StreamsTake ==
    ASSUME Inv, NEW e \in End, CanReceive(e), Singles(Peer(e)), Streams(e),
           incoming' = [incoming EXCEPT ![e] = Tail(@)], outgoing'[Peer(e)] = outgoing[Peer(e)],
           Head(incoming[e]).kind # "Item",
           answers'[e] = answers[e], streamChannels'[e] = streamChannels[e],
           running'[Peer(e)] = running[Peer(e)]
    PROVE  Streams(e)'
<1>1. PICK q : q = Queue(Peer(e))
  OBVIOUS
<1>2. q \in Seq(Envelope) /\ q # <<>> /\ Head(q) = Head(incoming[e]) /\ Queue(Peer(e))' = Tail(q)
  BY <1>1, TakesOne
<1>3. answers[e] \in Seq([re : Id, kind : Kind, item : Nat])
  BY Values DEF Inv
<1>4. Streaming(answers[e], streamChannels[e], q, running[Peer(e)])
  BY <1>1 DEF Streams
<1>5. Streaming(answers[e], streamChannels[e], Tail(q), running[Peer(e)])
  BY <1>2, <1>3, <1>4, StreamingTakes
<1> QED
  BY <1>2, <1>5 DEF Streams

\* An end sends something that is no reply of a stream.
LEMMA StreamsSay ==
    ASSUME Inv, Connected, NEW e \in End, NEW m \in Envelope, Put(e, <<m>>),
           incoming'[Peer(e)] = incoming[Peer(e)], Streams(Peer(e)),
           m.kind \notin {"Item", "EndStream"}, answers'[Peer(e)] = answers[Peer(e)],
           streamChannels'[Peer(e)] = streamChannels[Peer(e)], running'[e] \subseteq running[e]
    PROVE  Streams(Peer(e))'
<1>1. Peer(Peer(e)) = e /\ TypeOK
  BY Kinds DEF Inv
<1>2. PICK q : q = Queue(e)
  OBVIOUS
<1>3. q \in Seq(Envelope) /\ Queue(e)' = Append(q, m)
  BY <1>1, <1>2, Queues, PutsOne
<1>4. PICK a, c, R, T : /\ a = answers[Peer(e)] /\ c = streamChannels[Peer(e)]
                        /\ R = running[e] /\ T = running'[e]
  OBVIOUS
<1>5. Streaming(a, c, q, R)
  BY <1>1, <1>2, <1>4 DEF Streams
<1>6. Streaming(a, c, q, T)
  BY <1>4, <1>5, StreamingLess
<1>7. ASSUME NEW h \in T, h.kind = "Stream", h.re \in c
      PROVE  Items(a, Len(a), h.re) \union (Items(q, Len(q), h.re) \union ItemFor(m, h.re)) = 1 .. h.item
  <2>1. ItemFor(m, h.re) = {}
    BY DEF ItemFor
  <2> QED
    BY <1>6, <1>7, <2>1 DEF Streaming
<1>8. \A g, h \in T : g.kind = "Stream" /\ h.kind = "Stream" /\ g.re = h.re => g = h
  BY <1>6 DEF Streaming
<1>9. Streaming(a, c, Append(q, m), T)
  BY <1>3, <1>5, <1>7, <1>8, StreamingSays
<1> QED
  BY <1>1, <1>3, <1>4, <1>9 DEF Streams

\* An end sends something, with the next id unless it says something to the connection.
LEMMA SinglesSay ==
    ASSUME Inv, TypeOK', Connected, NEW e \in End, NEW m \in Envelope, Put(e, <<m>>),
           incoming'[Peer(e)] = incoming[Peer(e)], Singles(e), m.kind # "Flush",
           m.kind \notin ControlKind => m.id = nextId[e], nextId[e] <= nextId'[e],
           sending'[e] = sending[e], Received(Peer(e))' = Received(Peer(e))
    PROVE  Singles(e)'
<1>1. TypeOK /\ nextId'[e] \in Nat
  BY DEF Inv, TypeOK
<1>2. PICK q : q = Queue(e)
  OBVIOUS
<1>3. q \in Seq(Envelope) /\ Queue(e)' = Append(q, m)
  BY <1>1, <1>2, Queues, PutsOne
<1>4. PICK P, R, n : P = sending[e] /\ R = Received(Peer(e)) /\ n = nextId[e]
  OBVIOUS
<1>5. Fresh(q, P, R, n)
  BY <1>2, <1>4 DEF Singles
<1>6. /\ n \in Nat /\ R \subseteq Nat /\ \A s \in P : s.env.id \in Nat /\ s.env.id < n
      /\ \A i \in DOMAIN q : q[i].kind \notin ControlKind => q[i].id \in Nat /\ q[i].id < n
  BY <1>2, <1>4, QueueIds
<1>7. n \notin R
  BY <1>5, <1>6 DEF Fresh
<1>8. m.kind \notin ControlKind =>
        /\ m.id \notin R /\ \A s \in P : s.env.id # m.id
        /\ \A i \in DOMAIN q : q[i].kind \notin ControlKind => q[i].id # m.id
  BY <1>4, <1>6, <1>7
<1>9. Fresh(Append(q, m), P, R, nextId'[e])
  BY <1>1, <1>3, <1>4, <1>5, <1>6, <1>8, FreshSays
<1> QED
  BY <1>3, <1>4, <1>9 DEF Singles

\* An end that nothing happens to.
LEMMA QueueStays ==
    ASSUME NEW e, outgoing'[e] = outgoing[e], incoming'[Peer(e)] = incoming[Peer(e)]
    PROVE  Queue(e)' = Queue(e)
BY DEF Queue

\* Its ids are used as before, ...
LEMMA SinglesStay ==
    ASSUME NEW e, Queue(e)' = Queue(e), sending'[e] = sending[e], nextId'[e] = nextId[e],
           Received(Peer(e))' = Received(Peer(e)), Singles(e)
    PROVE  Singles(e)'
BY DEF Singles

\* ... and its streams are where they were, or fewer.
LEMMA StreamsStay ==
    ASSUME NEW e, answers'[e] = answers[e], streamChannels'[e] \subseteq streamChannels[e],
           Queue(Peer(e))' = Queue(Peer(e)), running'[Peer(e)] = running[Peer(e)], Streams(e)
    PROVE  Streams(e)'
<1>1. PICK a, c, q, R, d : /\ a = answers[e] /\ c = streamChannels[e] /\ q = Queue(Peer(e))
                           /\ R = running[Peer(e)] /\ d = streamChannels'[e]
  OBVIOUS
<1>2. Streaming(a, c, q, R) /\ d \subseteq c
  BY <1>1 DEF Streams
<1>3. Streaming(a, d, q, R)
  BY <1>2, StreamingLess
<1> QED
  BY <1>1, <1>3 DEF Streams

\* What is true of an end and of its peer is true of both.
LEMMA BothEnds ==
    ASSUME NEW e \in End, Streams(e)', Streams(Peer(e))', Singles(e)', Singles(Peer(e))'
    PROVE  \A d \in End : Streams(d)' /\ Singles(d)'
<1>1. \A d \in End : d = e \/ d = Peer(e)
  BY DEF End, Peer
<1> QED
  BY <1>1

\* Nobody replies to what was not sent.
LEMMA OpensStream ==
    ASSUME Inv, NEW e \in End, Streams(e), Queue(Peer(e))' = Queue(Peer(e)),
           streamChannels'[e] \subseteq streamChannels[e] \union {nextId[e]},
           answers'[e] = answers[e], running'[Peer(e)] = running[Peer(e)]
    PROVE  Streams(e)'
<1>1. Peer(e) \in End /\ Peer(Peer(e)) = e /\ Ids(e) /\ Handlers(Peer(e)) /\ nextId[e] \in Nat
  BY Kinds, Values DEF Inv
<1>2. \A x \in Used(e) : x.id < nextId[e]
  BY <1>1 DEF Ids
<1>3. PICK a, c, q, R, d : /\ a = answers[e] /\ c = streamChannels[e] /\ q = Queue(Peer(e))
                           /\ R = running[Peer(e)] /\ d = streamChannels'[e]
  OBVIOUS
<1>4. ASSUME NEW j \in DOMAIN q, q[j].kind \in {"Item", "EndStream"} PROVE q[j].re # nextId[e]
  <2>1. Right(Peer(e), q[j])
    BY <1>1, <1>3, QueueIds
  <2>2. PICK x \in Used(e) : x.id = q[j].re
    BY <1>1, <1>4, <2>1 DEF Right, ReplyKind
  <2> QED
    BY <1>1, <1>2, <2>2
<1>5. ASSUME NEW h \in R PROVE h.re # nextId[e]
  <2> DEFINE x == [id |-> h.re, kind |-> h.kind]
  <2>1. x \in Used(e) /\ x.id = h.re
    BY <1>1, <1>3 DEF Handlers
  <2> HIDE DEF x
  <2> QED
    BY <1>1, <1>2, <2>1
<1>6. Streaming(a, c, q, R) /\ d \subseteq c \union {nextId[e]}
  BY <1>3 DEF Streams
<1>7. Streaming(a, d, q, R)
  BY <1>4, <1>5, <1>6, StreamingOpens
<1> QED
  BY <1>3, <1>7 DEF Streams

\* A send on the foreground.
LEMMA SendNowStreams ==
    ASSUME Inv, TypeOK', Connected, \A d \in End : Streams(d) /\ Singles(d),
           NEW e \in End, NEW k \in AppKind, SendNow(e, k)
    PROVE  \A d \in End : Streams(d)' /\ Singles(d)'
<1> DEFINE p == Peer(e)
<1>0. PICK m : m = Env(nextId[e], k, None, maxReceived[e], 0)
  OBVIOUS
<1>1. TypeOK /\ p \in End /\ p # e /\ Peer(p) = e
  BY Kinds DEF Inv
<1>2. m \in Envelope /\ m.id = nextId[e] /\ m.kind = k
  <2>1. nextId[e] \in Nat /\ k \in Kind /\ None \in Id /\ maxReceived[e] \in Id /\ 0 \in Nat
    BY <1>1, Values, Kinds
  <2> QED
    BY <1>0, <2>1 DEF Env, Envelope
<1>3. m.kind \notin {"Item", "EndStream"} /\ m.kind # "Flush"
  BY <1>2, Kinds
<1>4. /\ Put(e, <<m>>) /\ Register(e, k, nextId[e]) /\ nextId' = [nextId EXCEPT ![e] = @ + 1]
      /\ UNCHANGED <<incoming, received, answers, sending, running>>
  BY <1>0 DEF SendNow, SendBuffered, tasks
<1>5. /\ nextId'[e] = nextId[e] + 1 /\ nextId[e] <= nextId'[e] /\ nextId'[p] = nextId[p]
  <2>1. nextId'[e] = nextId[e] + 1 /\ nextId'[p] = nextId[p] /\ nextId[e] \in Nat
    BY <1>1, <1>4, Drawing, Values
  <2> QED
    BY <2>1
<1>6. /\ streamChannels'[p] = streamChannels[p]
      /\ streamChannels'[e] \subseteq streamChannels[e] \union {nextId[e]}
  BY <1>1, <1>4, Registering
<1>7. outgoing'[p] = outgoing[p]
  BY <1>1, <1>2, <1>4, PutsOne
<1>8. Received(e)' = Received(e) /\ Received(p)' = Received(p)
  BY <1>4 DEF Received
<1>9. Queue(p)' = Queue(p)
  BY <1>1, <1>4, <1>7, QueueStays
<1>10. Streams(e)'
  BY <1>4, <1>6, <1>9, OpensStream
<1>11. Streams(p)'
  BY <1>1, <1>2, <1>3, <1>4, <1>6, StreamsSay
<1>12. Singles(e)'
  BY <1>2, <1>3, <1>4, <1>5, <1>8, SinglesSay
<1>13. Singles(p)'
  BY <1>1, <1>4, <1>5, <1>8, <1>9, SinglesStay
<1> QED
  BY <1>10, <1>11, <1>12, <1>13, BothEnds

\* A send on another thread: the id is drawn, ...
LEMMA AllocateStreams ==
    ASSUME Inv, TypeOK', Connected, \A d \in End : Streams(d) /\ Singles(d),
           NEW e \in End, NEW k \in AppKind, SendAllocate(e, k)
    PROVE  \A d \in End : Streams(d)' /\ Singles(d)'
<1> DEFINE p == Peer(e)
<1>1. TypeOK /\ p \in End /\ p # e /\ Peer(p) = e
  BY Kinds DEF Inv
<1>2. PICK u : u = [env |-> Env(nextId[e], k, None, None, 0), kept |-> FALSE]
  OBVIOUS
<1>3. u.env.id = nextId[e]
  BY <1>2 DEF Env
<1>4. /\ Register(e, k, nextId[e]) /\ nextId' = [nextId EXCEPT ![e] = @ + 1]
      /\ sending' = [sending EXCEPT ![e] = @ \union {u}]
      /\ UNCHANGED <<incoming, outgoing, received, answers, running>>
  BY <1>2 DEF SendAllocate
<1>5. /\ nextId'[e] = nextId[e] + 1 /\ nextId'[p] = nextId[p] /\ nextId[e] \in Nat
  BY <1>1, <1>4, Drawing, Values
<1>6. /\ streamChannels'[p] = streamChannels[p]
      /\ streamChannels'[e] \subseteq streamChannels[e] \union {nextId[e]}
  BY <1>1, <1>4, Registering
<1>7. /\ Received(e)' = Received(e) /\ Received(p)' = Received(p)
      /\ Queue(e)' = Queue(e) /\ Queue(p)' = Queue(p)
  BY <1>4 DEF Received, Queue
<1>8. sending'[p] = sending[p] /\ sending'[e] = sending[e] \union {u}
  BY <1>1, <1>4 DEF TypeOK
<1>9. Streams(e)' /\ Streams(p)'
  BY <1>1, <1>4, <1>6, <1>7, OpensStream, StreamsStay
<1>10. Singles(p)'
  BY <1>1, <1>5, <1>7, <1>8, SinglesStay
<1>11. Singles(e)'
  <2>1. PICK q, P, R, n : q = Queue(e) /\ P = sending[e] /\ R = Received(p) /\ n = nextId[e]
    OBVIOUS
  <2>2. Fresh(q, P, R, n)
    BY <2>1 DEF Singles
  <2>3. /\ n \in Nat /\ R \subseteq Nat /\ \A s \in P : s.env.id \in Nat /\ s.env.id < n
        /\ \A i \in DOMAIN q : q[i].kind \notin ControlKind => q[i].id \in Nat /\ q[i].id < n
    BY <2>1, QueueIds
  <2>4. /\ u.env.id \notin R /\ \A s \in P : s.env.id # u.env.id
        /\ \A i \in DOMAIN q : q[i].kind \notin ControlKind => q[i].id # u.env.id
    BY <1>3, <2>1, <2>2, <2>3 DEF Fresh
  <2>5. n + 1 \in Nat /\ n <= n + 1
    BY <2>3
  <2>6. Fresh(q, P \union {u}, R, n + 1)
    BY <2>2, <2>3, <2>4, <2>5, FreshDraws
  <2> QED
    BY <1>5, <1>7, <1>8, <2>1, <2>6 DEF Singles
<1> QED
  BY <1>9, <1>10, <1>11, BothEnds

\* ... the envelope is kept, ...
LEMMA KeepStreams ==
    ASSUME Inv, Connected, \A d \in End : Streams(d) /\ Singles(d),
           NEW e \in End, NEW s \in sending[e], SendKeep(e, s)
    PROVE  \A d \in End : Streams(d)' /\ Singles(d)'
<1> DEFINE p == Peer(e)
<1>1. TypeOK /\ p \in End /\ p # e /\ Peer(p) = e
  BY Kinds DEF Inv
<1>2. PICK u : u = [env |-> [s.env EXCEPT !.ack = maxReceived[e]], kept |-> TRUE]
  OBVIOUS
<1>3. u.env.id = s.env.id
  <2>1. s.env \in Envelope
    BY <1>1, Values
  <2> QED
    BY <1>2, <2>1 DEF Envelope
<1>4. /\ sending' = [sending EXCEPT ![e] = (@ \ {s}) \union {u}]
      /\ UNCHANGED <<nextId, streamChannels, incoming, outgoing, received, answers, running>>
  BY <1>2 DEF SendKeep, ids, channels
<1>5. /\ Received(e)' = Received(e) /\ Received(p)' = Received(p)
      /\ Queue(e)' = Queue(e) /\ Queue(p)' = Queue(p)
  BY <1>4 DEF Received, Queue
<1>6. sending'[p] = sending[p] /\ sending'[e] = (sending[e] \ {s}) \union {u}
  BY <1>1, <1>4 DEF TypeOK
<1>7. Streams(e)' /\ Streams(p)' /\ Singles(p)'
  BY <1>1, <1>4, <1>5, <1>6, StreamsStay, SinglesStay
<1>8. Singles(e)'
  <2>1. PICK q, P, R, n, T : /\ q = Queue(e) /\ P = sending[e] /\ R = Received(p) /\ n = nextId[e]
                             /\ T = P \ {s}
    OBVIOUS
  <2>2. Fresh(q, P, R, n)
    BY <2>1 DEF Singles
  <2>3. n \in Nat /\ R \in SUBSET Nat /\ n <= n
    BY <2>1, QueueIds
  <2>4. /\ u.env.id \notin R /\ T \in SUBSET P /\ \A t \in T : t.env.id # u.env.id
        /\ \A i \in DOMAIN q : q[i].kind \notin ControlKind => q[i].id # u.env.id
    BY <1>3, <2>1, <2>2 DEF Fresh
  <2>5. Fresh(q, T \union {u}, R, n)
    BY <2>2, <2>3, <2>4, FreshDraws
  <2> QED
    BY <1>4, <1>5, <1>6, <2>1, <2>5 DEF Singles
<1> QED
  BY <1>7, <1>8, BothEnds

\* ... and it goes out.
LEMMA EmitStreams ==
    ASSUME Inv, Connected, \A d \in End : Streams(d) /\ Singles(d),
           NEW e \in End, NEW s \in sending[e], SendEmit(e, s)
    PROVE  \A d \in End : Streams(d)' /\ Singles(d)'
<1> DEFINE p == Peer(e)
<1>1. TypeOK /\ p \in End /\ p # e /\ Peer(p) = e
  BY Kinds DEF Inv
<1>2. PICK m : m = s.env
  OBVIOUS
<1>3. m \in Envelope /\ m.kind \notin {"Item", "EndStream"} /\ m.kind # "Flush"
  BY <1>1, <1>2, Values, Kinds DEF Inv, Sendings
<1>4. /\ Put(e, <<m>>) /\ sending' = [sending EXCEPT ![e] = @ \ {s}]
      /\ UNCHANGED <<nextId, streamChannels, incoming, received, answers, running>>
  BY <1>2 DEF SendEmit, ids, channels, history
<1>5. Queue(e)' = Append(Queue(e), m) /\ outgoing'[p] = outgoing[p]
  BY <1>1, <1>3, <1>4, PutsOne
<1>6. Received(e)' = Received(e) /\ Received(p)' = Received(p) /\ Queue(p)' = Queue(p)
  BY <1>1, <1>4, <1>5, QueueStays DEF Received
<1>7. sending'[p] = sending[p] /\ sending'[e] = sending[e] \ {s}
  BY <1>1, <1>4 DEF TypeOK
<1>8. Streams(e)' /\ Singles(p)'
  BY <1>1, <1>4, <1>6, <1>7, StreamsStay, SinglesStay
<1>9. Streams(p)'
  BY <1>1, <1>3, <1>4, StreamsSay
<1>10. Singles(e)'
  <2>1. PICK q, P, R, n, T : /\ q = Queue(e) /\ P = sending[e] /\ R = Received(p) /\ n = nextId[e]
                             /\ T = P \ {s}
    OBVIOUS
  <2>2. Fresh(q, P, R, n)
    BY <2>1 DEF Singles
  <2>3. n \in Nat /\ R \subseteq Nat /\ n <= n /\ q \in Seq(Envelope)
    BY <1>1, <2>1, QueueIds, Queues
  <2>4. /\ m.id \notin R /\ T \in SUBSET P /\ \A t \in T : t.env.id # m.id
        /\ \A i \in DOMAIN q : q[i].kind \notin ControlKind => q[i].id # m.id
    BY <1>2, <2>1, <2>2 DEF Fresh
  <2>5. Fresh(Append(q, m), T, R, n)
    BY <1>3, <2>2, <2>3, <2>4, FreshSays
  <2> QED
    BY <1>4, <1>5, <1>6, <1>7, <2>1, <2>5 DEF Singles
<1> QED
  BY <1>8, <1>9, <1>10, BothEnds

\* An end announces itself.
LEMMA AnnounceStreams ==
    ASSUME Inv, TypeOK', Connected, \A d \in End : Streams(d) /\ Singles(d),
           NEW e \in End, Announce(e)
    PROVE  \A d \in End : Streams(d)' /\ Singles(d)'
<1> DEFINE p == Peer(e)
<1>1. TypeOK /\ p \in End /\ p # e /\ Peer(p) = e
  BY Kinds DEF Inv
<1>2. PICK m : m = Env(0, "RemoteStarted", None, None, 0)
  OBVIOUS
<1>3. m \in Envelope /\ m.kind = "RemoteStarted" /\ m.kind \in ControlKind
  <2>1. 0 \in Nat /\ "RemoteStarted" \in Kind /\ None \in Id
    BY Kinds
  <2> QED
    BY <1>2, <2>1, Kinds DEF Env, Envelope
<1>4. /\ Put(e, <<m>>)
      /\ UNCHANGED <<nextId, sending, streamChannels, incoming, received, answers, running>>
  BY <1>2 DEF Announce, ids, channels, history
<1>5. outgoing'[p] = outgoing[p]
  BY <1>1, <1>3, <1>4, PutsOne
<1>6. Received(e)' = Received(e) /\ Received(p)' = Received(p) /\ Queue(p)' = Queue(p)
  BY <1>1, <1>4, <1>5, QueueStays DEF Received
<1>7. Streams(e)' /\ Singles(p)'
  BY <1>1, <1>4, <1>6, StreamsStay, SinglesStay
<1>8. Streams(p)'
  BY <1>1, <1>3, <1>4, StreamsSay
<1>9. Singles(e)'
  <2>1. nextId[e] <= nextId'[e]
    BY <1>1, <1>4, Values
  <2> QED
    BY <1>3, <1>4, <1>6, <2>1, SinglesSay
<1> QED
  BY <1>7, <1>8, <1>9, BothEnds

\* A reply is said: it concerns the streams of the other end only.
LEMMA SayingReply ==
    ASSUME Inv, TypeOK', Connected, \A d \in End : Streams(d) /\ Singles(d),
           NEW e \in End, NEW kind \in ReplyKind, NEW re \in Nat, NEW item \in Nat,
           Reply(e, kind, re, item), running'[Peer(e)] = running[Peer(e)],
           NEW m, m = Env(nextId[e], kind, re, maxReceived[e], item)
    PROVE  /\ m \in Envelope /\ m.id = nextId[e] /\ m.kind = kind /\ m.re = re /\ m.item = item
           /\ Put(e, <<m>>) /\ Queue(e)' = Append(Queue(e), m)
           /\ UNCHANGED <<incoming, streamChannels, answers>>
           /\ Streams(e)' /\ Singles(e)' /\ Singles(Peer(e))'
<1> DEFINE p == Peer(e)
<1>1. TypeOK /\ p \in End /\ p # e /\ Peer(p) = e
  BY Kinds DEF Inv
<1>2. /\ m \in Envelope /\ m.id = nextId[e] /\ m.kind = kind /\ m.re = re /\ m.item = item
  <2>1. nextId[e] \in Nat /\ kind \in Kind /\ re \in Id /\ maxReceived[e] \in Id
    BY <1>1, Values, Kinds
  <2> QED
    BY <2>1 DEF Env, Envelope
<1>3. m.kind # "Flush"
  BY <1>2, Kinds
<1>4. /\ Put(e, <<m>>) /\ nextId' = [nextId EXCEPT ![e] = @ + 1]
      /\ UNCHANGED <<sending, streamChannels, incoming, received, answers>>
  BY DEF Reply, SendBuffered, channels
<1>5. Queue(e)' = Append(Queue(e), m) /\ outgoing'[p] = outgoing[p]
  BY <1>1, <1>2, <1>4, PutsOne
<1>6. Received(e)' = Received(e) /\ Received(p)' = Received(p) /\ Queue(p)' = Queue(p)
  BY <1>1, <1>4, <1>5, QueueStays DEF Received
<1>7. nextId'[e] = nextId[e] + 1 /\ nextId[e] <= nextId'[e] /\ nextId'[p] = nextId[p]
  <2>1. nextId'[e] = nextId[e] + 1 /\ nextId'[p] = nextId[p] /\ nextId[e] \in Nat
    BY <1>1, <1>4, Drawing, Values
  <2> QED
    BY <2>1
<1>8. Streams(e)' /\ Singles(p)'
  BY <1>1, <1>4, <1>6, <1>7, StreamsStay, SinglesStay
<1>9. Singles(e)'
  BY <1>2, <1>3, <1>4, <1>6, <1>7, SinglesSay
<1> QED
  BY <1>2, <1>4, <1>5, <1>8, <1>9

\* A handler goes on: a response is no reply of a stream, an item is the next one, and
\* the end comes after all of them.
LEMMA HandlerStreams ==
    ASSUME Inv, TypeOK', Connected, \A d \in End : Streams(d) /\ Singles(d),
           NEW e \in End, HandlerStep(e)
    PROVE  \A d \in End : Streams(d)' /\ Singles(d)'
<1> DEFINE p == Peer(e)
<1>1. TypeOK /\ p \in End /\ p # e /\ Peer(p) = e
  BY Kinds DEF Inv
<1>2. PICK h \in running[e] : Respond(e, h) \/ SendItem(e, h) \/ EndOfStream(e, h)
  BY DEF HandlerStep
<1>3. h.re \in Nat /\ h.item \in Nat /\ h.item + 1 \in Nat /\ running \in [End -> SUBSET
        [re : Nat, kind : {"Request", "Stream"}, item : Nat, call : Nat]]
  <2>1. h.re \in Nat /\ h.item \in Nat
    BY <1>1, <1>2, Values
  <2>2. h.item + 1 \in Nat
    BY <2>1
  <2>3. running \in [End -> SUBSET [re : Nat, kind : {"Request", "Stream"}, item : Nat, call : Nat]]
    BY <1>1 DEF TypeOK
  <2> QED
    BY <2>1, <2>2, <2>3
<1>4. PICK a, c, q, R : a = answers[p] /\ c = streamChannels[p] /\ q = Queue(e) /\ R = running[e]
  OBVIOUS
<1>5. Streaming(a, c, q, R) /\ q \in Seq(Envelope) /\ h \in R
  BY <1>1, <1>2, <1>4, Queues DEF Streams
<1>6. CASE Respond(e, h)
  <2>1. PICK m : m = Env(nextId[e], "Response", h.re, maxReceived[e], 0)
    OBVIOUS
  <2>2. /\ Reply(e, "Response", h.re, 0) /\ running' = [running EXCEPT ![e] = @ \ {h}]
        /\ "Response" \in ReplyKind /\ 0 \in Nat
    BY <1>6, Kinds DEF Respond
  <2>3. running'[p] = running[p] /\ running'[e] \subseteq running[e]
    BY <1>1, <1>3, <2>2
  <2>4. /\ m \in Envelope /\ m.kind = "Response" /\ Put(e, <<m>>)
        /\ UNCHANGED <<incoming, streamChannels, answers>>
        /\ Streams(e)' /\ Singles(e)' /\ Singles(p)'
    BY <1>3, <2>1, <2>2, <2>3, SayingReply
  <2>5. Streams(p)'
    <3>1. /\ m.kind \notin {"Item", "EndStream"} /\ incoming'[p] = incoming[p]
          /\ answers'[p] = answers[p] /\ streamChannels'[p] = streamChannels[p]
      BY <2>4
    <3> QED
      BY <1>1, <2>3, <2>4, <3>1, StreamsSay
  <2> QED
    BY <2>4, <2>5, BothEnds
<1>7. CASE SendItem(e, h)
  <2>1. PICK m : m = Env(nextId[e], "Item", h.re, maxReceived[e], h.item + 1)
    OBVIOUS
  <2>2. PICK g : g = [h EXCEPT !.item = @ + 1]
    OBVIOUS
  <2>3. /\ Reply(e, "Item", h.re, h.item + 1) /\ h.kind = "Stream" /\ "Item" \in ReplyKind
        /\ running' = [running EXCEPT ![e] = (@ \ {h}) \union {g}]
    BY <1>7, <2>2, Kinds DEF SendItem
  <2>4. running'[p] = running[p] /\ running'[e] = (R \ {h}) \union {g}
    BY <1>1, <1>3, <1>4, <2>3
  <2>5. /\ m \in Envelope /\ m.kind = "Item" /\ m.re = h.re /\ m.item = h.item + 1
        /\ Queue(e)' = Append(q, m)
        /\ UNCHANGED <<incoming, streamChannels, answers>>
        /\ Streams(e)' /\ Singles(e)' /\ Singles(p)'
    <3>1. PICK kind, re, n : kind = "Item" /\ re = h.re /\ n = h.item + 1
      OBVIOUS
    <3>2. /\ Reply(e, kind, re, n) /\ kind \in ReplyKind /\ re \in Nat
          /\ n \in Nat /\ running'[Peer(e)] = running[Peer(e)]
          /\ m = Env(nextId[e], kind, re, maxReceived[e], n)
      BY <1>3, <2>1, <2>3, <2>4, <3>1
    <3>3. /\ m \in Envelope /\ Put(e, <<m>>) /\ UNCHANGED <<incoming, streamChannels, answers>>
          /\ Streams(e)' /\ Singles(e)' /\ Singles(p)'
      BY <3>2, SayingReply
    <3>4. Queue(e)' = Append(Queue(e), m)
      <4>1. TypeOK /\ Connected /\ incoming'[Peer(e)] = incoming[Peer(e)]
        BY <1>1, <3>3
      <4> QED
        BY <3>3, <4>1, PutsOne
    <3> QED
      BY <1>4, <2>1, <3>3, <3>4 DEF Env
  <2>6. g.re = h.re /\ g.kind = "Stream" /\ g.item = h.item + 1
    <3>1. h \in [re : Nat, kind : {"Request", "Stream"}, item : Nat, call : Nat]
      BY <1>2, <1>3
    <3> QED
      BY <2>2, <2>3, <3>1
  <2>7. \A f \in R : f.kind = "Stream" /\ f.re = h.re => f = h
    BY <1>5, <2>3 DEF Streaming
  <2>8. PICK T : T = (R \ {h}) \union {g}
    OBVIOUS
  <2>9. m.re \in c => Items(a, Len(a), m.re) \union Items(q, Len(q), m.re) = 1 .. (m.item - 1)
    <3>1. (h.item + 1) - 1 = h.item
      BY <1>3
    <3> QED
      BY <1>5, <2>3, <2>5, <3>1 DEF Streaming
  <2>10. ASSUME NEW f \in T, f.kind = "Stream", f.re \in c
         PROVE  Items(a, Len(a), f.re) \union (Items(q, Len(q), f.re) \union ItemFor(m, f.re)) = 1 .. f.item
    <3>1. CASE f = g
      <4>1. Items(a, Len(a), h.re) \union Items(q, Len(q), h.re) = 1 .. h.item
        BY <1>5, <2>3, <2>6, <2>10, <3>1 DEF Streaming
      <4>2. ItemFor(m, h.re) = {h.item + 1}
        BY <2>5 DEF ItemFor
      <4>3. (1 .. h.item) \union {h.item + 1} = 1 .. (h.item + 1)
        BY <1>3
      <4> QED
        BY <2>6, <3>1, <4>1, <4>2, <4>3
    <3>2. CASE f # g
      <4>1. f \in R /\ f # h
        BY <2>8, <2>10, <3>2
      <4>2. f.re # h.re
        BY <2>7, <2>10, <4>1
      <4>3. ItemFor(m, f.re) = {}
        BY <2>5, <4>2 DEF ItemFor
      <4> QED
        BY <1>5, <2>10, <4>1, <4>3 DEF Streaming
    <3> QED
      BY <3>1, <3>2
  <2>11. ASSUME NEW f \in T, NEW i \in T, f.kind = "Stream", i.kind = "Stream", f.re = i.re PROVE f = i
    <3>1. \A x \in T : x.kind = "Stream" => x = g \/ (x \in R /\ x.re # h.re)
      BY <2>7, <2>8
    <3>2. \A x, y \in R : x.kind = "Stream" /\ y.kind = "Stream" /\ x.re = y.re => x = y
      BY <1>5 DEF Streaming
    <3> QED
      BY <2>6, <2>11, <3>1, <3>2
  <2>12. Streaming(a, c, Append(q, m), T)
    <3>1. m.kind # "EndStream"
      BY <2>5
    <3> QED
      BY <1>5, <2>5, <2>9, <2>10, <2>11, <3>1, StreamingSays
  <2>13. Streams(p)'
    BY <1>1, <1>4, <2>4, <2>5, <2>8, <2>12 DEF Streams
  <2> QED
    BY <2>5, <2>13, BothEnds
<1>8. CASE EndOfStream(e, h)
  <2>1. PICK m : m = Env(nextId[e], "EndStream", h.re, maxReceived[e], 0)
    OBVIOUS
  <2>2. /\ Reply(e, "EndStream", h.re, 0) /\ h.kind = "Stream" /\ h.item = StreamLength
        /\ "EndStream" \in ReplyKind /\ 0 \in Nat
        /\ running' = [running EXCEPT ![e] = @ \ {h}]
    BY <1>8, Kinds DEF EndOfStream, AllSent
  <2>3. running'[p] = running[p] /\ running'[e] = R \ {h}
    BY <1>1, <1>3, <1>4, <2>2
  <2>4. /\ m \in Envelope /\ m.kind = "EndStream" /\ m.re = h.re
        /\ Queue(e)' = Append(q, m)
        /\ UNCHANGED <<incoming, streamChannels, answers>>
        /\ Streams(e)' /\ Singles(e)' /\ Singles(p)'
    <3>1. PICK kind, re, n : kind = "EndStream" /\ re = h.re /\ n = 0
      OBVIOUS
    <3>2. /\ Reply(e, kind, re, n) /\ kind \in ReplyKind /\ re \in Nat
          /\ n \in Nat /\ running'[Peer(e)] = running[Peer(e)]
          /\ m = Env(nextId[e], kind, re, maxReceived[e], n)
      BY <1>3, <2>1, <2>2, <2>3, <3>1
    <3>3. /\ m \in Envelope /\ Put(e, <<m>>) /\ UNCHANGED <<incoming, streamChannels, answers>>
          /\ Streams(e)' /\ Singles(e)' /\ Singles(p)'
      BY <3>2, SayingReply
    <3>4. Queue(e)' = Append(Queue(e), m)
      <4>1. TypeOK /\ Connected /\ incoming'[Peer(e)] = incoming[Peer(e)]
        BY <1>1, <3>3
      <4> QED
        BY <3>3, <4>1, PutsOne
    <3> QED
      BY <1>4, <2>1, <3>3, <3>4 DEF Env
  <2>5. m.re \in c => Items(a, Len(a), m.re) \union Items(q, Len(q), m.re) = 1 .. StreamLength
    BY <1>5, <2>2, <2>4 DEF Streaming
  <2>6. PICK T : T = R \ {h}
    OBVIOUS
  <2>7. ASSUME NEW f \in T, f.kind = "Stream", f.re \in c
        PROVE  Items(a, Len(a), f.re) \union (Items(q, Len(q), f.re) \union ItemFor(m, f.re)) = 1 .. f.item
    <3>1. ItemFor(m, f.re) = {} /\ f \in R
      BY <2>4, <2>6 DEF ItemFor
    <3> QED
      BY <1>5, <2>7, <3>1 DEF Streaming
  <2>8. \A f, i \in T : f.kind = "Stream" /\ i.kind = "Stream" /\ f.re = i.re => f = i
    BY <1>5, <2>6 DEF Streaming
  <2>9. Streaming(a, c, Append(q, m), T)
    <3>1. m.kind # "Item"
      BY <2>4
    <3> QED
      BY <1>5, <2>4, <2>5, <2>7, <2>8, <3>1, StreamingSays
  <2>10. Streams(p)'
    BY <1>1, <1>4, <2>3, <2>4, <2>6, <2>9 DEF Streams
  <2> QED
    BY <2>4, <2>10, BothEnds
<1> QED
  BY <1>2, <1>6, <1>7, <1>8

\* No Flush is next: resync sends one only after a reconnect.
LEMMA NextIsNoFlush ==
    ASSUME Inv, NEW e \in End, CanReceive(e), Singles(Peer(e))
    PROVE  Head(incoming[e]).kind # "Flush"
<1>1. /\ TypeOK /\ Peer(e) \in End /\ Peer(Peer(e)) = e /\ incoming[e] # <<>>
      /\ incoming[e] \in Seq(Envelope)
  BY Kinds, Values DEF Inv, CanReceive
<1>2. PICK s, q : s = incoming[e] /\ q = Queue(Peer(e))
  OBVIOUS
<1>3. s # <<>> /\ s \in Seq(Envelope)
  BY <1>1, <1>2
<1>4. 1 \in 1 .. Len(s) /\ Head(s) = s[1]
  <2>1. Len(s) \in Nat /\ Len(s) > 0
    BY <1>3, LenProperties, EmptySeq
  <2> QED
    BY <1>3, <2>1, HeadTailProperties
<1>5. DOMAIN q = 1 .. Len(q) /\ Len(s) <= Len(q) /\ Len(s) \in Nat /\ Len(q) \in Nat
      /\ \A i \in 1 .. Len(s) : q[i] = s[i]
  BY <1>1, <1>2, Queues
<1>6. 1 \in DOMAIN q /\ q[1] = s[1]
  BY <1>4, <1>5
<1>7. q[1].kind # "Flush"
  BY <1>2, <1>6 DEF Singles, Fresh
<1> QED
  BY <1>2, <1>4, <1>6, <1>7

\* What the receive task notes of what it takes.
LEMMA Noted ==
    ASSUME TypeOK, NEW e \in End, CanReceive(e), incoming' = [incoming EXCEPT ![e] = Tail(@)],
           \/ Head(incoming[e]).kind = "RemoteStarted" /\ UNCHANGED <<maxReceived, received>>
           \/ /\ Head(incoming[e]).kind \notin {"Flush", "RemoteStarted"}
              /\ Dispatch(e, Head(incoming[e]))
    PROVE  /\ Received(Peer(e))' = Received(Peer(e)) /\ incoming'[Peer(e)] = incoming[Peer(e)]
           /\ Received(e)' = Received(e) \union (IF Head(incoming[e]).kind \notin ControlKind
                                                 THEN {Head(incoming[e]).id} ELSE {})
<1>1. incoming[e] # <<>>
  BY DEF CanReceive
<1>2. Gets(e, TRUE)
  BY <1>1 DEF Gets
<1> QED
  BY <1>2, Getting

\* An envelope is taken, and an answer sent that is no reply of a stream.
LEMMA TakesAndSays ==
    ASSUME Inv, TypeOK', Connected, \A d \in End : Streams(d) /\ Singles(d), NEW e \in End,
           CanReceive(e), incoming' = [incoming EXCEPT ![e] = Tail(@)],
           Head(incoming[e]).kind # "Item",
           Received(Peer(e))' = Received(Peer(e)), incoming'[Peer(e)] = incoming[Peer(e)],
           Received(e)' = Received(e) \union (IF Head(incoming[e]).kind \notin ControlKind
                                              THEN {Head(incoming[e]).id} ELSE {}),
           NEW m \in Envelope, Put(e, <<m>>), m.kind \notin {"Item", "EndStream", "Flush"},
           m.kind \notin ControlKind => m.id = nextId[e],
           nextId' = [nextId EXCEPT ![e] = @ + 1],
           UNCHANGED <<streamChannels, answers, running, sending>>
    PROVE  \A d \in End : Streams(d)' /\ Singles(d)'
<1> DEFINE p == Peer(e)
<1>1. TypeOK /\ p \in End /\ p # e /\ Peer(p) = e
  BY Kinds DEF Inv
<1>2. outgoing'[p] = outgoing[p]
  BY <1>1, PutsOne
<1>3. nextId[e] <= nextId'[e] /\ nextId'[p] = nextId[p]
  <2>1. nextId'[e] = nextId[e] + 1 /\ nextId'[p] = nextId[p] /\ nextId[e] \in Nat
    BY <1>1, Drawing, Values
  <2> QED
    BY <2>1
<1>4. Streams(e)'
  BY <1>1, <1>2, StreamsTake
<1>5. Singles(p)'
  BY <1>1, <1>2, <1>3, SinglesTake
<1>6. Streams(p)'
  BY <1>1, StreamsSay
<1>7. Singles(e)'
  BY <1>3, SinglesSay
<1> QED
  BY <1>4, <1>5, <1>6, <1>7, BothEnds

\* An announcement is acknowledged.
LEMMA ControlStreams ==
    ASSUME Inv, TypeOK', Connected, \A d \in End : Streams(d) /\ Singles(d),
           NEW e \in End, HandleRemoteStarted(e)
    PROVE  \A d \in End : Streams(d)' /\ Singles(d)'
<1>0. PICK m : m = Head(incoming[e])
  OBVIOUS
<1>1. TypeOK /\ CanReceive(e) /\ m.kind = "RemoteStarted"
  BY <1>0 DEF Inv, HandleRemoteStarted
<1>2. m.id \in Nat
  BY <1>0, <1>1, NextEnvelope
<1>3. PICK ack : ack = Env(nextId[e], "Ack", m.id, None, 0)
  OBVIOUS
<1>4. ack \in Envelope /\ ack.kind = "Ack"
  <2>1. nextId[e] \in Nat /\ "Ack" \in Kind /\ m.id \in Id /\ None \in Id /\ 0 \in Nat
    BY <1>1, <1>2, Values, Kinds
  <2> QED
    BY <1>3, <2>1 DEF Env, Envelope
<1>5. /\ incoming' = [incoming EXCEPT ![e] = Tail(@)] /\ Put(e, <<ack>>)
      /\ nextId' = [nextId EXCEPT ![e] = @ + 1]
      /\ UNCHANGED <<maxReceived, streamChannels, running, sending, received, answers>>
  BY <1>0, <1>3 DEF HandleRemoteStarted, Receive, DrawId, channels, tasks, history
<1>6. /\ Received(Peer(e))' = Received(Peer(e)) /\ incoming'[Peer(e)] = incoming[Peer(e)]
      /\ Received(e)' = Received(e) \union (IF Head(incoming[e]).kind \notin ControlKind
                                            THEN {Head(incoming[e]).id} ELSE {})
  BY <1>0, <1>1, <1>5, Noted
<1>7. /\ ack.kind \notin {"Item", "EndStream", "Flush"} /\ ack.kind \in ControlKind
      /\ Head(incoming[e]).kind # "Item"
  BY <1>0, <1>1, <1>4, Kinds
<1> QED
  BY <1>1, <1>4, <1>5, <1>6, <1>7, TakesAndSays

\* A request that nobody handles is answered with an error, which is no reply of a stream.
LEMMA UnknownStreams ==
    ASSUME Inv, TypeOK', Connected, \A d \in End : Streams(d) /\ Singles(d),
           NEW e \in End, HandleUnknown(e)
    PROVE  \A d \in End : Streams(d)' /\ Singles(d)'
<1>0. PICK m : m = Head(incoming[e])
  OBVIOUS
<1>1. TypeOK /\ CanReceive(e) /\ m.kind = "Unknown" /\ Dispatch(e, m)
  BY <1>0 DEF Inv, HandleUnknown
<1>2. m.id \in Nat
  BY <1>0, <1>1, NextEnvelope
<1>3. PICK env : env = Env(nextId[e], "Response", m.id, m.id, 0)
  OBVIOUS
<1>4. env \in Envelope /\ env.kind = "Response" /\ env.id = nextId[e]
  <2>1. nextId[e] \in Nat /\ "Response" \in Kind /\ m.id \in Id /\ 0 \in Nat
    BY <1>1, <1>2, Values, Kinds
  <2> QED
    BY <1>3, <2>1 DEF Env, Envelope
<1>5. /\ incoming' = [incoming EXCEPT ![e] = Tail(@)] /\ Put(e, <<env>>)
      /\ nextId' = [nextId EXCEPT ![e] = @ + 1]
      /\ UNCHANGED <<streamChannels, running, sending, answers>>
  BY <1>0, <1>3 DEF HandleUnknown, Receive, SendBuffered, channels, tasks
<1>6. /\ Received(Peer(e))' = Received(Peer(e)) /\ incoming'[Peer(e)] = incoming[Peer(e)]
      /\ Received(e)' = Received(e) \union (IF Head(incoming[e]).kind \notin ControlKind
                                            THEN {Head(incoming[e]).id} ELSE {})
  BY <1>0, <1>1, <1>5, Noted
<1>7. /\ env.kind \notin {"Item", "EndStream", "Flush"}
      /\ Head(incoming[e]).kind # "Item"
  BY <1>0, <1>1, <1>4
<1> QED
  BY <1>1, <1>4, <1>5, <1>6, <1>7, TakesAndSays

\* A handler starts: what it is for is received just now, and nobody has replied to it.
LEMMA MessageStreams ==
    ASSUME Inv, Connected, \A d \in End : Streams(d) /\ Singles(d),
           NEW e \in End, HandleMessage(e)
    PROVE  \A d \in End : Streams(d)' /\ Singles(d)'
<1> DEFINE p == Peer(e)
<1>0. PICK m : m = Head(incoming[e])
  OBVIOUS
<1>1. /\ TypeOK /\ p \in End /\ p # e /\ Peer(p) = e /\ CanReceive(e) /\ Dispatch(e, m)
      /\ m.kind \in AppKind
  BY <1>0, Kinds DEF Inv, HandleMessage
<1>2. m.kind \notin {"Flush", "RemoteStarted", "Item"} /\ m.kind \notin ControlKind
  BY <1>1, Kinds
<1>3. /\ incoming' = [incoming EXCEPT ![e] = Tail(@)]
      /\ UNCHANGED <<nextId, streamChannels, outgoing, sending, answers>>
  BY <1>0 DEF HandleMessage, Receive, channels
<1>4. /\ Received(p)' = Received(p) /\ incoming'[p] = incoming[p]
      /\ Received(e)' = Received(e) \union (IF Head(incoming[e]).kind \notin ControlKind
                                            THEN {Head(incoming[e]).id} ELSE {})
  BY <1>0, <1>1, <1>2, <1>3, Noted
<1>5. outgoing'[p] = outgoing[p] /\ Queue(e)' = Queue(e)
  BY <1>3, <1>4, QueueStays
<1>6. m.id \notin Received(e)
  BY <1>0, <1>1, <1>2, <1>3, <1>5, TakesOne
<1>7. PICK h : h = [re |-> m.id, kind |-> m.kind, item |-> 0, call |-> Len(received[e]) + 1]
  OBVIOUS
<1>8. h.re = m.id /\ h.item = 0
  BY <1>7
<1>9. running' = running \/ running' = [running EXCEPT ![e] = @ \union {h}]
  BY <1>0, <1>7 DEF HandleMessage
<1>10. running'[p] = running[p] /\ (running'[e] = running[e] \/ running'[e] = running[e] \union {h})
  <2>1. DOMAIN running = End
    BY <1>1 DEF TypeOK
  <2> QED
    BY <1>1, <1>9, <2>1
<1>11. Singles(p)'
  BY <1>0, <1>1, <1>3, <1>4, <1>5, SinglesTake
<1>12. Singles(e)'
  BY <1>3, <1>4, <1>5, SinglesStay
<1>13. Streams(e)'
  BY <1>0, <1>1, <1>2, <1>3, <1>5, <1>10, StreamsTake
<1>14. Streams(p)'
  <2>1. PICK a, c, q, R : a = answers[p] /\ c = streamChannels[p] /\ q = Queue(e) /\ R = running[e]
    OBVIOUS
  <2>2. Streaming(a, c, q, R)
    BY <1>1, <2>1 DEF Streams
  <2>3. \A g \in R : g.re # h.re
    BY <1>6, <1>8, <2>1 DEF Inv, Handlers
  <2>4. ASSUME NEW j \in DOMAIN q, q[j].kind = "Item" PROVE q[j].re # h.re
    <3>1. Right(e, q[j])
      BY <2>1, QueueIds
    <3>2. q[j].re \in Received(e)
      BY <2>4, <3>1, Kinds DEF Right
    <3> QED
      BY <1>6, <1>8, <3>2
  <2>5. ASSUME h.re \in c, NEW j \in DOMAIN a, a[j].kind = "Item" PROVE a[j].re # h.re
    <3>1. Given(p, a[j]) /\ Channels(p)
      BY <1>1, <2>1 DEF Inv, AllGiven
    <3>2. ASSUME a[j].re = h.re PROVE FALSE
      <4>1. a[j].re \notin Received(e)
        BY <1>6, <1>8, <3>2
      <4>2. \A x \in Used(p) : x.id # h.re
        BY <1>1, <3>1, <3>2, <4>1 DEF Given
      <4>3. [id |-> h.re, kind |-> "Stream"] \in Used(p)
        BY <2>1, <2>5, <3>1 DEF Channels
      <4>4. PICK x \in Used(p) : x.id = h.re
        BY <4>3
      <4> QED
        BY <4>2, <4>4
    <3> QED
      BY <3>2
  <2>6. a \in Seq([re : Id, kind : Kind, item : Nat]) /\ q \in Seq(Envelope)
    BY <1>1, <2>1, Values, Queues
  <2>7. Streaming(a, c, q, R \union {h})
    BY <1>8, <2>2, <2>3, <2>4, <2>5, <2>6, StreamingRuns
  <2> QED
    BY <1>1, <1>3, <1>5, <1>10, <2>1, <2>2, <2>7 DEF Streams
<1> QED
  BY <1>11, <1>12, <1>13, <1>14, BothEnds

\* A response: to a stream it is the next answer, to a request it is no reply of a stream.
LEMMA ResponseStreams ==
    ASSUME Inv, Connected, \A d \in End : Streams(d) /\ Singles(d),
           NEW e \in End, HandleResponse(e)
    PROVE  \A d \in End : Streams(d)' /\ Singles(d)'
<1> DEFINE p == Peer(e)
           A == [re : Id, kind : Kind, item : Nat]
<1>0. PICK m : m = Head(incoming[e])
  OBVIOUS
<1>1. /\ TypeOK /\ p \in End /\ p # e /\ Peer(p) = e /\ CanReceive(e) /\ Dispatch(e, m)
      /\ m.kind \in ReplyKind \union {"Ack"}
  BY <1>0, Kinds DEF Inv, HandleResponse
<1>2. m.kind \notin {"Flush", "RemoteStarted"}
  BY <1>1, Kinds
<1>3. /\ incoming' = [incoming EXCEPT ![e] = Tail(@)]
      /\ UNCHANGED <<nextId, outgoing, running, sending>>
  BY <1>0 DEF HandleResponse, Receive
<1>4. /\ Received(p)' = Received(p) /\ incoming'[p] = incoming[p]
      /\ Received(e)' = Received(e) \union (IF Head(incoming[e]).kind \notin ControlKind
                                            THEN {Head(incoming[e]).id} ELSE {})
  BY <1>0, <1>1, <1>2, <1>3, Noted
<1>5. outgoing'[p] = outgoing[p] /\ Queue(e)' = Queue(e)
  BY <1>3, <1>4, QueueStays
<1>6. PICK a, c, q, R : a = answers[e] /\ c = streamChannels[e] /\ q = Queue(p) /\ R = running[p]
  OBVIOUS
<1>7. q \in Seq(Envelope) /\ q # <<>> /\ Head(q) = m /\ Queue(p)' = Tail(q) /\ Right(p, m) /\ m \in Envelope
  BY <1>0, <1>1, <1>3, <1>5, <1>6, TakesOne
<1>8. Streaming(a, c, q, R) /\ a \in Seq(A)
  BY <1>1, <1>6, Values DEF Streams
<1>9. PICK x : x = Answer(m)
  OBVIOUS
<1>10. x \in A /\ x.re = m.re /\ x.kind = m.kind /\ x.item = m.item
  <2>1. m.re \in Id /\ m.kind \in Kind /\ m.item \in Nat
    BY <1>7 DEF Envelope
  <2> QED
    BY <1>9, <2>1 DEF Answer
<1>11. m.re \in responseChannels[e] => m.kind \notin {"Item", "EndStream"}
  <2>1. ASSUME m.re \in responseChannels[e], m.kind \in {"Item", "EndStream"} PROVE FALSE
    <3>1. m.kind \in ReplyKind /\ m.kind # "Response"
      BY <2>1, Kinds
    <3>2. PICK y \in Used(e) : y.id = m.re /\ y.kind = "Stream"
      BY <1>1, <1>7, <3>1 DEF Right
    <3>3. \A z \in Used(e) : z.id = m.re => z.kind \in {"Request", "Unknown"}
      BY <2>1 DEF Inv, Channels
    <3> QED
      BY <3>2, <3>3
  <2> QED
    BY <2>1
<1>12. PICK b, d : b = answers'[e] /\ d = streamChannels'[e]
  OBVIOUS
<1>13. /\ d \subseteq c /\ streamChannels'[p] = streamChannels[p] /\ answers'[p] = answers[p]
       /\ \/ b = Append(a, x) /\ (m.re \in responseChannels[e] \/ m.re \in c)
          \/ b = a /\ m.re \notin c
  <2>1. /\ \/ streamChannels' = [streamChannels EXCEPT ![e] = @ \ {m.re}]
           \/ streamChannels' = streamChannels
        /\ \/ answers' = [answers EXCEPT ![e] = Append(@, x)]
              /\ (m.re \in responseChannels[e] \/ m.re \in streamChannels[e])
           \/ answers' = answers /\ m.re \notin streamChannels[e]
    BY <1>0, <1>9 DEF HandleResponse
  <2>2. DOMAIN streamChannels = End /\ DOMAIN answers = End
    BY <1>1 DEF TypeOK
  <2>3. d \subseteq c /\ streamChannels'[p] = streamChannels[p]
    BY <1>1, <1>6, <1>12, <2>1, <2>2
  <2>4. /\ answers'[p] = answers[p]
        /\ \/ b = Append(a, x) /\ (m.re \in responseChannels[e] \/ m.re \in c)
           \/ b = a /\ m.re \notin c
    BY <1>1, <1>6, <1>12, <2>1, <2>2
  <2> QED
    BY <2>3, <2>4
<1>14. Streams(e)'
  <2>1. \/ b = a /\ (Head(q).re \notin d \/ Head(q).kind # "Item")
        \/ \E y \in A : /\ b = Append(a, y)
                        /\ y.re = Head(q).re /\ y.kind = Head(q).kind /\ y.item = Head(q).item
                        /\ y.re \in c \/ y.kind \notin {"Item", "EndStream"}
    <3>1. CASE b = a /\ m.re \notin c
      BY <1>7, <1>13, <3>1
    <3>2. CASE b = Append(a, x) /\ (m.re \in responseChannels[e] \/ m.re \in c)
      <4>1. x.re \in c \/ x.kind \notin {"Item", "EndStream"}
        BY <1>10, <1>11, <3>2
      <4>2. x.re = Head(q).re /\ x.kind = Head(q).kind /\ x.item = Head(q).item
        BY <1>7, <1>10
      <4> HIDE DEF A
      <4> QED
        BY <1>10, <3>2, <4>1, <4>2
    <3> QED
      BY <1>13, <3>1, <3>2
  <2> HIDE DEF A
  <2>2. d \in SUBSET c
    BY <1>13
  <2>3. Streaming(b, d, Tail(q), R)
    BY <1>7, <1>8, <2>1, <2>2, StreamingTakes
  <2> QED
    BY <1>3, <1>6, <1>7, <1>12, <2>3 DEF Streams
<1>15. Singles(p)'
  BY <1>0, <1>1, <1>3, <1>4, <1>5, SinglesTake
<1>16. Singles(e)'
  BY <1>3, <1>4, <1>5, SinglesStay
<1>17. Streams(p)'
  <2>1. Streams(p) /\ running'[e] = running[e]
    BY <1>1, <1>3
  <2> QED
    BY <1>1, <1>5, <1>13, <2>1, StreamsStay
<1> QED
  BY <1>14, <1>15, <1>16, <1>17, BothEnds

\* Streams are polled or dropped, envelopes cross, the server accepts: no stream is disturbed.
LEMMA RestStreams ==
    ASSUME \A d \in End : Streams(d) /\ Singles(d),
           \A d \in End : Queue(d)' = Queue(d) /\ streamChannels'[d] \subseteq streamChannels[d],
           UNCHANGED <<nextId, received, answers, running, sending>>
    PROVE  \A d \in End : Streams(d)' /\ Singles(d)'
<1> SUFFICES ASSUME NEW d \in End PROVE Streams(d)' /\ Singles(d)'
  OBVIOUS
<1>1. Peer(d) \in End
  BY Kinds
<1>2. Received(Peer(d))' = Received(Peer(d))
  BY DEF Received
<1> QED
  BY <1>1, <1>2, StreamsStay, SinglesStay

\* Until the first cut and while the link is up, every step keeps the streams.
LEMMA ConnectedStep ==
    ASSUME Inv, TypeOK', Connected, \A d \in End : Streams(d) /\ Singles(d), [Next]_vars,
           conn' = 1, link' = "up"
    PROVE  Connected' /\ \A d \in End : Streams(d)' /\ Singles(d)'
<1>0. TypeOK /\ conn = 1 /\ attached \in {0, 1} /\ link = "up" /\ ~ flushDue /\ flushId = None
  BY DEF Inv, Connected
<1>1. ASSUME UNCHANGED <<transport, resync>> PROVE Connected'
  BY <1>0, <1>1 DEF Connected, transport, resync
<1>2. ASSUME NEW e \in End, SendStep(e)
      PROVE  Connected' /\ \A d \in End : Streams(d)' /\ Singles(d)'
  <2>1. ASSUME NEW k \in AppKind, Send(e, k)
        PROVE  Connected' /\ \A d \in End : Streams(d)' /\ Singles(d)'
    BY <1>1, <2>1, SendNowStreams DEF Send, SendNow
  <2>2. ASSUME NEW k \in AppKind, SendAllocate(e, k)
        PROVE  Connected' /\ \A d \in End : Streams(d)' /\ Singles(d)'
    BY <1>1, <2>2, AllocateStreams DEF SendAllocate
  <2>3. ASSUME NEW s \in sending[e], SendKeep(e, s)
        PROVE  Connected' /\ \A d \in End : Streams(d)' /\ Singles(d)'
    BY <1>1, <2>3, KeepStreams DEF SendKeep
  <2>4. ASSUME NEW s \in sending[e], SendEmit(e, s)
        PROVE  Connected' /\ \A d \in End : Streams(d)' /\ Singles(d)'
    BY <1>1, <2>4, EmitStreams DEF SendEmit
  <2> QED
    BY <1>2, <2>1, <2>2, <2>3, <2>4 DEF SendStep
<1>3. ASSUME NEW e \in End, Announce(e)
      PROVE  Connected' /\ \A d \in End : Streams(d)' /\ Singles(d)'
  BY <1>1, <1>3, AnnounceStreams DEF Announce
<1>4. ASSUME NEW e \in End, ReceiveStep(e)
      PROVE  Connected' /\ \A d \in End : Streams(d)' /\ Singles(d)'
  <2>1. ~ HandleFlush(e)
    <3>1. Singles(Peer(e))
      BY Kinds
    <3> QED
      BY <3>1, NextIsNoFlush DEF HandleFlush
  <2>2. ~ HandleFlushed(e)
    BY <1>0 DEF HandleFlushed
  <2>3. CASE HandleRemoteStarted(e)
    BY <1>1, <2>3, ControlStreams DEF HandleRemoteStarted
  <2>4. CASE HandleResponse(e)
    BY <1>1, <2>4, ResponseStreams DEF HandleResponse
  <2>5. CASE HandleMessage(e)
    BY <1>1, <2>5, MessageStreams DEF HandleMessage
  <2>6. CASE HandleUnknown(e)
    BY <1>1, <2>6, UnknownStreams DEF HandleUnknown
  <2> QED
    BY <1>4, <2>1, <2>2, <2>3, <2>4, <2>5, <2>6 DEF ReceiveStep
<1>5. ASSUME NEW e \in End, HandlerStep(e)
      PROVE  Connected' /\ \A d \in End : Streams(d)' /\ Singles(d)'
  <2>1. UNCHANGED <<transport, resync>>
    BY <1>5 DEF HandlerStep, Respond, SendItem, EndOfStream, Reply
  <2> QED
    BY <1>1, <1>5, <2>1, HandlerStreams
<1>6. ASSUME NEW e \in End, PollStream(e) \/ \E id \in streamChannels[e] : DropStream(e, id)
      PROVE  Connected' /\ \A d \in End : Streams(d)' /\ Singles(d)'
  <2>1. /\ UNCHANGED <<transport, resync>>
        /\ UNCHANGED <<nextId, received, answers, running, sending, outgoing, incoming>>
    BY <1>6 DEF PollStream, DropStream, ids, history
  <2>2. \A d \in End : streamChannels'[d] \subseteq streamChannels[d]
    <3>1. CASE PollStream(e)
      BY <3>1 DEF PollStream, channels
    <3>2. ASSUME NEW id, DropStream(e, id)
          PROVE  \A d \in End : streamChannels'[d] \subseteq streamChannels[d]
      BY <1>0, <3>2 DEF DropStream, TypeOK
    <3> QED
      BY <1>6, <3>1, <3>2
  <2>3. \A d \in End : Queue(d)' = Queue(d)
    BY <2>1 DEF Queue
  <2> QED
    BY <1>1, <2>1, <2>2, <2>3, RestStreams
<1>7. ASSUME NEW e \in End, Transmit(e)
      PROVE  Connected' /\ \A d \in End : Streams(d)' /\ Singles(d)'
  <2>1. /\ UNCHANGED <<transport, resync>>
        /\ UNCHANGED <<nextId, received, answers, running, sending, streamChannels>>
    BY <1>7 DEF Transmit, ids, history, channels, tasks
  <2>2. \A d \in End : Queue(d)' = Queue(d)
    BY <1>0, <1>7, TransmitRests
  <2> QED
    BY <1>1, <2>1, <2>2, RestStreams
<1>8. CASE Detach \/ Accept
  <2>1. /\ UNCHANGED <<conn, link, resync>> /\ attached' \in {0, 1}
        /\ UNCHANGED <<nextId, received, answers, running, sending, streamChannels, outgoing, incoming>>
    BY <1>0, <1>8 DEF Detach, Accept, ids, history, channels, tasks
  <2>2. Connected'
    BY <1>0, <2>1 DEF Connected, resync
  <2>3. \A d \in End : Queue(d)' = Queue(d)
    BY <2>1 DEF Queue
  <2> QED
    BY <2>1, <2>2, <2>3, RestStreams
<1>9. ~ LoseOutgoing
  BY <1>0 DEF LoseOutgoing, Attached
<1>10. ~ Cut /\ ~ Reconnect /\ ~ Resync /\ ~ ResyncTimeout
  BY <1>0 DEF Cut, Break, Reconnect, Resync, ResyncTimeout
<1>11. CASE Ping
  <2>1. SendNow("client", "Request") /\ "Request" \in AppKind /\ "client" \in End
    BY <1>11, Kinds DEF Ping
  <2>2. UNCHANGED <<transport, resync>>
    BY <2>1 DEF SendNow
  <2> QED
    BY <1>1, <2>1, <2>2, SendNowStreams
<1>12. CASE UNCHANGED vars
  <2>1. /\ UNCHANGED <<transport, resync>>
        /\ UNCHANGED <<nextId, received, answers, running, sending, streamChannels, outgoing, incoming>>
    BY <1>12 DEF vars, transport, resync
  <2>2. \A d \in End : Queue(d)' = Queue(d)
    BY <2>1 DEF Queue
  <2> QED
    BY <1>1, <2>1, <2>2, RestStreams
<1> QED
  BY <1>2, <1>3, <1>4, <1>5, <1>6, <1>7, <1>8, <1>9, <1>10, <1>11, <1>12 DEF Next

\* Connections are made and broken by the connection's own steps.
LEMMA ConnectionStays ==
    ASSUME [Next]_vars
    PROVE  \/ UNCHANGED <<conn, link>>
           \/ Reconnect
           \/ Break /\ UNCHANGED conn
<1>1. ASSUME NEW e \in End, SendStep(e) PROVE UNCHANGED <<conn, link>>
  BY <1>1 DEF SendStep, Send, SendNow, SendAllocate, SendKeep, SendEmit, transport
<1>2. ASSUME NEW e \in End, Announce(e) \/ ReceiveStep(e) PROVE UNCHANGED <<conn, link>>
  BY <1>2 DEF Announce, ReceiveStep, HandleFlush, HandleRemoteStarted, HandleFlushed,
              HandleResponse, HandleMessage, HandleUnknown, transport
<1>3. ASSUME NEW e \in End, HandlerStep(e) PROVE UNCHANGED <<conn, link>>
  BY <1>3 DEF HandlerStep, Respond, SendItem, EndOfStream, Reply, transport
<1>4. ASSUME NEW e \in End, PollStream(e) \/ Transmit(e) \/ \E id \in streamChannels[e] : DropStream(e, id)
      PROVE  UNCHANGED <<conn, link>>
  BY <1>4 DEF PollStream, DropStream, Transmit, transport
<1>5. CASE LoseOutgoing \/ Detach \/ Accept \/ Ping \/ Resync \/ UNCHANGED vars
  BY <1>5 DEF LoseOutgoing, Detach, Accept, Ping, SendNow, Resync, transport, vars
<1>6. CASE Cut \/ ResyncTimeout
  BY <1>6 DEF Cut, ResyncTimeout
<1> QED
  BY <1>1, <1>2, <1>3, <1>4, <1>5, <1>6 DEF Next

\* It starts so ...
LEMMA StreamsHoldInit == Init => StreamsHold
<1> SUFFICES ASSUME Init PROVE StreamsHold
  OBVIOUS
<1>1. Inv /\ conn > 0 /\ Connected
  BY InvInit DEF Init, Connected
<1>2. \A d \in End : /\ outgoing[d] = <<>> /\ incoming[d] = <<>> /\ answers[d] = <<>>
                     /\ running[d] = {} /\ sending[d] = {} /\ received[d] = <<>>
  BY DEF Init
<1>3. <<>> \o <<>> = <<>> /\ DOMAIN <<>> = {}
  OBVIOUS
<1>4. ASSUME NEW d \in End PROVE Streams(d) /\ Singles(d)
  <2>1. Peer(d) \in End
    BY Kinds
  <2>2. Queue(d) = <<>> /\ Queue(Peer(d)) = <<>>
    BY <1>2, <1>3, <2>1, Kinds DEF Queue
  <2>3. Received(Peer(d)) = {}
    BY <1>2, <1>3, <2>1 DEF Received
  <2>4. Streams(d)
    BY <1>2, <1>3, <2>1, <2>2 DEF Streams, Streaming
  <2>5. Singles(d)
    BY <1>2, <1>3, <2>2, <2>3 DEF Singles, Fresh
  <2> QED
    BY <2>4, <2>5
<1> QED
  BY <1>1, <1>4 DEF StreamsHold

\* ... every step keeps it ...
LEMMA StreamsHoldStep == StreamsHold /\ [Next]_vars => StreamsHold'
<1> SUFFICES ASSUME StreamsHold, [Next]_vars PROVE StreamsHold'
  OBVIOUS
<1>1. Inv /\ Inv' /\ TypeOK'
  BY InvStep DEF StreamsHold, Inv
<1>2. /\ conn' = conn \/ conn' = conn + 1
      /\ link' = "up" => link = "up" \/ conn' = conn + 1
  <2>1. CASE UNCHANGED <<conn, link>>
    BY <2>1
  <2>3. CASE Reconnect
    BY <2>3 DEF Reconnect
  <2>4. UNCHANGED <<conn, link>> \/ Reconnect \/ (Break /\ UNCHANGED conn)
    BY ConnectionStays
  <2>5. CASE Break /\ UNCHANGED conn
    BY <2>5 DEF Break
  <2> QED
    BY <2>1, <2>3, <2>4, <2>5
<1>3. conn \in Nat /\ conn > 0
  BY <1>1 DEF StreamsHold, Inv, TypeOK
<1>4. conn' > 0 /\ (conn' = 1 /\ link' = "up" => conn = 1 /\ link = "up")
  BY <1>2, <1>3
<1>5. ASSUME conn' = 1, link' = "up"
      PROVE  Connected' /\ \A d \in End : Streams(d)' /\ Singles(d)'
  <2>1. Connected /\ \A d \in End : Streams(d) /\ Singles(d)
    BY <1>4, <1>5 DEF StreamsHold
  <2> QED
    BY <1>1, <1>5, <2>1, ConnectedStep
<1> QED
  BY <1>1, <1>4, <1>5 DEF StreamsHold

\* ... and it says what is promised.
LEMMA StreamsHoldMeans == StreamsHold /\ conn = 1 /\ link = "up" => StreamsAreWhole
<1> SUFFICES ASSUME StreamsHold, conn = 1, link = "up",
                    NEW e \in End, NEW j \in DOMAIN answers[e], answers[e][j].kind = "EndStream"
             PROVE  LET before == {i \in 1 .. j - 1 : /\ answers[e][i].re = answers[e][j].re
                                                      /\ answers[e][i].kind = "Item"}
                    IN  /\ {answers[e][i].item : i \in before} = 1 .. StreamLength
                        /\ \A i, k \in before : i < k => answers[e][i].item < answers[e][k].item
  BY DEF StreamsAreWhole
<1>1. Inv /\ TypeOK /\ Streams(e)
  BY DEF StreamsHold, Inv
<1>2. PICK a, r : a = answers[e] /\ r = a[j].re
  OBVIOUS
<1>3. a \in Seq([re : Id, kind : Kind, item : Nat])
  BY <1>1, <1>2, Values
<1>4. DOMAIN a = 1 .. Len(a) /\ Len(a) \in Nat /\ \A i \in DOMAIN a : a[i].item \in Nat
  <2>1. DOMAIN a = 1 .. Len(a) /\ Len(a) \in Nat
    BY <1>3, LenProperties
  <2>2. \A i \in DOMAIN a : a[i] \in [re : Id, kind : Kind, item : Nat]
    BY <1>3, <2>1, ElementOfSeq
  <2> QED
    BY <2>1, <2>2
<1>5. \A i \in DOMAIN a : Whole(a, i, {})
  BY <1>1, <1>2 DEF Streams, Streaming
<1> DEFINE before == {i \in 1 .. j - 1 : a[i].re = r /\ a[i].kind = "Item"}
<1>6. {a[i].item : i \in before} = 1 .. StreamLength
  <2>1. Whole(a, j, {})
    BY <1>2, <1>5
  <2>2. {} \union Items(a, j - 1, r) = 1 .. StreamLength
    BY <1>2, <2>1 DEF Whole
  <2> QED
    BY <2>2 DEF Items
<1>7. ASSUME NEW i \in before, NEW k \in before, i < k PROVE a[i].item < a[k].item
  <2>1. k \in DOMAIN a /\ i \in DOMAIN a /\ i \in 1 .. k - 1
    BY <1>2, <1>4, <1>7
  <2>2. {} \union Items(a, k - 1, r) = 1 .. (a[k].item - 1)
    BY <1>5, <2>1 DEF Whole
  <2>3. a[i].item \in Items(a, k - 1, r)
    BY <2>1 DEF Items
  <2> QED
    BY <1>4, <2>1, <2>2, <2>3
<1> QED
  BY <1>2, <1>6, <1>7

\* Until the connection is cut, a stream that ends has yielded all its items, in order,
\* whatever else is sent, on the foreground or from other threads.
THEOREM StreamsAreWholeUntilACut == Spec => [](conn = 1 /\ link = "up" => StreamsAreWhole)
<1>1. Init => StreamsHold
  BY StreamsHoldInit
<1>2. StreamsHold /\ [Next]_vars => StreamsHold'
  BY StreamsHoldStep
<1>3. StreamsHold => (conn = 1 /\ link = "up" => StreamsAreWhole)
  BY StreamsHoldMeans
<1> QED
  BY <1>1, <1>2, <1>3, PTL DEF Spec

\* Where no connection is ever cut, that is always.
THEOREM StreamsAreWholeOverOneConnection ==
    ASSUME MaxConnections = 1 PROVE Spec => []StreamsAreWhole
<1> DEFINE Uncut == StreamsHold /\ conn = 1 /\ link = "up"
<1>1. Init => Uncut
  BY StreamsHoldInit DEF Init
<1>2. Uncut /\ [Next]_vars => Uncut'
  <2> SUFFICES ASSUME Uncut, [Next]_vars PROVE Uncut'
    OBVIOUS
  <2>1. ~ Break /\ ~ Reconnect
    BY DEF Break, Reconnect
  <2>2. conn' = 1 /\ link' = "up"
    BY <2>1, ConnectionStays
  <2> QED
    BY <2>2, StreamsHoldStep
<1>3. Uncut => StreamsAreWhole
  BY StreamsHoldMeans
<1> QED
  BY <1>1, <1>2, <1>3, PTL DEF Spec
=============================================================================
