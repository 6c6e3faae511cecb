----------------------------- MODULE PeerProofs -----------------------------
(***************************************************************************)
(* The safety properties of Peer, and that each of its steps is one of     *)
(* Requests, for any number of callers, envelopes and places in a channel. *)
(***************************************************************************)
EXTENDS Peer, TLAPS, SequenceTheorems

Item == Envelope \union {Closed}

\* What there is in the channel of a request.
For(r) == {e \in Envelope : e.to = r} \union (IF r \in Streaming THEN {Closed} ELSE {})

\* No table of requests is Taken, and what is left of a table is one.
LEMMA TableTypes ==
    ASSUME NEW R, R \subseteq Callers, NEW table \in (SUBSET R) \union {Taken}
    PROVE  /\ table # Taken => table \subseteq R
           /\ \A r : /\ Without(table, r) \in (SUBSET R) \union {Taken}
                     /\ Without(table, r) = Taken <=> table = Taken
           /\ \A r \in R : table # Taken => /\ table \union {r} \in SUBSET R
                                            /\ table \union {r} # Taken
<1>1. NoRequest \in Taken /\ NoRequest \notin R
  BY NoRequestAssumption DEF Taken
<1>2. \A T \in SUBSET R : T # Taken
  BY <1>1
<1>3. table # Taken => table \subseteq R
  OBVIOUS
<1>4. ASSUME NEW r, table # Taken PROVE table \ {r} \in SUBSET R
  BY <1>3, <1>4
<1>5. ASSUME NEW r \in R, table # Taken PROVE table \union {r} \in SUBSET R
  BY <1>3, <1>5
<1> QED
  BY <1>2, <1>3, <1>4, <1>5 DEF Without

\* What the operations on a channel leave in it.
LEMMA ChannelTypes ==
    ASSUME NEW S, NEW q \in Seq(S)
    PROVE  /\ <<>> \in Seq(S)
           /\ Len(q) \in Nat /\ Len(<<>>) = 0
           /\ \A x \in S : Append(q, x) \in Seq(S) /\ Len(Append(q, x)) = Len(q) + 1
           /\ q # <<>> => /\ Head(q) \in S /\ Tail(q) \in Seq(S)
                          /\ Len(Tail(q)) = Len(q) - 1
           /\ \A i \in DOMAIN q : q[i] \in S
BY HeadTailProperties, AppendProperties, EmptySeq, ElementOfSeq, LenProperties

\* There is nothing in an empty channel.
LEMMA NothingInEmpty == \A i : i \notin DOMAIN <<>>
OBVIOUS

\* The tables are taken at the end of handle_io, one after the other, and not
\* filled again.
TablesAreTaken ==
    /\ responses = Taken <=> io \notin {"running", "failing"}
    /\ streams = Taken <=> io \notin {"running", "failing", "responses taken"}

\* What arrives in a channel is for its request, and the reader holds only
\* answers.
ChannelsAreRight ==
    /\ \A r \in Callers : mailbox[r] \in Seq(For(r))
    /\ reader.at \in {"response", "found", "waiting"} => reader.envelope.to \in Callers

Types == TypeOK /\ TablesAreTaken /\ ChannelsAreRight

\* An envelope has a number and is no Closed; its kind tells what it is for.
LEMMA EnvelopeTypes ==
    /\ Closed \notin Envelope /\ Closed.kind = "closed" /\ Closed.n = 0
    /\ \A e \in Envelope :
        /\ e.n \in 1 .. MaxEnvelopes /\ e.n \in Nat
        /\ e.kind = "message" <=> e.to = NoRequest
        /\ e.kind = "answer" <=> e.to \in Single
        /\ e.kind \in {"item", "end"} <=> e.to \in Streaming
        /\ e.kind \in {"message", "answer", "item", "end"}
<1>1. NoRequest \notin Single /\ NoRequest \notin Streaming /\ Single \cap Streaming = {}
  BY PeerAssumption, NoRequestAssumption DEF Callers
<1>2. 1 .. MaxEnvelopes \subseteq Nat
  BY PeerAssumption
<1> QED
  BY <1>1, <1>2 DEF Closed, Envelope

\* What is in a channel has a type.
LEMMA ItemTypes ==
    ASSUME NEW r \in Callers
    PROVE  /\ For(r) \subseteq Item
           /\ \A e \in For(r) :
                /\ r \in Single => e \in Envelope /\ e.n \in 1 .. MaxEnvelopes
                /\ r \in Streaming => e.kind \in {"item", "end", "closed"}
                /\ e.kind = "closed" <=> e = Closed
                /\ e.kind # "closed" => e.n \in 1 .. MaxEnvelopes
<1>1. Single \cap Streaming = {}
  BY PeerAssumption
<1> QED
  BY <1>1, EnvelopeTypes DEF For, Item

\* The types hold in the beginning.
LEMMA TypesInit == Init => Types
<1> SUFFICES ASSUME Init PROVE Types
  OBVIOUS
<1>1. Single \subseteq Callers /\ Streaming \subseteq Callers
  BY DEF Callers
<1>2. mailbox \in [Callers -> Seq(Envelope \union {Closed})] /\ ChannelsAreRight
  BY <1>1, EmptySeq DEF Init, ChannelsAreRight, Idle
<1>3. responses # Taken /\ streams # Taken
  BY NoRequestAssumption DEF Init, Taken
<1>4. outgoing \in Seq(Callers) /\ incoming \in Seq(Envelope) /\ log \in Seq(1 .. MaxEnvelopes)
  BY EmptySeq DEF Init
<1> QED
  BY <1>2, <1>3, <1>4, PeerAssumption DEF Init, Types, TypeOK, TablesAreTaken, Idle

\* Every step keeps them.
LEMMA TypesStep == Types /\ [Next]_vars => Types'
<1> SUFFICES ASSUME Types, [Next]_vars PROVE Types'
  OBVIOUS
<1> USE DEF Types, TypeOK, TablesAreTaken, ChannelsAreRight, ioVars, tables, callerVars,
        peerVars, Move, Ending
<1>a. Single \subseteq Callers /\ Streaming \subseteq Callers /\ Single \cap Streaming = {}
  BY PeerAssumption DEF Callers
<1>r. /\ \A r : /\ Without(responses, r) \in (SUBSET Single) \union {Taken}
                /\ Without(responses, r) = Taken <=> responses = Taken
      /\ \A r \in Single : responses # Taken => /\ responses \union {r} \in SUBSET Single
                                                /\ responses \union {r} # Taken
  <2>1. responses \in (SUBSET Single) \union {Taken}
    OBVIOUS
  <2> HIDE DEF Types
  <2> QED
    BY <2>1, <1>a, TableTypes
<1>b. /\ \A r : /\ Without(streams, r) \in (SUBSET Streaming) \union {Taken}
                /\ Without(streams, r) = Taken <=> streams = Taken
      /\ \A r \in Streaming : streams # Taken => /\ streams \union {r} \in SUBSET Streaming
                                                 /\ streams \union {r} # Taken
  <2>1. streams \in (SUBSET Streaming) \union {Taken}
    OBVIOUS
  <2> HIDE DEF Types
  <2> QED
    BY <2>1, <1>a, TableTypes
<1>c. \A r \in Callers : \A e \in For(r) : mailbox[r] # <<>> =>
          /\ Head(mailbox[r]) \in For(r)
          /\ Tail(mailbox[r]) \in Seq(For(r)) /\ Tail(mailbox[r]) \in Seq(Item)
  BY ChannelTypes, ItemTypes DEF Item
<1>d. \A r \in Callers : \A e \in For(r) :
          Append(mailbox[r], e) \in Seq(For(r)) /\ Append(mailbox[r], e) \in Seq(Item)
  BY ChannelTypes, ItemTypes DEF Item
<1>e. \A n \in 1 .. MaxEnvelopes : Append(log, n) \in Seq(1 .. MaxEnvelopes)
  BY ChannelTypes
<1>f. \A S : <<>> \in Seq(S)
  BY EmptySeq
<1>g. \A e \in Envelope : Append(incoming, e) \in Seq(Envelope) /\ Len(Append(incoming, e)) = Len(incoming) + 1
  BY ChannelTypes
<1>h. Len(<<>>) = 0
  OBVIOUS
<1>i. 0 <= Capacity
  <2> HIDE DEF Types
  <2> QED
    BY PeerAssumption
<1>1. ASSUME NEW r \in Callers, Find(r) PROVE Types'
  BY <1>1 DEF Find
<1>2. ASSUME NEW r \in Callers, Register(r) PROVE Types'
  <2>1. responses' \in (SUBSET Single) \union {Taken} /\ (responses' = Taken <=> responses = Taken)
    <3>1. CASE r \in Single /\ responses # Taken
      <4>1. responses' = responses \union {r}
        BY <1>2, <3>1 DEF Register
      <4> QED
        BY <4>1, <3>1, <1>r
    <3>2. CASE ~(r \in Single /\ responses # Taken)
      BY <1>2, <3>2 DEF Register
    <3> QED
      BY <3>1, <3>2
  <2>2. streams' \in (SUBSET Streaming) \union {Taken} /\ (streams' = Taken <=> streams = Taken)
    <3>1. CASE r \in Streaming /\ streams # Taken
      <4>1. streams' = streams \union {r}
        BY <1>2, <3>1, <1>a DEF Register
      <4> QED
        BY <4>1, <3>1, <1>b
    <3>2. CASE ~(r \in Streaming /\ streams # Taken)
      BY <1>2, <3>2 DEF Register
    <3> QED
      BY <3>1, <3>2
  <2> QED
    BY <1>2, <2>1, <2>2 DEF Register
<1>3. ASSUME NEW r \in Callers, Emit(r) PROVE Types'
  <2>1. outgoing' \in Seq(Callers)
    BY <1>3, ChannelTypes DEF Emit
  <2> QED
    BY <1>3, <1>b, <2>1 DEF Emit
<1>4. ASSUME NEW r \in Callers, Drop(r) PROVE Types'
  BY <1>4, <1>b, <1>f DEF Drop
<1>5. ASSUME NEW r \in Single, Resume(r) PROVE Types'
  <2>1. Head(mailbox[r]).n \in 1 .. MaxEnvelopes
    BY <1>5, <1>a, <1>c, ChannelTypes, ItemTypes DEF Resume
  <2> QED
    BY <1>5, <1>a, <1>e, <1>f, <2>1 DEF Resume
<1>6. ASSUME NEW r \in Single, Cancelled(r) PROVE Types'
  BY <1>6, <1>a DEF Cancelled
<1>7. ASSUME NEW s \in Streaming, Poll(s) \/ EndOfStream(s) PROVE Types'
  BY <1>7, <1>a DEF Poll, EndOfStream
<1>8. ASSUME NEW s \in Streaming, Pull(s) PROVE Types'
  <2> DEFINE item == Head(mailbox[s])
  <2>1. item \in For(s) /\ Tail(mailbox[s]) \in Seq(For(s)) /\ Tail(mailbox[s]) \in Seq(Item)
    BY <1>8, <1>a, ChannelTypes, ItemTypes DEF Pull, Item
  <2>2. /\ item.kind \in {"item", "end", "closed"}
        /\ item.kind # "closed" => item.n \in 1 .. MaxEnvelopes
    BY <2>1, <1>a, ItemTypes
  <2>3. log' \in Seq(1 .. MaxEnvelopes) /\ told' \in [Streaming -> {"nothing", "end", "closed"}]
    BY <1>8, <1>e, <2>2 DEF Pull
  <2>4. /\ mailbox' \in [Callers -> Seq(Envelope \union {Closed})]
        /\ \A r \in Callers : mailbox'[r] \in Seq(For(r))
    BY <1>8, <1>a, <2>1 DEF Pull, Item
  <2> QED
    BY <1>8, <1>b, <2>3, <2>4 DEF Pull
<1>9. CASE Disconnect
  BY <1>9 DEF Disconnect
<1>10. CASE IoWrites
  <2>1. Head(outgoing) \in Callers /\ Tail(outgoing) \in Seq(Callers)
    BY <1>10, ChannelTypes DEF IoWrites
  <2> QED
    BY <1>10, <2>1 DEF IoWrites
<1>11. CASE IoReads
  <2> PICK to \in Callers \union {NoRequest}, kind \in {"message", "answer", "item", "end"} :
          /\ MaySend(to, kind)
          /\ incoming' = Append(incoming, [n |-> received', to |-> to, kind |-> kind])
          /\ replied' = IF kind \in {"answer", "end"} THEN replied \union {to} ELSE replied
    BY <1>11 DEF IoReads
  <2> DEFINE e == [n |-> received', to |-> to, kind |-> kind]
  <2>1. received' \in 1 .. MaxEnvelopes
    BY <1>11, PeerAssumption DEF IoReads
  <2>2. e \in Envelope
    BY <2>1 DEF Envelope, MaySend
  <2>3. incoming' \in Seq(Envelope) /\ Len(incoming') = Len(incoming) + 1
    <3>1. incoming' = Append(incoming, e)
      OBVIOUS
    <3> QED
      BY <2>2, <3>1, <1>g
  <2>4. Len(incoming') <= Capacity
    BY <1>11, <2>3, PeerAssumption, LenProperties DEF IoReads, Room
  <2>5. replied' \subseteq written
    BY NoRequestAssumption DEF MaySend
  <2> QED
    BY <1>11, <2>1, <2>3, <2>4, <2>5 DEF IoReads
<1>12. CASE IoFails \/ IoIsDone
  BY <1>12 DEF IoFails, IoIsDone
<1>13. CASE TakeResponses
  BY <1>13 DEF TakeResponses
<1>14. CASE TakeStreams
  <2>1. streams \subseteq Streaming
    BY <1>14, <1>a, TableTypes DEF TakeStreams
  <2>2. \A s \in Streaming : Closed \in For(s)
    BY DEF For
  <2>3. /\ mailbox' \in [Callers -> Seq(Envelope \union {Closed})]
        /\ \A r \in Callers : mailbox'[r] \in Seq(For(r))
    BY <1>14, <1>a, <1>d, <2>1, <2>2 DEF TakeStreams, Item
  <2> QED
    BY <1>14, <2>3 DEF TakeStreams
<1>15. CASE RemoveConnection \/ DropChannels
  BY <1>15, EmptySeq DEF RemoveConnection, DropChannels
<1>16. CASE Take
  <2> DEFINE e == Head(incoming)
  <2>1. e \in Envelope /\ Tail(incoming) \in Seq(Envelope)
    BY <1>16, ChannelTypes DEF Take
  <2>2. Len(Tail(incoming)) <= Capacity
    <3>1. Len(Tail(incoming)) = Len(incoming) - 1 /\ Len(incoming) \in Nat
      BY <1>16, ChannelTypes DEF Take
    <3>2. Len(incoming) <= Capacity /\ Capacity \in Nat
      BY PeerAssumption
    <3> HIDE DEF Types
    <3> QED
      BY <3>1, <3>2
  <2>3. responses' \in (SUBSET Single) \union {Taken} /\ (responses' = Taken <=> responses = Taken)
    <3>1. /\ Without(responses, e.to) \in (SUBSET Single) \union {Taken}
          /\ Without(responses, e.to) = Taken <=> responses = Taken
      BY <1>r
    <3> QED
      BY <1>16, <3>1 DEF Take, Without
  <2>4. log' \in Seq(1 .. MaxEnvelopes)
    <3>1. e.n \in 1 .. MaxEnvelopes
      BY <2>1, EnvelopeTypes
    <3>2. log' = log \/ log' = Append(log, e.n)
      BY <1>16 DEF Take
    <3> QED
      BY <3>1, <3>2, <1>e
  <2>5. /\ reader'.at \in {"idle", "response", "found", "waiting", "gone"}
        /\ reader'.at \in {"response", "found", "waiting"} =>
              reader'.envelope \in Envelope /\ reader'.envelope.to \in Callers
    <3>1. CASE UNCHANGED reader
      BY <1>16, <3>1
    <3>2. CASE e.kind # "message" /\ reader' = [at |-> "response", envelope |-> e, single |-> e.to \in responses]
      <4>1. e.to \in Callers
        BY <2>1, <3>2, EnvelopeTypes, <1>a
      <4> QED
        BY <2>1, <3>2, <4>1
    <3> QED
      BY <1>16, <3>1, <3>2 DEF Take
  <2> QED
    BY <1>16, <2>1, <2>2, <2>3, <2>4, <2>5 DEF Take
<1>17. CASE LookUpStream
  <2>1. /\ reader'.at \in {"idle", "response", "found", "waiting", "gone"}
        /\ reader'.at \in {"response", "found", "waiting"} => reader'.envelope = reader.envelope
    BY <1>17 DEF LookUpStream, Idle
  <2> QED
    BY <1>17, <1>b, <2>1 DEF LookUpStream
<1>18. CASE Deliver
  <2> DEFINE e == reader.envelope
  <2>1. e.to \in Callers /\ e \in For(e.to)
    BY <1>18 DEF Deliver, For
  <2>2. /\ mailbox' \in [Callers -> Seq(Envelope \union {Closed})]
        /\ \A r \in Callers : mailbox'[r] \in Seq(For(r))
    BY <1>18, <1>d, <2>1 DEF Deliver, Item
  <2>3. /\ reader'.at \in {"idle", "response", "found", "waiting", "gone"}
        /\ reader'.at \in {"response", "found", "waiting"} => reader'.envelope = e
    BY <1>18 DEF Deliver, Idle
  <2> QED
    BY <1>18, <1>b, <2>2, <2>3 DEF Deliver
<1>19. CASE GoOn
  BY <1>19 DEF GoOn, Idle
<1>20. CASE Leave
  BY <1>20, <1>f, <1>h, <1>i DEF Leave
<1>21. CASE UNCHANGED vars
  BY <1>21 DEF vars
<1> QED
  BY <1>1, <1>2, <1>3, <1>4, <1>5, <1>6, <1>7, <1>8, <1>9, <1>10, <1>11, <1>12, <1>13, <1>14,
     <1>15, <1>16, <1>17, <1>18, <1>19, <1>20, <1>21 DEF Next, Calls, End, Read

\* Every variable keeps its type, and the tables are what handle_io says.
THEOREM TypesHold == Spec => []Types
BY TypesInit, TypesStep, PTL DEF Spec

\* Every variable keeps its type; the incoming channel keeps its capacity.
THEOREM TypeCorrect == Spec => []TypeOK
<1>1. Types => TypeOK
  BY DEF Types
<1> QED
  BY <1>1, TypesHold, PTL

-----------------------------------------------------------------------------
(***************************************************************************)
(* A stream that is not over has its end coming: its consumer was told, the*)
(* end is in its channel, the table still has it, so that the end of the   *)
(* connection will tell it, or the reader has its end in its hands.        *)
(***************************************************************************)
EndComes(s) ==
    \/ told[s] # "nothing"
    \/ \E i \in DOMAIN mailbox[s] : mailbox[s][i].kind \in {"end", "closed"}
    \/ Holds(streams, s)
    \/ reader.at = "found" /\ Held(s) /\ reader.envelope.kind = "end"

EndIsComing ==
    \A s \in Streaming : caller[s] \in {"registered", "sent", "streaming"} => EndComes(s)

\* A step that leaves what a stream has of its end leaves the end to come.
LEMMA EndStillComes ==
    ASSUME NEW s \in Streaming, EndComes(s), told'[s] = told[s], mailbox'[s] = mailbox[s],
           Holds(streams, s) => Holds(streams, s)',
           reader.at = "found" /\ Held(s) => reader' = reader
    PROVE  EndComes(s)'
BY DEF EndComes, Held

\* Taking the first item of a channel leaves the others, appending leaves all.
LEMMA ItemsStay ==
    ASSUME NEW S, NEW q \in Seq(S), NEW x \in S, NEW P, P \subseteq S
    PROVE  /\ (\E i \in DOMAIN q : q[i] \in P) => \E i \in DOMAIN Append(q, x) : Append(q, x)[i] \in P
           /\ x \in P => \E i \in DOMAIN Append(q, x) : Append(q, x)[i] \in P
           /\ (\E i \in DOMAIN q : q[i] \in P) /\ Head(q) \notin P =>
                  \E i \in DOMAIN Tail(q) : Tail(q)[i] \in P
<1>1. Len(q) \in Nat /\ DOMAIN q = 1 .. Len(q) /\ Append(q, x) \in Seq(S)
  BY LenProperties, AppendProperties
<1>2. DOMAIN Append(q, x) = 1 .. (Len(q) + 1) /\ Append(q, x)[Len(q) + 1] = x
  BY <1>1, AppendProperties, LenProperties
<1>3. \A i \in DOMAIN q : i \in DOMAIN Append(q, x) /\ Append(q, x)[i] = q[i]
  BY <1>1, <1>2, AppendProperties
<1>4. Len(q) + 1 \in DOMAIN Append(q, x)
  BY <1>1, <1>2
<1>5. ASSUME NEW i \in DOMAIN q, q[i] \in P, Head(q) \notin P
      PROVE  \E j \in DOMAIN Tail(q) : Tail(q)[j] \in P
  <2>1. q # <<>>
    BY <1>1, <1>5, EmptySeq
  <2>2. Head(q) = q[1] /\ DOMAIN Tail(q) = 1 .. (Len(q) - 1)
    BY <1>1, <2>1, HeadTailProperties, LenProperties
  <2>3. i - 1 \in 1 .. (Len(q) - 1)
    BY <1>1, <1>5, <2>2
  <2>4. Tail(q)[i - 1] = q[i]
    BY <1>1, <2>1, <2>3, HeadTailProperties
  <2> QED
    BY <1>5, <2>2, <2>3, <2>4
<1> QED
  BY <1>2, <1>3, <1>4, <1>5

\* No step takes the end of a stream away.
LEMMA EndIsComingStep == Types /\ EndIsComing /\ [Next]_vars => EndIsComing'
<1> SUFFICES ASSUME Types, EndIsComing, [Next]_vars, NEW s \in Streaming,
                    caller'[s] \in {"registered", "sent", "streaming"}
             PROVE  EndComes(s)'
  BY DEF EndIsComing
<1> USE DEF ioVars, tables, callerVars, peerVars, Move, Ending
<1>a. s \in Callers /\ s \notin Single
  BY PeerAssumption DEF Callers
<1>b. mailbox[s] \in Seq(For(s)) /\ Closed \in For(s) /\ mailbox \in [Callers -> Seq(Item)]
  BY <1>a DEF Types, TypeOK, ChannelsAreRight, For, Item
<1>c. ASSUME NEW r, r # s, Holds(streams, s) PROVE Holds(Without(streams, r), s)
  <2>1. Streaming \subseteq Callers /\ streams \in (SUBSET Streaming) \union {Taken}
    BY DEF Callers, Types, TypeOK
  <2>2. Without(streams, r) # Taken
    BY <1>c, <2>1, TableTypes DEF Holds
  <2> QED
    BY <1>c, <2>2 DEF Holds, Without
<1>d. \A r \in Streaming : streams # Taken => streams \union {r} # Taken
  <2>1. Streaming \subseteq Callers /\ streams \in (SUBSET Streaming) \union {Taken}
    BY DEF Callers, Types, TypeOK
  <2> QED
    BY <2>1, TableTypes
<1>1. ASSUME caller[s] \in {"registered", "sent", "streaming"} PROVE EndComes(s)
  BY <1>1 DEF EndIsComing
<1> USE DEF Types, TypeOK
<1>2. ASSUME NEW r \in Callers, Find(r) PROVE EndComes(s)'
  BY <1>2, <1>1, <1>a, EndStillComes DEF Find, Holds
<1>3. ASSUME NEW r \in Callers, Register(r) PROVE EndComes(s)'
  <2>1. CASE r = s
    <3>1. streams # Taken /\ streams' = streams \union {s}
      BY <1>3, <2>1, <1>a DEF Register
    <3>2. streams \union {s} # Taken
      BY <3>1, <1>d
    <3> QED
      BY <3>1, <3>2 DEF EndComes, Holds
  <2>2. CASE r # s
    <3>1. Holds(streams, s) => Holds(streams, s)'
      <4>1. CASE r \in Streaming /\ streams # Taken
        <5>1. streams' = streams \union {r}
          BY <1>3, <4>1, PeerAssumption DEF Register
        <5> QED
          BY <4>1, <5>1, <1>d DEF Holds
      <4>2. CASE ~(r \in Streaming /\ streams # Taken)
        BY <1>3, <4>2 DEF Register, Holds
      <4> QED
        BY <4>1, <4>2
    <3> QED
      BY <1>3, <2>2, <3>1, <1>1, <1>a, EndStillComes DEF Register
  <2> QED
    BY <2>1, <2>2
<1>4. ASSUME NEW r \in Callers, Emit(r) PROVE EndComes(s)'
  <2>1. io = "ended" => r # s
    BY <1>4, <1>a DEF Emit
  <2>2. Holds(streams, s) => Holds(streams, s)'
    BY <1>4, <2>1, <1>c DEF Emit, Holds
  <2> QED
    BY <1>4, <2>2, <1>1, <1>a, EndStillComes DEF Emit
<1>5. ASSUME NEW r \in Callers, Drop(r) PROVE EndComes(s)'
  <2>1. r # s
    BY <1>5, <1>a DEF Drop
  <2>2. Holds(streams, s) => Holds(streams, s)'
    BY <1>5, <2>1, <1>c DEF Drop, Holds
  <2> QED
    BY <1>5, <2>1, <2>2, <1>1, <1>a, <1>b, EndStillComes DEF Drop
<1>6. ASSUME NEW r \in Single, Resume(r) \/ Cancelled(r) PROVE EndComes(s)'
  <2>1. r # s /\ r \in Callers
    BY <1>a DEF Callers
  <2> QED
    BY <1>6, <2>1, <1>1, <1>a, <1>b, EndStillComes DEF Resume, Cancelled, Holds
<1>7. ASSUME NEW r \in Streaming, Poll(r) \/ EndOfStream(r) PROVE EndComes(s)'
  BY <1>7, <1>1, <1>a, EndStillComes DEF Poll, EndOfStream, Holds
<1>8. ASSUME NEW r \in Streaming, Pull(r) PROVE EndComes(s)'
  <2>1. EndComes(s)
    BY <1>8, <1>1 DEF Pull
  <2>2. CASE r # s
    <3>1. Holds(streams, s) => Holds(streams, s)'
      BY <1>8, <2>2, <1>c DEF Pull, Holds
    <3> QED
      <4>1. told'[s] = told[s] /\ mailbox'[s] = mailbox[s] /\ reader' = reader
        BY <1>8, <2>2, <1>a DEF Pull
      <4> QED
        BY <2>1, <3>1, <4>1, EndStillComes
  <2>3. CASE r = s
    <3> DEFINE item == Head(mailbox[s])  P == {e \in For(s) : e.kind \in {"end", "closed"}}
    <3>1. item \in For(s) /\ mailbox'[s] = Tail(mailbox[s])
      BY <1>8, <2>3, <1>a, <1>b, ChannelTypes DEF Pull
    <3>2. item.kind \in {"item", "end", "closed"}
      BY <3>1, <1>a, ItemTypes
    <3>3. CASE item.kind # "item"
      <4>1. told'[s] = item.kind
        BY <1>8, <2>3, <3>3 DEF Pull
      <4> QED
        BY <4>1, <3>2, <3>3 DEF EndComes
    <3>4. CASE item.kind = "item"
      <4>1. UNCHANGED <<told, streams, reader>>
        BY <1>8, <2>3, <3>4 DEF Pull
      <4>2. ASSUME NEW i \in DOMAIN mailbox[s], mailbox[s][i].kind \in {"end", "closed"}
            PROVE  EndComes(s)'
        <5>1. mailbox[s][i] \in P /\ item \notin P
          BY <4>2, <3>4, <1>b, ChannelTypes
        <5>2. \E j \in DOMAIN Tail(mailbox[s]) : Tail(mailbox[s])[j] \in P
          <6> HIDE DEF P, item, Types
          <6>1. P \subseteq For(s)
            BY DEF P
          <6> QED
            BY <5>1, <6>1, <1>b, ItemsStay DEF item
        <5> QED
          BY <5>2, <3>1 DEF EndComes
      <4> QED
        BY <2>1, <4>1, <4>2 DEF EndComes, Holds, Held
    <3> QED
      BY <3>3, <3>4
  <2> QED
    BY <2>2, <2>3
<1>9. CASE Disconnect \/ IoWrites \/ IoReads \/ IoFails \/ IoIsDone
  BY <1>9, <1>1, EndStillComes DEF Disconnect, IoWrites, IoReads, IoFails, IoIsDone, Holds
<1>10. CASE TakeResponses \/ RemoveConnection \/ DropChannels
  BY <1>10, <1>1, EndStillComes DEF TakeResponses, RemoveConnection, DropChannels, Holds
<1>11. CASE TakeStreams
  <2>1. EndComes(s) /\ UNCHANGED <<told, reader, caller>>
    BY <1>11, <1>1 DEF TakeStreams
  <2> DEFINE P == {e \in For(s) : e.kind \in {"end", "closed"}}
  <2>2. P \subseteq For(s) /\ Closed \in P
    BY <1>b DEF Closed
  <2>3. CASE s \in streams
    <3>1. mailbox'[s] = Append(mailbox[s], Closed)
      BY <1>11, <2>1, <2>3, <1>a DEF TakeStreams
    <3>2. \E i \in DOMAIN Append(mailbox[s], Closed) : Append(mailbox[s], Closed)[i] \in P
      <4> HIDE DEF P, Types
      <4> QED
        BY <2>2, <1>b, ItemsStay
    <3> QED
      BY <3>1, <3>2 DEF EndComes
  <2>4. CASE s \notin streams
    BY <1>11, <2>1, <2>4, <1>a DEF TakeStreams, EndComes, Holds, Held
  <2> QED
    BY <2>3, <2>4
<1>12. CASE Take \/ GoOn \/ Leave
  BY <1>12, <1>1, EndStillComes DEF Take, GoOn, Leave, Holds
<1>13. CASE LookUpStream
  <2> DEFINE e == reader.envelope
  <2>1. EndComes(s) /\ UNCHANGED <<told, mailbox>>
    BY <1>13, <1>1 DEF LookUpStream
  <2>2. CASE e.kind = "end" /\ e.to = s /\ Holds(streams, s)
    BY <1>13, <2>2 DEF LookUpStream, EndComes, Holds, Held
  <2>3. CASE ~(e.kind = "end" /\ e.to = s)
    <3>1. Holds(streams, s) => Holds(streams, s)'
      BY <1>13, <2>3, <1>c DEF LookUpStream, Holds
    <3> QED
      BY <1>13, <2>1, <3>1, EndStillComes DEF LookUpStream
  <2>4. CASE ~ Holds(streams, s)
    BY <1>13, <2>1, <2>4 DEF LookUpStream, EndComes
  <2> QED
    BY <2>2, <2>3, <2>4
<1>14. CASE Deliver
  <2> DEFINE e == reader.envelope
  <2>1. EndComes(s) /\ UNCHANGED <<told, caller>>
    BY <1>14, <1>1 DEF Deliver
  <2>2. CASE e.to = s
    <3>1. mailbox' = [mailbox EXCEPT ![s] = Append(@, e)] /\ UNCHANGED streams
      BY <1>14, <2>1, <2>2 DEF Deliver
    <3>2. e \in For(s) /\ mailbox'[s] = Append(mailbox[s], e)
      BY <1>14, <2>2, <3>1, <1>a, <1>b DEF Deliver, For
    <3> DEFINE P == {x \in For(s) : x.kind \in {"end", "closed"}}
    <3>3. P \subseteq For(s)
      OBVIOUS
    <3>4. (\E i \in DOMAIN mailbox[s] : mailbox[s][i] \in P) \/ e \in P =>
              \E i \in DOMAIN mailbox'[s] : mailbox'[s][i] \in P
      <4>1. e \in For(s) /\ mailbox[s] \in Seq(For(s))
        BY <3>2, <1>b
      <4> HIDE DEF P, Types, e
      <4>2. (\E i \in DOMAIN mailbox[s] : mailbox[s][i] \in P) \/ e \in P =>
              \E i \in DOMAIN Append(mailbox[s], e) : Append(mailbox[s], e)[i] \in P
        BY <4>1, <3>3, ItemsStay
      <4> QED
        BY <3>2, <4>2
    <3>5. (\E i \in DOMAIN mailbox[s] : mailbox[s][i].kind \in {"end", "closed"}) =>
              \E i \in DOMAIN mailbox[s] : mailbox[s][i] \in P
      BY <1>b, ChannelTypes
    <3> QED
      BY <2>1, <2>2, <3>1, <3>2, <3>4, <3>5 DEF EndComes, Holds
  <2>3. CASE e.to # s
    <3>1. Holds(streams, s) => Holds(streams, s)'
      BY <1>14, <2>3, <1>c DEF Deliver, Holds
    <3> QED
      <4>1. told'[s] = told[s] /\ mailbox'[s] = mailbox[s] /\ ~ Held(s)
        BY <1>14, <2>3, <1>a DEF Deliver, Held
      <4> QED
        BY <2>1, <3>1, <4>1, EndStillComes
  <2> QED
    BY <2>2, <2>3
<1>15. CASE UNCHANGED vars
  BY <1>15, <1>1, EndStillComes DEF vars, Holds
<1> QED
  BY <1>2, <1>3, <1>4, <1>5, <1>6, <1>7, <1>8, <1>9, <1>10, <1>11, <1>12, <1>13, <1>14, <1>15
     DEF Next, Calls, End, Read

\* A stream ends only when its consumer has been told.
LEMMA ToldStep ==
    Types /\ EndIsComing /\ StreamsAreToldTheirEnd /\ [Next]_vars => StreamsAreToldTheirEnd'
<1> SUFFICES ASSUME Types, EndIsComing, StreamsAreToldTheirEnd, [Next]_vars,
                    NEW s \in Streaming, caller'[s] = "ended"
             PROVE  told'[s] # "nothing"
  BY DEF StreamsAreToldTheirEnd
<1> USE DEF Types, TypeOK, ioVars, tables, callerVars, peerVars, Move, Ending
<1>a. s \in Callers /\ s \notin Single
  BY PeerAssumption DEF Callers
<1>1. CASE EndOfStream(s)
  <2>1. caller[s] = "streaming" /\ mailbox[s] = <<>> /\ ~Sender(s) /\ UNCHANGED told
    BY <1>1 DEF EndOfStream
  <2>2. EndComes(s)
    BY <2>1 DEF EndIsComing
  <2>3. \A i : i \notin DOMAIN mailbox[s]
    BY <2>1, NothingInEmpty
  <2> QED
    BY <2>1, <2>2, <2>3 DEF EndComes, Sender
<1>2. CASE UNCHANGED <<caller, told>>
  BY <1>2 DEF StreamsAreToldTheirEnd
<1>3. ASSUME NEW r \in Callers, Find(r) \/ Register(r) \/ Emit(r) \/ Drop(r)
      PROVE  told'[s] # "nothing"
  BY <1>3, <1>a DEF Find, Register, Emit, Drop, StreamsAreToldTheirEnd
<1>4. ASSUME NEW r \in Single, Resume(r) \/ Cancelled(r) PROVE told'[s] # "nothing"
  BY <1>4, <1>a DEF Resume, Cancelled, Callers, StreamsAreToldTheirEnd
<1>5. ASSUME NEW r \in Streaming, Poll(r) \/ (r # s /\ EndOfStream(r)) PROVE told'[s] # "nothing"
  BY <1>5, <1>a DEF Poll, EndOfStream, Callers, StreamsAreToldTheirEnd
<1>6. ASSUME NEW r \in Streaming, Pull(r) PROVE told'[s] # "nothing"
  <2>1. caller[s] = "ended" /\ r # s /\ told'[s] = told[s]
    BY <1>6, <1>a DEF Pull
  <2> QED
    BY <2>1 DEF StreamsAreToldTheirEnd
<1>7. CASE End \/ Read \/ Disconnect \/ IoWrites \/ IoReads \/ IoFails \/ Leave
  <2>1. UNCHANGED <<caller, told>>
    BY <1>7 DEF End, Read, Disconnect, IoWrites, IoReads, IoFails, IoIsDone, TakeResponses,
       TakeStreams, RemoveConnection, DropChannels, Take, LookUpStream, Deliver, GoOn, Leave
  <2> QED
    BY <1>2, <2>1
<1> QED
  BY <1>1, <1>2, <1>3, <1>4, <1>5, <1>6, <1>7 DEF Next, Calls, vars

\* A stream is never cut short unnoticed, for any number of streams and envelopes.
THEOREM StreamsAreToldTheirEndHolds == Spec => []StreamsAreToldTheirEnd
<1>1. Init => EndIsComing /\ StreamsAreToldTheirEnd
  <2> SUFFICES ASSUME Init, NEW s \in Streaming PROVE caller[s] = "idle"
    BY DEF EndIsComing, StreamsAreToldTheirEnd
  <2> QED
    BY DEF Init, Callers
<1> QED
  BY <1>1, EndIsComingStep, ToldStep, TypesHold, PTL DEF Spec

-----------------------------------------------------------------------------
(***************************************************************************)
(* The barriers let one envelope at a time out of the reader's hands: while*)
(* an answer waits in a channel the reader waits for it, or has left.  So  *)
(* what is handled next is later than all that was, and earlier than all   *)
(* that is still to be read.                                               *)
(***************************************************************************)
NotHandled(e) == \A i \in DOMAIN log : log[i] < e.n

Waits(r, i) == i \in DOMAIN mailbox[r] /\ mailbox[r][i] # Closed

OneWaits == \A q, r \in Callers : \A i, j : Waits(q, i) /\ Waits(r, j) => q = r /\ i = j

WaitingIsNext ==
    \A r \in Callers : \A i : Waits(r, i) =>
        /\ NotHandled(mailbox[r][i])
        /\ mailbox[r][i].n <= received
        /\ reader.at = "gone" \/ (reader.at = "waiting" /\ mailbox[r][i] = reader.envelope)

ReaderIsNext ==
    /\ reader.at \in {"response", "found"} => NotHandled(reader.envelope)
    /\ reader.at = "waiting" => \A i \in DOMAIN log : log[i] <= reader.envelope.n
    /\ reader.at \in {"response", "found", "waiting"} => reader.envelope.n <= received
    /\ reader.at = "gone" => incoming = <<>>

IncomingIsLater ==
    \A k \in DOMAIN incoming :
        /\ NotHandled(incoming[k])
        /\ incoming[k].n <= received
        /\ reader.at \in {"response", "found", "waiting"} => reader.envelope.n < incoming[k].n
        /\ \A l \in DOMAIN incoming : k < l => incoming[k].n < incoming[l].n

LogIsRead == \A i \in DOMAIN log : log[i] <= received

Order ==
    /\ HandledInOrder
    /\ OneWaits
    /\ WaitingIsNext
    /\ ReaderIsNext
    /\ IncomingIsLater
    /\ LogIsRead

\* What a log or a channel holds after one more was appended to it.
LEMMA Appended ==
    ASSUME NEW S, NEW q \in Seq(S), NEW x \in S
    PROVE  /\ DOMAIN q = 1 .. Len(q) /\ Len(q) \in Nat
           /\ DOMAIN Append(q, x) = 1 .. (Len(q) + 1)
           /\ Append(q, x)[Len(q) + 1] = x
           /\ \A i \in DOMAIN q : Append(q, x)[i] = q[i]
           /\ \A i \in DOMAIN Append(q, x) : i \in DOMAIN q \/ i = Len(q) + 1
<1>1. Len(q) \in Nat /\ DOMAIN q = 1 .. Len(q) /\ Append(q, x) \in Seq(S)
  BY LenProperties, AppendProperties
<1>2. DOMAIN Append(q, x) = 1 .. (Len(q) + 1) /\ Append(q, x)[Len(q) + 1] = x
  BY <1>1, AppendProperties, LenProperties
<1>3. \A i \in DOMAIN q : Append(q, x)[i] = q[i]
  BY <1>1, AppendProperties
<1> QED
  BY <1>1, <1>2, <1>3

\* What a channel holds after its first was taken.
LEMMA FirstTaken ==
    ASSUME NEW S, NEW q \in Seq(S), q # <<>>
    PROVE  /\ 1 \in DOMAIN q /\ Head(q) = q[1]
           /\ \A i \in DOMAIN Tail(q) : i + 1 \in DOMAIN q /\ i + 1 # 1 /\ Tail(q)[i] = q[i + 1]
<1>1. Len(q) \in Nat /\ DOMAIN q = 1 .. Len(q) /\ Len(q) # 0 /\ Head(q) = q[1]
  BY LenProperties, EmptySeq
<1>2. /\ DOMAIN Tail(q) = 1 .. (Len(q) - 1)
      /\ \A i \in 1 .. (Len(q) - 1) : Tail(q)[i] = q[i + 1]
  BY <1>1, HeadTailProperties, LenProperties
<1> QED
  BY <1>1, <1>2

\* To handle something later than what was handled keeps the log in order.
LEMMA LogGrows ==
    ASSUME Types, NEW n \in 1 .. MaxEnvelopes, \A i \in DOMAIN log : log[i] < n,
           HandledInOrder, log' = Append(log, n)
    PROVE  /\ HandledInOrder'
           /\ \A i \in DOMAIN log' : (i \in DOMAIN log /\ log'[i] = log[i]) \/ log'[i] = n
<1>1. log \in Seq(1 .. MaxEnvelopes) /\ \A i \in DOMAIN log : log[i] \in Nat /\ n \in Nat
  <2>1. log \in Seq(1 .. MaxEnvelopes)
    BY DEF Types, TypeOK
  <2>2. \A i \in DOMAIN log : log[i] \in 1 .. MaxEnvelopes
    BY <2>1, ChannelTypes
  <2>3. 1 .. MaxEnvelopes \subseteq Nat
    BY PeerAssumption
  <2> QED
    BY <2>1, <2>2, <2>3
<1>2. /\ DOMAIN log = 1 .. Len(log) /\ Len(log) \in Nat
      /\ \A i \in DOMAIN log : log'[i] = log[i]
      /\ \A i \in DOMAIN log' : i \in DOMAIN log \/ (i = Len(log) + 1 /\ log'[i] = n)
  BY <1>1, Appended
<1>3. ASSUME NEW i \in DOMAIN log', NEW j \in DOMAIN log', i < j PROVE log'[i] < log'[j]
  <2>1. i \in DOMAIN log
    BY <1>2, <1>3
  <2> QED
    BY <1>2, <1>3, <2>1 DEF HandledInOrder
<1> QED
  BY <1>2, <1>3 DEF HandledInOrder

\* Dropping what waits, or closing a stream, adds nothing to handle.
LEMMA FewerWait ==
    ASSUME Order, UNCHANGED <<log, reader, incoming, received>>,
           \A q \in Callers : \A j : Waits(q, j)' => Waits(q, j) /\ mailbox'[q][j] = mailbox[q][j]
    PROVE  Order'
<1>1. OneWaits'
  BY DEF Order, OneWaits
<1>2. WaitingIsNext'
  BY DEF Order, WaitingIsNext, NotHandled
<1>3. HandledInOrder' /\ ReaderIsNext' /\ IncomingIsLater' /\ LogIsRead'
  BY DEF Order, HandledInOrder, ReaderIsNext, IncomingIsLater, LogIsRead, NotHandled
<1> QED
  BY <1>1, <1>2, <1>3 DEF Order

\* A caller resumes with its answer, or a stream takes its next item.
LEMMA TakesFirst ==
    ASSUME Types, Order, NEW r \in Callers, mailbox[r] # <<>>, NEW m,
           m = <<>> \/ m = Tail(mailbox[r]),
           mailbox' = [mailbox EXCEPT ![r] = m], UNCHANGED <<reader, incoming, received>>,
           log' = IF Head(mailbox[r]) = Closed THEN log ELSE Append(log, Head(mailbox[r]).n)
    PROVE  Order'
<1> DEFINE item == Head(mailbox[r])
<1>1. mailbox \in [Callers -> Seq(Item)] /\ mailbox[r] \in Seq(For(r))
  BY DEF Types, TypeOK, ChannelsAreRight, Item
<1>2. 1 \in DOMAIN mailbox[r] /\ item = mailbox[r][1]
  BY <1>1, FirstTaken
<1>3. ASSUME NEW q \in Callers, NEW j, Waits(q, j)'
      PROVE  \/ q # r /\ Waits(q, j) /\ mailbox'[q][j] = mailbox[q][j]
             \/ q = r /\ j + 1 # 1 /\ Waits(r, j + 1) /\ mailbox'[q][j] = mailbox[r][j + 1]
  <2>1. CASE q # r
    BY <1>1, <1>3, <2>1 DEF Waits
  <2>2. CASE q = r
    <3>1. mailbox'[q] = m /\ m = Tail(mailbox[r])
      BY <1>1, <1>3, <2>2, NothingInEmpty DEF Waits
    <3> QED
      BY <1>1, <1>3, <2>2, <3>1, FirstTaken DEF Waits
  <2> QED
    BY <2>1, <2>2
<1>4. CASE item = Closed
  <2>1. OneWaits'
    <3> SUFFICES ASSUME NEW p \in Callers, NEW q \in Callers, NEW i, NEW j,
                        Waits(p, i)', Waits(q, j)'
                 PROVE  p = q /\ i = j
      BY DEF OneWaits
    <3>1. p = q /\ (i = j \/ i + 1 = j + 1)
      BY <1>3 DEF Order, OneWaits
    <3>2. i \in DOMAIN mailbox'[p] /\ j \in DOMAIN mailbox'[p]
      BY <3>1 DEF Waits
    <3>3. p = r => m = Tail(mailbox[r]) /\ i \in Nat /\ j \in Nat
      <4>1. Tail(mailbox[r]) \in Seq(Item)
        BY <1>1, ChannelTypes
      <4>2. DOMAIN Tail(mailbox[r]) \subseteq Nat
        BY <4>1, LenProperties
      <4> QED
        BY <1>1, <3>2, <4>2, NothingInEmpty
    <3> QED
      BY <1>3, <3>1, <3>3 DEF Order, OneWaits
  <2>2. WaitingIsNext'
    BY <1>3, <1>4 DEF Order, WaitingIsNext, NotHandled
  <2>3. HandledInOrder' /\ ReaderIsNext' /\ IncomingIsLater' /\ LogIsRead'
    BY <1>4 DEF Order, HandledInOrder, ReaderIsNext, IncomingIsLater, LogIsRead, NotHandled
  <2> QED
    BY <2>1, <2>2, <2>3 DEF Order
<1>5. CASE item # Closed
  <2>1. Waits(r, 1)
    BY <1>2, <1>5 DEF Waits
  <2>2. \A q \in Callers : \A j : ~ Waits(q, j)'
    BY <1>3, <2>1 DEF Order, OneWaits
  <2>3. /\ NotHandled(item) /\ item.n <= received
        /\ reader.at = "gone" \/ (reader.at = "waiting" /\ item = reader.envelope)
    BY <1>2, <2>1 DEF Order, WaitingIsNext
  <2>4. item \in Envelope /\ item.n \in 1 .. MaxEnvelopes
    <3>1. item \in Item
      BY <1>1, ChannelTypes
    <3> QED
      BY <1>5, <3>1, EnvelopeTypes DEF Item
  <2>5. HandledInOrder' /\ \A i \in DOMAIN log' : (i \in DOMAIN log /\ log'[i] = log[i]) \/ log'[i] = item.n
    BY <1>5, <2>3, <2>4, LogGrows DEF Order, NotHandled
  <2>6. OneWaits' /\ WaitingIsNext'
    BY <2>2 DEF OneWaits, WaitingIsNext
  <2>7. LogIsRead'
    BY <2>3, <2>5 DEF Order, LogIsRead
  <2>8. ReaderIsNext'
    <3>1. item.n <= item.n
      BY <2>4, PeerAssumption
    <3> QED
      BY <2>3, <2>5, <3>1 DEF Order, ReaderIsNext
  <2>9. IncomingIsLater'
    <3>1. CASE reader.at = "gone"
      BY <3>1, NothingInEmpty DEF Order, ReaderIsNext, IncomingIsLater
    <3>2. CASE reader.at = "waiting" /\ item = reader.envelope
      BY <2>5, <3>2 DEF Order, IncomingIsLater, NotHandled
    <3> QED
      BY <2>3, <3>1, <3>2
  <2> QED
    BY <2>5, <2>6, <2>7, <2>8, <2>9 DEF Order
<1> QED
  BY <1>4, <1>5

\* An envelope is read from the socket: its number is the highest yet.
LEMMA IoReadsInOrder ==
    ASSUME Types, Order, IoReads
    PROVE  Order'
<1> PICK to \in Callers \union {NoRequest}, kind \in {"message", "answer", "item", "end"} :
        /\ MaySend(to, kind)
        /\ incoming' = Append(incoming, [n |-> received', to |-> to, kind |-> kind])
  BY DEF IoReads
<1> DEFINE e == [n |-> received', to |-> to, kind |-> kind]
<1>1. /\ received \in Nat /\ received' = received + 1 /\ received' \in 1 .. MaxEnvelopes
      /\ UNCHANGED <<log, mailbox, reader>> /\ reader.at # "gone"
  BY PeerAssumption DEF IoReads, Types, TypeOK, callerVars
<1>2. e \in Envelope
  BY <1>1 DEF Envelope, MaySend
<1>3. incoming' = Append(incoming, e) /\ e.n = received + 1
  BY <1>1
<1> HIDE DEF e
<1>4. incoming \in Seq(Envelope)
  BY DEF Types, TypeOK
<1>5. /\ \A k \in DOMAIN incoming : incoming'[k] = incoming[k]
      /\ \A k \in DOMAIN incoming' :
            k \in DOMAIN incoming \/ (incoming'[k] = e /\ \A l \in DOMAIN incoming' : l <= k)
  BY <1>2, <1>3, <1>4, Appended
<1>6. /\ \A k \in DOMAIN incoming : incoming[k].n \in Nat
      /\ \A i \in DOMAIN log : log[i] \in Nat
  <2>1. \A k \in DOMAIN incoming : incoming[k] \in Envelope
    BY <1>4, ChannelTypes
  <2>2. \A i \in DOMAIN log : log[i] \in 1 .. MaxEnvelopes
    BY ChannelTypes DEF Types, TypeOK
  <2> QED
    BY <2>1, <2>2, EnvelopeTypes, PeerAssumption
<1>7. reader.at \in {"response", "found", "waiting"} => reader.envelope.n \in Nat
  BY EnvelopeTypes DEF Types, TypeOK
<1>8. HandledInOrder' /\ OneWaits'
  BY <1>1 DEF Order, HandledInOrder, OneWaits, Waits
<1>9. WaitingIsNext'
  <2>1. \A r \in Callers : \A i : Waits(r, i) => mailbox[r][i].n <= received + 1
    <3> SUFFICES ASSUME NEW r \in Callers, NEW i, Waits(r, i)
                 PROVE  mailbox[r][i].n <= received + 1
      OBVIOUS
    <3>1. mailbox[r][i].n <= received /\ mailbox[r][i] = reader.envelope /\ reader.at = "waiting"
      BY <1>1 DEF Order, WaitingIsNext
    <3> QED
      BY <3>1, <1>1, <1>7
  <2> QED
    BY <1>1, <2>1 DEF Order, WaitingIsNext, Waits, NotHandled
<1>10. ReaderIsNext' /\ LogIsRead'
  BY <1>1, <1>6, <1>7 DEF Order, ReaderIsNext, LogIsRead, NotHandled
<1>11. ASSUME NEW k \in DOMAIN incoming'
       PROVE  /\ NotHandled(incoming[k])'
              /\ incoming'[k].n <= received'
              /\ reader'.at \in {"response", "found", "waiting"} =>
                    reader'.envelope.n < incoming'[k].n
              /\ \A l \in DOMAIN incoming' : k < l => incoming'[k].n < incoming'[l].n
  <2>1. CASE k \in DOMAIN incoming
    <3>1. incoming'[k] = incoming[k] /\ incoming[k].n <= received /\ incoming[k].n \in Nat
      BY <2>1, <1>5, <1>6 DEF Order, IncomingIsLater
    <3>2. ASSUME NEW l \in DOMAIN incoming', k < l PROVE incoming'[k].n < incoming'[l].n
      <4>1. CASE l \in DOMAIN incoming
        BY <2>1, <3>2, <4>1, <1>5 DEF Order, IncomingIsLater
      <4>2. CASE incoming'[l] = e
        BY <3>1, <4>2, <1>1, <1>3
      <4> QED
        BY <4>1, <4>2, <1>5
    <3> QED
      BY <2>1, <3>1, <3>2, <1>1 DEF Order, IncomingIsLater, NotHandled
  <2>2. CASE incoming'[k] = e /\ \A l \in DOMAIN incoming' : l <= k
    <3>1. \A l \in DOMAIN incoming' : ~ (k < l)
      <4>1. DOMAIN incoming' \subseteq Nat
        BY <1>2, <1>3, <1>4, Appended
      <4> QED
        BY <2>2, <4>1
    <3>2. \A i \in DOMAIN log : log[i] < received + 1
      BY <1>1, <1>6 DEF Order, LogIsRead
    <3>3. reader.at \in {"response", "found", "waiting"} => reader.envelope.n < received + 1
      BY <1>1, <1>7 DEF Order, ReaderIsNext
    <3> QED
      BY <2>2, <3>1, <3>2, <3>3, <1>1, <1>3 DEF NotHandled
  <2> QED
    BY <2>1, <2>2, <1>5
<1>12. IncomingIsLater'
  BY <1>11 DEF IncomingIsLater, NotHandled
<1> QED
  BY <1>8, <1>9, <1>10, <1>12 DEF Order

\* While the reader is not waiting, and has not left, nothing waits for it.
LEMMA NothingWaits ==
    ASSUME Order, reader.at \in {"idle", "response", "found"}
    PROVE  \A r \in Callers : \A i : ~ Waits(r, i)
BY DEF Order, WaitingIsNext

\* The incoming stream takes the next envelope.
LEMMA TakeInOrder ==
    ASSUME Types, Order, Take
    PROVE  Order'
<1> DEFINE e == Head(incoming)
<1>1. /\ reader.at = "idle" /\ incoming # <<>> /\ incoming' = Tail(incoming)
      /\ UNCHANGED <<mailbox, received>>
  BY DEF Take, peerVars
<1>2. incoming \in Seq(Envelope)
  BY DEF Types, TypeOK
<1>3. /\ 1 \in DOMAIN incoming /\ e = incoming[1]
      /\ \A k \in DOMAIN incoming' : k + 1 \in DOMAIN incoming /\ k + 1 # 1 /\ incoming'[k] = incoming[k + 1]
  BY <1>1, <1>2, FirstTaken
<1>4. DOMAIN incoming \subseteq Nat /\ DOMAIN incoming' \subseteq Nat /\ 0 \notin DOMAIN incoming'
      /\ 0 \notin DOMAIN incoming
  BY <1>1, <1>2, HeadTailProperties, LenProperties
<1>5. NotHandled(e) /\ e.n <= received
  BY <1>3 DEF Order, IncomingIsLater
<1>6. /\ \A k \in DOMAIN incoming' : NotHandled(incoming'[k]) /\ e.n < incoming'[k].n /\ incoming'[k].n <= received
      /\ \A k, l \in DOMAIN incoming' : k < l => incoming'[k].n < incoming'[l].n
  <2>1. \A k \in DOMAIN incoming' : 1 < k + 1
    BY <1>4
  <2>2. \A k, l \in DOMAIN incoming' : k < l => k + 1 < l + 1
    BY <1>4
  <2> QED
    BY <1>3, <2>1, <2>2 DEF Order, IncomingIsLater
<1>7. \A r \in Callers : \A i : ~ Waits(r, i) /\ ~ Waits(r, i)'
  BY <1>1, NothingWaits DEF Waits
<1>8. OneWaits' /\ WaitingIsNext'
  BY <1>7 DEF OneWaits, WaitingIsNext
<1>9. CASE log' = Append(log, e.n) /\ UNCHANGED reader
  <2>1. e.n \in 1 .. MaxEnvelopes
    BY <1>1, <1>2, ChannelTypes, EnvelopeTypes
  <2>2. HandledInOrder' /\ \A i \in DOMAIN log' : (i \in DOMAIN log /\ log'[i] = log[i]) \/ log'[i] = e.n
    BY <1>5, <1>9, <2>1, LogGrows DEF Order, NotHandled
  <2>3. LogIsRead'
    BY <1>1, <1>5, <2>2 DEF Order, LogIsRead
  <2>4. ReaderIsNext'
    BY <1>1, <1>9 DEF ReaderIsNext
  <2>5. IncomingIsLater'
    BY <1>1, <1>6, <1>9, <2>2 DEF IncomingIsLater, NotHandled
  <2> QED
    BY <1>8, <2>2, <2>3, <2>4, <2>5 DEF Order
<1>10. CASE UNCHANGED <<log, reader>>
  BY <1>1, <1>6, <1>8, <1>10 DEF Order, HandledInOrder, LogIsRead, ReaderIsNext, IncomingIsLater,
     NotHandled
<1>11. CASE UNCHANGED log /\ reader'.at = "response" /\ reader'.envelope = e
  BY <1>1, <1>5, <1>6, <1>8, <1>11 DEF Order, HandledInOrder, LogIsRead, ReaderIsNext,
     IncomingIsLater, NotHandled
<1> QED
  BY <1>9, <1>10, <1>11 DEF Take

\* An answer is put in the channel of its request.
LEMMA DeliverInOrder ==
    ASSUME Types, Order, Deliver
    PROVE  Order'
<1> DEFINE e == reader.envelope
<1>1. reader.at = "found" /\ UNCHANGED <<log, incoming, received>> /\ e.to \in Callers /\ e \in For(e.to)
  BY DEF Deliver, Types, TypeOK, ChannelsAreRight, For, peerVars
<1>2. NotHandled(e) /\ e.n <= received /\ e.n \in Nat
  BY <1>1, EnvelopeTypes DEF Order, ReaderIsNext, Types, TypeOK
<1>3. \A r \in Callers : \A i : ~ Waits(r, i)
  BY <1>1, NothingWaits
<1>4. \A i \in DOMAIN log : log[i] \in Nat
  <2>1. \A i \in DOMAIN log : log[i] \in 1 .. MaxEnvelopes
    BY ChannelTypes DEF Types, TypeOK
  <2> QED
    BY <2>1, PeerAssumption
<1>5. CASE mailbox' = mailbox /\ reader' = Idle
  BY <1>1, <1>3, <1>5 DEF Order, HandledInOrder, OneWaits, WaitingIsNext, Waits, ReaderIsNext,
     IncomingIsLater, LogIsRead, NotHandled, Idle
<1>6. CASE /\ mailbox' = [mailbox EXCEPT ![e.to] = Append(@, e)]
           /\ reader' = [at |-> "waiting", envelope |-> e]
  <2>1. mailbox[e.to] \in Seq(For(e.to)) /\ mailbox \in [Callers -> Seq(Item)]
    BY <1>1 DEF Types, TypeOK, ChannelsAreRight, Item
  <2>2. \A r \in Callers : \A i : Waits(r, i)' =>
            r = e.to /\ i = Len(mailbox[e.to]) + 1 /\ mailbox'[r][i] = e
    <3> SUFFICES ASSUME NEW r \in Callers, NEW i, Waits(r, i)'
                 PROVE  r = e.to /\ i = Len(mailbox[e.to]) + 1 /\ mailbox'[r][i] = e
      OBVIOUS
    <3>1. r = e.to
      BY <1>3, <1>6, <2>1 DEF Waits
    <3>2. mailbox'[r] = Append(mailbox[r], e)
      BY <1>6, <2>1, <3>1
    <3>3. ~ (i \in DOMAIN mailbox[r] /\ Append(mailbox[r], e)[i] = mailbox[r][i])
      BY <1>3, <3>2 DEF Waits
    <3> HIDE DEF e
    <3>4. i \in DOMAIN Append(mailbox[r], e)
      BY <3>2 DEF Waits
    <3> QED
      BY <1>1, <2>1, <3>1, <3>2, <3>3, <3>4, Appended
  <2>3. OneWaits' /\ WaitingIsNext'
    BY <1>1, <1>2, <1>6, <2>2 DEF OneWaits, WaitingIsNext, NotHandled
  <2>4. ReaderIsNext'
    BY <1>1, <1>2, <1>4, <1>6 DEF ReaderIsNext, NotHandled
  <2>5. HandledInOrder' /\ IncomingIsLater' /\ LogIsRead'
    BY <1>1, <1>6 DEF Order, HandledInOrder, IncomingIsLater, LogIsRead, NotHandled
  <2> QED
    BY <2>3, <2>4, <2>5 DEF Order
<1> QED
  BY <1>5, <1>6 DEF Deliver

\* No step of the connection handles out of order.
LEMMA OrderStep == Types /\ Order /\ [Next]_vars => Order'
<1> SUFFICES ASSUME Types, Order, [Next]_vars PROVE Order'
  OBVIOUS
<1> USE DEF ioVars, tables, callerVars, peerVars, Move, Ending
<1>a. Single \subseteq Callers /\ Streaming \subseteq Callers /\ mailbox \in [Callers -> Seq(Item)]
  BY DEF Callers, Types, TypeOK, Item
<1>1. CASE UNCHANGED <<log, mailbox, reader, incoming, received>>
  BY <1>1, FewerWait DEF Waits
<1>2. ASSUME NEW r \in Callers, Find(r) \/ Register(r) \/ Emit(r) PROVE Order'
  BY <1>1, <1>2 DEF Find, Register, Emit
<1>3. ASSUME NEW r \in Callers, Drop(r) PROVE Order'
  <2>1. UNCHANGED <<log, reader, incoming, received>>
    BY <1>3 DEF Drop
  <2>2. \A q \in Callers : \A j : Waits(q, j)' => Waits(q, j) /\ mailbox'[q][j] = mailbox[q][j]
    BY <1>3, <1>a, NothingInEmpty DEF Drop, Waits
  <2> QED
    BY <2>1, <2>2, FewerWait
<1>4. ASSUME NEW r \in Single, Resume(r) PROVE Order'
  <2>1. mailbox[r] # <<>> /\ mailbox' = [mailbox EXCEPT ![r] = <<>>]
        /\ log' = Append(log, Head(mailbox[r]).n) /\ UNCHANGED <<reader, incoming, received>>
    BY <1>4 DEF Resume
  <2>2. Head(mailbox[r]) # Closed
    <3>1. Head(mailbox[r]) \in For(r) /\ r \in Callers
      BY <1>a, <2>1, ChannelTypes DEF Types, ChannelsAreRight
    <3> QED
      BY <3>1, ItemTypes, EnvelopeTypes
  <2> QED
    BY <1>a, <2>1, <2>2, TakesFirst
<1>5. ASSUME NEW s \in Streaming, Pull(s) PROVE Order'
  <2> DEFINE item == Head(mailbox[s])
  <2>1. /\ mailbox[s] # <<>> /\ mailbox' = [mailbox EXCEPT ![s] = Tail(mailbox[s])]
        /\ log' = IF item.kind = "closed" THEN log ELSE Append(log, item.n)
        /\ UNCHANGED <<reader, incoming, received>>
    BY <1>5 DEF Pull
  <2>2. item.kind = "closed" <=> item = Closed
    <3>1. item \in For(s) /\ s \in Callers
      BY <1>a, <2>1, ChannelTypes DEF Types, ChannelsAreRight
    <3> QED
      BY <3>1, ItemTypes
  <2> QED
    BY <1>a, <2>1, <2>2, TakesFirst
<1>6. ASSUME NEW r \in Single, Cancelled(r) PROVE Order'
  BY <1>1, <1>6 DEF Cancelled
<1>7. ASSUME NEW s \in Streaming, Poll(s) \/ EndOfStream(s) PROVE Order'
  BY <1>1, <1>7 DEF Poll, EndOfStream
<1>8. CASE Disconnect \/ IoWrites \/ IoFails \/ IoIsDone \/ TakeResponses \/ RemoveConnection \/ DropChannels
  BY <1>1, <1>8 DEF Disconnect, IoWrites, IoFails, IoIsDone, TakeResponses, RemoveConnection,
     DropChannels
<1>9. CASE TakeStreams
  <2>1. UNCHANGED <<log, reader, incoming, received>>
    BY <1>9 DEF TakeStreams
  <2>2. ASSUME NEW q \in Callers, NEW j, Waits(q, j)' PROVE Waits(q, j) /\ mailbox'[q][j] = mailbox[q][j]
    <3>1. mailbox'[q] = mailbox[q] \/ mailbox'[q] = Append(mailbox[q], Closed)
      BY <1>9 DEF TakeStreams
    <3>2. mailbox[q] \in Seq(Item) /\ Closed \in Item
      BY <1>a DEF Item
    <3>3. CASE mailbox'[q] = mailbox[q]
      BY <2>2, <3>3 DEF Waits
    <3>4. CASE mailbox'[q] = Append(mailbox[q], Closed)
      <4>1. /\ Append(mailbox[q], Closed)[Len(mailbox[q]) + 1] = Closed
            /\ \A i \in DOMAIN mailbox[q] : Append(mailbox[q], Closed)[i] = mailbox[q][i]
            /\ \A i \in DOMAIN Append(mailbox[q], Closed) :
                    i \in DOMAIN mailbox[q] \/ i = Len(mailbox[q]) + 1
        BY <3>2, Appended
      <4> QED
        BY <2>2, <3>4, <4>1 DEF Waits
    <3> QED
      BY <3>1, <3>3, <3>4
  <2> QED
    BY <2>1, <2>2, FewerWait
<1>10. CASE LookUpStream
  <2>1. /\ reader.at = "response" /\ UNCHANGED <<log, mailbox, incoming, received>>
        /\ reader' = Idle \/ (reader'.at = "found" /\ reader'.envelope = reader.envelope)
    BY <1>10 DEF LookUpStream
  <2>2. \A r \in Callers : \A i : ~ Waits(r, i)
    BY <2>1, NothingWaits
  <2> QED
    BY <2>1, <2>2 DEF Order, HandledInOrder, OneWaits, WaitingIsNext, Waits, ReaderIsNext,
       IncomingIsLater, LogIsRead, NotHandled, Idle
<1>11. CASE GoOn
  <2> DEFINE e == reader.envelope
  <2>1. /\ reader.at = "waiting" /\ UNCHANGED <<log, mailbox, incoming, received>> /\ reader' = Idle
        /\ ~ Contains(mailbox[e.to], e)
    BY <1>11 DEF GoOn, Released
  <2>2. \A r \in Callers : \A i : ~ Waits(r, i)
    <3> SUFFICES ASSUME NEW r \in Callers, NEW i, Waits(r, i) PROVE FALSE
      OBVIOUS
    <3>1. mailbox[r][i] = e /\ mailbox[r][i] # Closed /\ i \in DOMAIN mailbox[r]
      BY <2>1 DEF Order, WaitingIsNext, Waits
    <3>2. mailbox[r] \in Seq(For(r))
      BY DEF Types, ChannelsAreRight
    <3>3. e \in For(r) /\ i \in 1 .. Len(mailbox[r])
      BY <3>1, <3>2, ChannelTypes, LenProperties
    <3>4. e.to = r
      BY <3>1, <3>3 DEF For
    <3> QED
      BY <2>1, <3>1, <3>3, <3>4 DEF Contains
  <2> QED
    BY <2>1, <2>2 DEF Order, HandledInOrder, OneWaits, WaitingIsNext, Waits, ReaderIsNext,
       IncomingIsLater, LogIsRead, NotHandled, Idle
<1>12. CASE Leave
  <2>1. /\ UNCHANGED <<log, mailbox, received>> /\ reader' = [at |-> "gone"] /\ incoming' = <<>>
    BY <1>12 DEF Leave
  <2> QED
    BY <2>1, NothingInEmpty DEF Order, HandledInOrder, OneWaits, WaitingIsNext, Waits,
       ReaderIsNext, IncomingIsLater, LogIsRead, NotHandled
<1>13. CASE UNCHANGED vars
  BY <1>1, <1>13 DEF vars
<1> QED
  BY <1>2, <1>3, <1>4, <1>5, <1>6, <1>7, <1>8, <1>9, <1>10, <1>11, <1>12, <1>13,
     IoReadsInOrder, TakeInOrder, DeliverInOrder DEF Next, Calls, End, Read

\* Envelopes are handled in the order they came in, whoever handles them, for any
\* number of requests and envelopes.
THEOREM HandledInOrderHolds == Spec => []HandledInOrder
<1>1. Init => Order
  <2> SUFFICES ASSUME Init PROVE Order
    OBVIOUS
  <2>1. \A r \in Callers : \A i : ~ Waits(r, i)
    BY NothingInEmpty DEF Init, Waits
  <2> QED
    BY <2>1, NothingInEmpty DEF Init, Order, HandledInOrder, OneWaits, WaitingIsNext,
       ReaderIsNext, IncomingIsLater, LogIsRead, Idle
<1>2. Order => HandledInOrder
  BY DEF Order
<1> QED
  BY <1>1, <1>2, OrderStep, TypesHold, PTL DEF Spec

-----------------------------------------------------------------------------
(***************************************************************************)
(* What a caller is given was sent by the other side, or says that the     *)
(* connection is over; and a caller that is not answered, with the         *)
(* connection not over, has its answer coming.                             *)
(***************************************************************************)
Over == ~connected \/ io # "running"

Standing == {"idle", "found", "registered", "sent", "streaming", "answered", "ended", "failed",
             "dropped"}

Given(e) == e.kind \in {"answer", "end"} => e.to \in replied

ChannelsAreGenuine ==
    \A r \in Callers : \A i \in DOMAIN mailbox[r] :
        IF mailbox[r][i] = Closed THEN io # "running" ELSE Given(mailbox[r][i])

ReadIsGenuine ==
    /\ \A k \in DOMAIN incoming : Given(incoming[k])
    /\ reader.at \in {"response", "found", "waiting"} => Given(reader.envelope)

ToldIsGenuine ==
    \A s \in Streaming :
        /\ told[s] = "end" => s \in replied
        /\ told[s] = "closed" => io # "running"

SentByCallers ==
    /\ \A r \in written : caller[r] \notin {"idle", "found"}
    /\ \A k \in DOMAIN outgoing : caller[outgoing[k]] \notin {"idle", "found"}
    /\ \A r \in Single : caller[r] \notin {"streaming", "ended"}
    /\ \A s \in Streaming : caller[s] # "answered"

AnswerIsComing ==
    \A r \in Single : caller[r] \in {"registered", "sent"} =>
        Over \/ mailbox[r] # <<>> \/ Held(r) \/ Holds(responses, r)

Answers ==
    /\ ChannelsAreGenuine
    /\ ReadIsGenuine
    /\ ToldIsGenuine
    /\ SentByCallers
    /\ AnswerIsComing

\* Answers are not taken back, and a connection that is over stays so.
LEMMA NothingIsTakenBack ==
    ASSUME [Next]_vars
    PROVE  replied \subseteq replied' /\ (io # "running" => io' # "running") /\ (Over => Over')
<1> USE DEF Over, ioVars, tables, callerVars, peerVars, Ending
<1>1. ASSUME NEW r \in Callers, Find(r) \/ Register(r) \/ Emit(r) \/ Drop(r)
      PROVE  UNCHANGED <<replied, io, connected>>
  BY <1>1 DEF Find, Register, Emit, Drop
<1>2. ASSUME NEW r \in Single, Resume(r) \/ Cancelled(r) PROVE UNCHANGED <<replied, io, connected>>
  BY <1>2 DEF Resume, Cancelled
<1>3. ASSUME NEW s \in Streaming, Poll(s) \/ Pull(s) \/ EndOfStream(s)
      PROVE  UNCHANGED <<replied, io, connected>>
  BY <1>3 DEF Poll, Pull, EndOfStream
<1>4. CASE Disconnect \/ RemoveConnection
  <2>1. UNCHANGED replied /\ ~ connected' /\ (io # "running" => io' # "running")
    BY <1>4 DEF Disconnect, RemoveConnection
  <2> QED
    BY <2>1
<1>8. CASE IoWrites \/ IoFails \/ IoIsDone \/ TakeResponses \/ TakeStreams \/ DropChannels
  <2>1. UNCHANGED <<replied, connected>> /\ (io # "running" => io' # "running")
    BY <1>8 DEF IoWrites, IoFails, IoIsDone, TakeResponses, TakeStreams, DropChannels
  <2> QED
    BY <2>1
<1>5. CASE IoReads
  BY <1>5 DEF IoReads
<1>6. CASE Take \/ LookUpStream \/ Deliver \/ GoOn \/ Leave
  BY <1>6 DEF Take, LookUpStream, Deliver, GoOn, Leave
<1>7. CASE UNCHANGED vars
  BY <1>7 DEF vars
<1> QED
  BY <1>1, <1>2, <1>3, <1>4, <1>5, <1>6, <1>7, <1>8 DEF Next, Calls, End, Read

\* The channels of callers hold what was in them, what the reader delivers, or the
\* news that the connection is over.
LEMMA ChannelsAreGenuineStep ==
    ASSUME Types, Answers, [Next]_vars
    PROVE  ChannelsAreGenuine'
<1> SUFFICES ASSUME NEW q \in Callers, NEW j \in DOMAIN mailbox'[q]
             PROVE  IF mailbox'[q][j] = Closed THEN io' # "running" ELSE Given(mailbox[q][j])'
  BY DEF ChannelsAreGenuine
<1> USE DEF ioVars, tables, callerVars, peerVars, Ending
<1>a. mailbox \in [Callers -> Seq(Item)] /\ Single \subseteq Callers /\ Streaming \subseteq Callers
  BY DEF Types, TypeOK, Callers, Item
<1>1. ASSUME NEW i \in DOMAIN mailbox[q], mailbox'[q][j] = mailbox[q][i]
      PROVE  IF mailbox'[q][j] = Closed THEN io' # "running" ELSE Given(mailbox[q][j])'
  BY <1>1, NothingIsTakenBack DEF Answers, ChannelsAreGenuine, Given
<1>2. CASE mailbox'[q] = mailbox[q]
  BY <1>1, <1>2
<1>3. ASSUME NEW r \in Callers, Find(r) \/ Register(r) \/ Emit(r) PROVE mailbox' = mailbox
  BY <1>3 DEF Find, Register, Emit
<1>4. ASSUME NEW r \in Callers, Drop(r) PROVE mailbox'[q] = mailbox[q]
  BY <1>4, <1>a, NothingInEmpty DEF Drop
<1>5. ASSUME NEW r \in Single, Resume(r) \/ Cancelled(r) PROVE mailbox'[q] = mailbox[q]
  BY <1>5, <1>a, NothingInEmpty DEF Resume, Cancelled
<1>6. ASSUME NEW s \in Streaming, Poll(s) \/ EndOfStream(s) PROVE mailbox' = mailbox
  BY <1>6 DEF Poll, EndOfStream
<1>7. ASSUME NEW s \in Streaming, Pull(s)
      PROVE  mailbox'[q] = mailbox[q] \/ \E i \in DOMAIN mailbox[q] : mailbox'[q][j] = mailbox[q][i]
  BY <1>7, <1>a, FirstTaken DEF Pull
<1>8. CASE Disconnect \/ IoWrites \/ IoReads \/ IoFails \/ IoIsDone \/ TakeResponses
              \/ RemoveConnection \/ DropChannels \/ Take \/ LookUpStream \/ GoOn \/ Leave
  BY <1>2, <1>8 DEF Disconnect, IoWrites, IoReads, IoFails, IoIsDone, TakeResponses,
     RemoveConnection, DropChannels, Take, LookUpStream, GoOn, Leave
<1>9. CASE TakeStreams
  <2>1. mailbox'[q] = mailbox[q] \/ mailbox'[q] = Append(mailbox[q], Closed)
    BY <1>9 DEF TakeStreams
  <2>2. (\E i \in DOMAIN mailbox[q] : mailbox'[q][j] = mailbox[q][i]) \/ mailbox'[q][j] = Closed
    BY <1>a, <2>1, Appended DEF Item
  <2>3. io' # "running"
    BY <1>9 DEF TakeStreams
  <2> QED
    BY <1>1, <2>2, <2>3
<1>10. CASE Deliver
  <2> DEFINE e == reader.envelope
  <2>1. e \in Envelope /\ e # Closed /\ Given(e) /\ UNCHANGED replied
    BY <1>10, EnvelopeTypes DEF Deliver, Types, TypeOK, Answers, ReadIsGenuine
  <2>2. mailbox'[q] = mailbox[q] \/ mailbox'[q] = Append(mailbox[q], e)
    BY <1>10, <1>a DEF Deliver
  <2>3. (\E i \in DOMAIN mailbox[q] : mailbox'[q][j] = mailbox[q][i]) \/ mailbox'[q][j] = e
    <3> HIDE DEF e
    <3> QED
      BY <1>a, <2>1, <2>2, Appended DEF Item
  <2> QED
    BY <1>1, <2>1, <2>3 DEF Given
<1>11. CASE UNCHANGED vars
  BY <1>2, <1>11 DEF vars
<1> QED
  BY <1>1, <1>2, <1>3, <1>4, <1>5, <1>6, <1>7, <1>8, <1>9, <1>10, <1>11 DEF Next, Calls, End, Read

\* What is read from the socket was sent by the other side.
LEMMA ReadIsGenuineStep ==
    ASSUME Types, Answers, [Next]_vars
    PROVE  ReadIsGenuine'
<1> USE DEF ioVars, tables, callerVars, peerVars, Ending
<1>1. CASE UNCHANGED <<incoming, reader>>
  BY <1>1, NothingIsTakenBack DEF Answers, ReadIsGenuine, Given
<1>2. CASE Calls
  BY <1>1, <1>2 DEF Calls, Find, Register, Emit, Drop, Resume, Cancelled, Poll, Pull, EndOfStream
<1>3. CASE Disconnect \/ IoWrites \/ IoFails \/ End
  BY <1>1, <1>3 DEF Disconnect, IoWrites, IoFails, End, IoIsDone, TakeResponses, TakeStreams,
     RemoveConnection, DropChannels
<1>4. CASE IoReads
  <2> PICK to \in Callers \union {NoRequest}, kind \in {"message", "answer", "item", "end"} :
          /\ MaySend(to, kind)
          /\ incoming' = Append(incoming, [n |-> received', to |-> to, kind |-> kind])
          /\ replied' = IF kind \in {"answer", "end"} THEN replied \union {to} ELSE replied
    BY <1>4 DEF IoReads
  <2> DEFINE e == [n |-> received', to |-> to, kind |-> kind]
  <2>1. e \in Envelope
    <3>1. received' \in 1 .. MaxEnvelopes
      BY <1>4, PeerAssumption DEF IoReads, Types, TypeOK
    <3> QED
      BY <3>1 DEF Envelope, MaySend
  <2>2. /\ e.kind \in {"answer", "end"} => e.to \in replied'
        /\ incoming' = Append(incoming, e) /\ UNCHANGED reader
    BY <1>4 DEF IoReads
  <2> HIDE DEF e
  <2>3. \A k \in DOMAIN incoming' :
            (k \in DOMAIN incoming /\ incoming'[k] = incoming[k]) \/ incoming'[k] = e
    <3>1. incoming \in Seq(Envelope)
      BY DEF Types, TypeOK
    <3>2. /\ \A i \in DOMAIN incoming : Append(incoming, e)[i] = incoming[i]
          /\ \A i \in DOMAIN Append(incoming, e) : i \in DOMAIN incoming \/ i = Len(incoming) + 1
          /\ Append(incoming, e)[Len(incoming) + 1] = e
      BY <2>1, <3>1, Appended
    <3> QED
      BY <2>2, <3>2
  <2>4. ASSUME NEW x, Given(x) PROVE x.kind \in {"answer", "end"} => x.to \in replied'
    BY <2>4, NothingIsTakenBack DEF Given
  <2>5. \A k \in DOMAIN incoming' : incoming'[k].kind \in {"answer", "end"} => incoming'[k].to \in replied'
    BY <2>2, <2>3, <2>4 DEF Answers, ReadIsGenuine
  <2>6. reader.at \in {"response", "found", "waiting"} =>
            (reader.envelope.kind \in {"answer", "end"} => reader.envelope.to \in replied')
    BY <2>4 DEF Answers, ReadIsGenuine
  <2> QED
    BY <2>2, <2>5, <2>6 DEF ReadIsGenuine, Given
<1>5. CASE Take
  <2>1. incoming \in Seq(Envelope) /\ incoming # <<>> /\ incoming' = Tail(incoming) /\ UNCHANGED replied
    BY <1>5 DEF Take, Types, TypeOK
  <2>2. /\ 1 \in DOMAIN incoming /\ Head(incoming) = incoming[1]
        /\ \A k \in DOMAIN incoming' : k + 1 \in DOMAIN incoming /\ incoming'[k] = incoming[k + 1]
    BY <2>1, FirstTaken
  <2>3. reader' = reader \/ reader'.envelope = Head(incoming)
    BY <1>5 DEF Take
  <2> QED
    BY <2>1, <2>2, <2>3 DEF Answers, ReadIsGenuine, Given
<1>6. CASE LookUpStream \/ Deliver \/ GoOn
  <2>1. /\ UNCHANGED <<incoming, replied>> /\ reader.at \in {"response", "found", "waiting"}
        /\ reader' = Idle \/ reader'.envelope = reader.envelope
    BY <1>6 DEF LookUpStream, Deliver, GoOn
  <2> QED
    BY <2>1 DEF Answers, ReadIsGenuine, Given, Idle
<1>7. CASE Leave
  BY <1>7, NothingInEmpty DEF Leave, ReadIsGenuine
<1>8. CASE UNCHANGED vars
  BY <1>1, <1>8 DEF vars
<1> QED
  BY <1>2, <1>3, <1>4, <1>5, <1>6, <1>7, <1>8 DEF Next, Read

\* A stream is told what was in its channel.
LEMMA ToldIsGenuineStep ==
    ASSUME Types, Answers, [Next]_vars
    PROVE  ToldIsGenuine'
<1> USE DEF ioVars, tables, callerVars, peerVars, Ending
<1>1. CASE UNCHANGED told
  BY <1>1, NothingIsTakenBack DEF Answers, ToldIsGenuine
<1>2. ASSUME NEW s \in Streaming, Pull(s) PROVE ToldIsGenuine'
  <2> DEFINE item == Head(mailbox[s])
  <2>1. s \in Callers /\ mailbox[s] # <<>> /\ UNCHANGED <<replied, io>>
        /\ told' = [told EXCEPT ![s] = IF item.kind = "item" THEN @ ELSE item.kind]
    BY <1>2 DEF Pull, Callers
  <2>2. item \in For(s) /\ 1 \in DOMAIN mailbox[s] /\ item = mailbox[s][1]
    <3>1. mailbox[s] \in Seq(For(s))
      BY <2>1 DEF Types, ChannelsAreRight
    <3> QED
      BY <2>1, <3>1, ChannelTypes, FirstTaken
  <2>3. IF item = Closed THEN io # "running" ELSE Given(item)
    BY <2>1, <2>2 DEF Answers, ChannelsAreGenuine
  <2>4. item # Closed => item.to = s
    BY <2>2 DEF For
  <2>5. item.kind \in {"item", "end", "closed"} /\ (item.kind = "closed" <=> item = Closed)
    BY <2>1, <2>2, ItemTypes
  <2>6. (item.kind = "end" => s \in replied) /\ (item.kind = "closed" => io # "running")
    BY <2>3, <2>4, <2>5 DEF Given
  <2> HIDE DEF item
  <2> QED
    BY <2>1, <2>5, <2>6 DEF Answers, ToldIsGenuine, Types, TypeOK
<1>3. ASSUME NEW r \in Callers, Find(r) \/ Register(r) \/ Emit(r) \/ Drop(r) PROVE UNCHANGED told
  BY <1>3 DEF Find, Register, Emit, Drop
<1>4. ASSUME NEW r \in Single, Resume(r) \/ Cancelled(r) PROVE UNCHANGED told
  BY <1>4 DEF Resume, Cancelled
<1>5. ASSUME NEW s \in Streaming, Poll(s) \/ EndOfStream(s) PROVE UNCHANGED told
  BY <1>5 DEF Poll, EndOfStream
<1>6. CASE Disconnect \/ IoWrites \/ IoReads \/ IoFails \/ End \/ Read \/ Leave \/ UNCHANGED vars
  <2>1. UNCHANGED told
    BY <1>6 DEF Disconnect, IoWrites, IoReads, IoFails, End, IoIsDone, TakeResponses, TakeStreams,
       RemoveConnection, DropChannels, Read, Take, LookUpStream, Deliver, GoOn, Leave, vars
  <2> QED
    BY <1>1, <2>1
<1> QED
  BY <1>1, <1>2, <1>3, <1>4, <1>5, <1>6 DEF Next, Calls

\* Whoever has a request on the wire, or in the queue for it, has made it.
LEMMA SentByCallersStep ==
    ASSUME Types, Answers, [Next]_vars
    PROVE  SentByCallers'
<1> USE DEF ioVars, tables, callerVars, peerVars, Move, Ending
<1>a. caller \in [Callers -> Standing] /\ SentByCallers /\ Single \cap Streaming = {}
      /\ Single \subseteq Callers /\ Streaming \subseteq Callers
  BY PeerAssumption DEF Types, TypeOK, Answers, Callers, Standing
<1>b. outgoing \in Seq(Callers) /\ written \subseteq Callers
  BY DEF Types, TypeOK
<1>1. CASE UNCHANGED <<caller, outgoing, written>>
  BY <1>1, <1>a DEF SentByCallers
\* One request moves on, and stays what it was if it was not to be answered yet.
<1>2. ASSUME NEW r \in Callers, NEW to, caller' = [caller EXCEPT ![r] = to],
             UNCHANGED <<outgoing, written>>, to \in {"idle", "found"} => caller[r] \in {"idle", "found"},
             r \in Single => to \notin {"streaming", "ended"}, r \in Streaming => to # "answered"
      PROVE  SentByCallers'
  <2>1. \A q \in Callers : caller'[q] \in {"idle", "found"} => caller[q] \in {"idle", "found"}
    BY <1>a, <1>2
  <2>2. \A k \in DOMAIN outgoing : outgoing[k] \in Callers
    BY <1>b, ChannelTypes
  <2>3. /\ \A q \in Single : caller'[q] \notin {"streaming", "ended"}
        /\ \A q \in Streaming : caller'[q] # "answered"
    BY <1>a, <1>2 DEF SentByCallers
  <2> QED
    BY <1>a, <1>b, <1>2, <2>1, <2>2, <2>3 DEF SentByCallers
<1>3. ASSUME NEW r \in Callers, Find(r) \/ Register(r) PROVE SentByCallers'
  <2> PICK to \in {"found", "failed", "registered"} : caller' = [caller EXCEPT ![r] = to]
    BY <1>3 DEF Find, Register
  <2>1. to = "found" => caller[r] = "idle"
    BY <1>3, <1>a DEF Find, Register
  <2>2. UNCHANGED <<outgoing, written>>
    BY <1>3 DEF Find, Register
  <2> QED
    BY <1>2, <2>1, <2>2
<1>4. ASSUME NEW r \in Callers, Emit(r) PROVE SentByCallers'
  <2>1. /\ caller' = [caller EXCEPT ![r] = IF io = "ended" THEN "failed" ELSE "sent"]
        /\ outgoing' = outgoing \/ outgoing' = Append(outgoing, r)
        /\ UNCHANGED written
    BY <1>4 DEF Emit
  <2>2. /\ \A q \in Callers : caller'[q] \in {"idle", "found"} => caller[q] \in {"idle", "found"}
        /\ caller'[r] \notin {"idle", "found"}
    BY <1>a, <2>1
  <2>3. \A k \in DOMAIN outgoing' : (k \in DOMAIN outgoing /\ outgoing'[k] = outgoing[k]) \/ outgoing'[k] = r
    BY <1>b, <2>1, Appended
  <2>4. \A k \in DOMAIN outgoing : outgoing[k] \in Callers
    BY <1>b, ChannelTypes
  <2>5. /\ \A q \in Single : caller'[q] \notin {"streaming", "ended"}
        /\ \A q \in Streaming : caller'[q] # "answered"
    BY <1>a, <2>1 DEF SentByCallers
  <2> QED
    BY <1>a, <1>b, <2>1, <2>2, <2>3, <2>4, <2>5 DEF SentByCallers
<1>5. ASSUME NEW r \in Callers, Drop(r) PROVE SentByCallers'
  BY <1>2, <1>5 DEF Drop
<1>6. ASSUME NEW r \in Single, Resume(r) \/ Cancelled(r) PROVE SentByCallers'
  <2>1. r \in Callers /\ r \notin Streaming
    BY <1>a
  <2> QED
    BY <1>2, <1>6, <2>1 DEF Resume, Cancelled
<1>7. ASSUME NEW s \in Streaming, Poll(s) \/ EndOfStream(s) PROVE SentByCallers'
  <2>1. s \in Callers /\ s \notin Single
    BY <1>a
  <2> QED
    BY <1>2, <1>7, <2>1 DEF Poll, EndOfStream
<1>8. ASSUME NEW s \in Streaming, Pull(s) PROVE SentByCallers'
  BY <1>1, <1>8 DEF Pull
<1>9. CASE IoWrites
  <2>1. /\ outgoing # <<>> /\ outgoing' = Tail(outgoing) /\ UNCHANGED caller
        /\ written' = written \union {Head(outgoing)}
    BY <1>9 DEF IoWrites
  <2>2. /\ 1 \in DOMAIN outgoing /\ Head(outgoing) = outgoing[1]
        /\ \A k \in DOMAIN outgoing' : k + 1 \in DOMAIN outgoing /\ outgoing'[k] = outgoing[k + 1]
    BY <1>b, <2>1, FirstTaken
  <2> QED
    BY <1>a, <2>1, <2>2 DEF SentByCallers
<1>10. CASE DropChannels
  BY <1>10, <1>a, NothingInEmpty DEF DropChannels, SentByCallers
<1>11. CASE Disconnect \/ IoReads \/ IoFails \/ IoIsDone \/ TakeResponses \/ TakeStreams
               \/ RemoveConnection \/ Read \/ Leave \/ UNCHANGED vars
  <2>1. UNCHANGED <<caller, outgoing, written>>
    BY <1>11 DEF Disconnect, IoReads, IoFails, IoIsDone, TakeResponses, TakeStreams,
       RemoveConnection, Read, Take, LookUpStream, Deliver, GoOn, Leave, vars
  <2> QED
    BY <1>1, <2>1
<1> QED
  BY <1>3, <1>4, <1>5, <1>6, <1>7, <1>8, <1>9, <1>10, <1>11 DEF Next, Calls, End

\* A request with one answer that is not answered yet is in the table, or its
\* answer is with the reader or in its channel, unless the connection is over.
LEMMA AnswerIsComingStep ==
    ASSUME Types, Answers, [Next]_vars
    PROVE  AnswerIsComing'
<1> SUFFICES ASSUME NEW r \in Single, caller'[r] \in {"registered", "sent"}, ~ Over'
             PROVE  mailbox'[r] # <<>> \/ Held(r)' \/ Holds(responses, r)'
  BY DEF AnswerIsComing
<1> USE DEF ioVars, tables, callerVars, peerVars, Move, Ending
<1>a. r \in Callers /\ r \notin Streaming /\ caller \in [Callers -> Standing]
      /\ mailbox \in [Callers -> Seq(Item)]
  BY PeerAssumption DEF Types, TypeOK, Callers, Item, Standing
<1>b. ~ Over /\ io = "running" /\ responses # Taken /\ streams # Taken
  BY NothingIsTakenBack DEF Over, Types, TablesAreTaken
<1>c. io' = "running" /\ responses' # Taken
  <2>1. io' = "running"
    BY DEF Over
  <2>2. responses' = Taken <=> io' \notin {"running", "failing"}
    BY TypesStep DEF Types, TablesAreTaken
  <2> QED
    BY <2>1, <2>2
<1>1. ASSUME caller[r] \in {"registered", "sent"}
      PROVE  mailbox[r] # <<>> \/ Held(r) \/ Holds(responses, r)
  BY <1>1, <1>b DEF Answers, AnswerIsComing
<1>2. CASE caller[r] \in {"registered", "sent"} /\ mailbox'[r] = mailbox[r] /\ UNCHANGED <<reader, responses>>
  BY <1>1, <1>2 DEF Held, Holds
<1>3. ASSUME NEW q \in Callers, Find(q) \/ Emit(q) \/ Drop(q)
      PROVE  caller[r] \in {"registered", "sent"} /\ mailbox'[r] = mailbox[r] /\ UNCHANGED <<reader, responses>>
  <2>1. CASE q = r
    <3>1. Emit(r) /\ UNCHANGED <<mailbox, reader, responses>>
      BY <1>3, <1>a, <2>1 DEF Find, Emit, Drop
    <3> QED
      BY <3>1 DEF Emit
  <2>2. CASE q # r
    <3>1. caller'[r] = caller[r]
      BY <1>3, <1>a, <2>2 DEF Find, Emit, Drop
    <3>2. mailbox'[r] = mailbox[r] /\ UNCHANGED <<reader, responses>>
      BY <1>3, <1>a, <2>2 DEF Find, Emit, Drop
    <3> QED
      BY <3>1, <3>2
  <2> QED
    BY <2>1, <2>2
<1>4. ASSUME NEW q \in Callers, Register(q)
      PROVE  mailbox'[r] # <<>> \/ Held(r)' \/ Holds(responses, r)'
  <2>2. q \in Single => responses' = responses \union {q} /\ responses' # Taken
    BY <1>4, <1>b, <1>c DEF Register
  <2>3. CASE q = r
    BY <2>2, <2>3 DEF Holds
  <2>4. CASE q # r
    <3>1. caller[r] \in {"registered", "sent"} /\ UNCHANGED <<mailbox, reader>>
      BY <1>4, <1>a, <2>4 DEF Register
    <3>2. Holds(responses, r) => Holds(responses, r)'
      <4>1. CASE q \in Single
        BY <2>2, <4>1 DEF Holds
      <4>2. CASE q \notin Single
        BY <1>4, <4>2 DEF Register, Holds
      <4> QED
        BY <4>1, <4>2
    <3> QED
      BY <1>1, <3>1, <3>2 DEF Held
  <2> QED
    BY <2>3, <2>4
<1>5. ASSUME NEW q \in Single, Resume(q) \/ Cancelled(q)
      PROVE  caller[r] \in {"registered", "sent"} /\ mailbox'[r] = mailbox[r] /\ UNCHANGED <<reader, responses>>
  <2>1. q \in Callers /\ q # r
    BY <1>5, <1>a DEF Resume, Cancelled, Callers
  <2> QED
    BY <1>5, <1>a, <2>1 DEF Resume, Cancelled
<1>6. ASSUME NEW s \in Streaming, Poll(s) \/ Pull(s) \/ EndOfStream(s)
      PROVE  caller[r] \in {"registered", "sent"} /\ mailbox'[r] = mailbox[r] /\ UNCHANGED <<reader, responses>>
  <2>1. s \in Callers /\ s # r
    BY <1>a DEF Callers
  <2> QED
    BY <1>6, <1>a, <2>1 DEF Poll, Pull, EndOfStream
<1>7. CASE Disconnect \/ IoWrites \/ IoReads \/ IoFails \/ IoIsDone \/ TakeResponses \/ TakeStreams
              \/ RemoveConnection \/ DropChannels
  BY <1>2, <1>7, <1>c DEF Disconnect, IoWrites, IoReads, IoFails, IoIsDone, TakeResponses,
     TakeStreams, RemoveConnection, DropChannels
<1>8. CASE Take
  <2>1. caller[r] \in {"registered", "sent"} /\ mailbox'[r] = mailbox[r] /\ reader.at = "idle"
    BY <1>8 DEF Take
  <2>2. Holds(responses, r) \/ mailbox[r] # <<>>
    BY <1>1, <2>1 DEF Held
  <2>3. CASE UNCHANGED responses
    BY <2>1, <2>2, <2>3 DEF Holds
  <2>4. CASE /\ responses' = responses \ {Head(incoming).to}
             /\ reader' = [at |-> "response", envelope |-> Head(incoming),
                           single |-> Head(incoming).to \in responses]
    <3>1. CASE Head(incoming).to = r /\ r \in responses
      BY <2>4, <3>1 DEF Held
    <3>2. CASE ~ (Head(incoming).to = r /\ r \in responses)
      BY <1>c, <2>1, <2>2, <2>4, <3>2 DEF Holds
    <3> QED
      BY <3>1, <3>2
  <2> QED
    BY <1>8, <2>3, <2>4 DEF Take
<1>9. CASE LookUpStream
  <2>1. /\ caller[r] \in {"registered", "sent"} /\ UNCHANGED <<mailbox, responses>>
        /\ reader.at = "response"
        /\ reader' = IF ~(reader.single \/ reader.envelope.to \in streams) THEN Idle
                     ELSE [at |-> "found", envelope |-> reader.envelope, single |-> reader.single,
                           stream |-> reader.envelope.to \in streams]
    BY <1>9, <1>b DEF LookUpStream
  <2>2. Held(r) => Held(r)'
    BY <2>1 DEF Held
  <2> QED
    BY <1>1, <2>1, <2>2 DEF Holds
<1>10. CASE Deliver
  <2> DEFINE e == reader.envelope
  <2>1. caller[r] \in {"registered", "sent"} /\ UNCHANGED <<responses, caller>> /\ reader.at = "found"
        /\ mailbox' = IF caller[e.to] = "dropped" THEN mailbox ELSE [mailbox EXCEPT ![e.to] = Append(@, e)]
    BY <1>10 DEF Deliver
  <2>2. CASE e.to = r
    <3>1. mailbox'[r] = Append(mailbox[r], e) /\ e \in Item
      BY <1>a, <2>1, <2>2 DEF Types, TypeOK, Item
    <3>2. Append(mailbox[r], e) # <<>>
      <4>1. mailbox[r] \in Seq(Item)
        BY <1>a
      <4> HIDE DEF e
      <4>2. Len(mailbox[r]) + 1 \in DOMAIN Append(mailbox[r], e)
        BY <3>1, <4>1, Appended
      <4> QED
        BY <4>2, NothingInEmpty
    <3> QED
      BY <3>1, <3>2
  <2>3. CASE e.to # r
    BY <1>1, <1>a, <2>1, <2>3 DEF Held, Holds
  <2> QED
    BY <2>2, <2>3
<1>11. CASE GoOn \/ Leave
  BY <1>1, <1>11 DEF GoOn, Leave, Held, Holds
<1>12. CASE UNCHANGED vars
  BY <1>2, <1>12 DEF vars
<1> QED
  BY <1>2, <1>3, <1>4, <1>5, <1>6, <1>7, <1>8, <1>9, <1>10, <1>11, <1>12 DEF Next, Calls, End, Read

\* Answers are given, or coming, at every step.
LEMMA AnswersHold == Spec => [](Types /\ EndIsComing /\ Answers)
<1>1. Init => Types /\ EndIsComing /\ Answers
  <2> SUFFICES ASSUME Init PROVE EndIsComing /\ Answers
    BY TypesInit
  <2>1. /\ \A r \in Callers : caller[r] = "idle" /\ mailbox[r] = <<>>
        /\ \A s \in Streaming : s \in Callers /\ told[s] = "nothing"
        /\ \A r \in Single : r \in Callers
        /\ written = {} /\ outgoing = <<>> /\ incoming = <<>> /\ reader.at = "idle"
    BY DEF Init, Callers, Idle
  <2>2. EndIsComing /\ AnswerIsComing /\ SentByCallers
    BY <2>1, NothingInEmpty DEF EndIsComing, AnswerIsComing, SentByCallers
  <2>3. ChannelsAreGenuine /\ ReadIsGenuine /\ ToldIsGenuine
    BY <2>1, NothingInEmpty DEF ChannelsAreGenuine, ReadIsGenuine, ToldIsGenuine
  <2> QED
    BY <2>2, <2>3 DEF Answers
<1>2. Types /\ EndIsComing /\ Answers /\ [Next]_vars => (Types /\ EndIsComing /\ Answers)'
  BY TypesStep, EndIsComingStep, ChannelsAreGenuineStep, ReadIsGenuineStep, ToldIsGenuineStep,
     SentByCallersStep, AnswerIsComingStep DEF Answers
<1> QED
  BY <1>1, <1>2, PTL DEF Spec

-----------------------------------------------------------------------------
(***************************************************************************)
(* Each step of the connection is a step of Requests, or none of it.       *)
(***************************************************************************)
Statuses == [r \in Callers |-> Status(r)]

\* The request that moves on is the only one whose status changes.
LEMMA OneMoves ==
    ASSUME Types, NEW r \in Callers, NEW to, caller' = [caller EXCEPT ![r] = to], UNCHANGED told
    PROVE  /\ caller'[r] = to
           /\ Statuses' = [Statuses EXCEPT ![r] = Status(r)']
           /\ Statuses[r] = Status(r)
           /\ Status(r)' = Status(r) => Statuses' = Statuses
<1>1. caller \in [Callers -> Standing]
  BY DEF Types, TypeOK, Standing
<1>2. caller'[r] = to /\ \A q \in Callers : q # r => Status(q)' = Status(q)
  BY <1>1 DEF Status
<1> HIDE DEF Status
<1> QED
  BY <1>2 DEF Statuses

\* What a stream has been told is not seen before its end.
LEMMA NoneMoves ==
    ASSUME UNCHANGED caller, \A s \in Streaming : caller[s] = "ended" => told'[s] = told[s],
           Answers
    PROVE  Statuses' = Statuses
<1>1. \A q \in Single : caller[q] # "ended"
  BY DEF Answers, SentByCallers
<1>2. \A q \in Callers : Status(q)' = Status(q)
  BY <1>1 DEF Status, Callers
<1> QED
  BY <1>2 DEF Statuses

\* The steps of the callers.
LEMMA CallersStepByStep ==
    ASSUME Types, EndIsComing, Answers, Calls
    PROVE  [Table!Next]_(Table!vars)
<1> USE DEF ioVars, tables, callerVars, peerVars, Move
<1>a. /\ Over' = Over /\ UNCHANGED replied
  BY DEF Calls, Find, Register, Emit, Drop, Resume, Cancelled, Poll, Pull, EndOfStream, Over
<1>1. ASSUME Statuses' = Statuses PROVE UNCHANGED Table!vars
  BY <1>a, <1>1 DEF Table!vars, Statuses, Over
<1>2. ASSUME NEW r \in Callers, NEW to, UNCHANGED told,
             caller' = [caller EXCEPT ![r] = to],
             \/ /\ Statuses[r] = "idle" /\ Status(r)' = "pending"
             \/ /\ Statuses[r] = "pending" /\ Status(r)' = "abandoned"
             \/ /\ Statuses[r] \in {"idle", "pending"} /\ Status(r)' = "failed" /\ Over
             \/ /\ Statuses[r] = "pending" /\ Status(r)' = "answered" /\ r \in replied
      PROVE  Table!Next
  <2>1. Statuses' = [Statuses EXCEPT ![r] = Status(r)']
    BY <1>2, OneMoves
  <2>2. Table!Make(r) \/ Table!Abandon(r) \/ Table!Fail(r) \/ Table!Answer(r)
    BY <1>a, <1>2, <2>1 DEF Table!Make, Table!Abandon, Table!Fail, Table!Answer, Table!Become,
       Statuses, Over
  <2> QED
    BY <2>2 DEF Table!Next
<1>3. ASSUME NEW r \in Callers, Find(r) PROVE [Table!Next]_(Table!vars)
  <2> DEFINE to == IF connected THEN "found" ELSE "failed"
  <2>1. caller[r] = "idle" /\ caller' = [caller EXCEPT ![r] = to] /\ UNCHANGED told
    BY <1>3 DEF Find
  <2>2. caller'[r] = to /\ Statuses[r] = Status(r) /\ (Status(r)' = Status(r) => Statuses' = Statuses)
    BY <2>1, OneMoves
  <2>3. CASE connected
    <3>1. Status(r)' = Status(r)
      BY <2>1, <2>2, <2>3 DEF Status
    <3> QED
      BY <1>1, <2>2, <3>1
  <2>4. CASE ~ connected
    <3>1. Status(r) = "idle" /\ Status(r)' = "failed" /\ Over
      BY <2>1, <2>2, <2>4 DEF Status, Over
    <3> QED
      BY <1>2, <2>1, <2>2, <3>1
  <2> QED
    BY <2>3, <2>4
<1>4. ASSUME NEW r \in Callers, Register(r) PROVE [Table!Next]_(Table!vars)
  <2> DEFINE table == IF r \in Single THEN responses ELSE streams
             to == IF table = Taken THEN "failed" ELSE "registered"
  <2>1. caller[r] = "found" /\ caller' = [caller EXCEPT ![r] = to] /\ UNCHANGED told
    BY <1>4 DEF Register
  <2>2. caller'[r] = to /\ Statuses[r] = Status(r)
    BY <2>1, OneMoves
  <2>3. CASE table = Taken
    <3>1. Status(r) = "idle" /\ Status(r)' = "failed"
      BY <2>1, <2>2, <2>3 DEF Status
    <3>2. Over
      BY <2>3 DEF Over, Types, TablesAreTaken
    <3> QED
      BY <1>2, <2>1, <2>2, <3>1, <3>2
  <2>4. CASE table # Taken
    <3>1. Status(r) = "idle" /\ Status(r)' = "pending"
      BY <2>1, <2>2, <2>4 DEF Status
    <3> QED
      BY <1>2, <2>1, <2>2, <3>1
  <2> QED
    BY <2>3, <2>4
<1>5. ASSUME NEW r \in Callers, Emit(r) PROVE [Table!Next]_(Table!vars)
  <2> DEFINE to == IF io = "ended" THEN "failed" ELSE "sent"
  <2>1. caller[r] = "registered" /\ caller' = [caller EXCEPT ![r] = to] /\ UNCHANGED told
    BY <1>5 DEF Emit
  <2>2. caller'[r] = to /\ Statuses[r] = Status(r) /\ (Status(r)' = Status(r) => Statuses' = Statuses)
    BY <2>1, OneMoves
  <2>3. CASE io = "ended"
    <3>1. Status(r) = "pending" /\ Status(r)' = "failed" /\ Over
      BY <2>1, <2>2, <2>3 DEF Status, Over
    <3> QED
      BY <1>2, <2>1, <2>2, <3>1
  <2>4. CASE io # "ended"
    <3>1. Status(r)' = Status(r)
      BY <2>1, <2>2, <2>4 DEF Status
    <3> QED
      BY <1>1, <2>2, <3>1
  <2> QED
    BY <2>3, <2>4
<1>6. ASSUME NEW r \in Callers, Drop(r) PROVE [Table!Next]_(Table!vars)
  <2>1. /\ caller[r] \in {"sent", "streaming"} /\ caller' = [caller EXCEPT ![r] = "dropped"]
        /\ UNCHANGED told
    BY <1>6 DEF Drop
  <2>2. caller'[r] = "dropped" /\ Statuses[r] = Status(r)
    BY <2>1, OneMoves
  <2>3. Status(r) = "pending" /\ Status(r)' = "abandoned"
    BY <2>1, <2>2 DEF Status
  <2> QED
    BY <1>2, <2>1, <2>2, <2>3
<1>7. ASSUME NEW r \in Single, Resume(r) PROVE [Table!Next]_(Table!vars)
  <2>1. /\ caller[r] = "sent" /\ caller' = [caller EXCEPT ![r] = "answered"]
        /\ UNCHANGED told /\ r \in Callers /\ mailbox[r] # <<>>
    BY <1>7 DEF Resume, Callers
  <2>2. caller'[r] = "answered" /\ Statuses[r] = Status(r)
    BY <2>1, OneMoves
  <2>3. Status(r) = "pending" /\ Status(r)' = "answered"
    BY <2>1, <2>2 DEF Status
  <2>4. r \in replied
    <3>1. mailbox[r] \in Seq(For(r))
      BY <2>1 DEF Types, ChannelsAreRight
    <3>2. 1 \in DOMAIN mailbox[r] /\ mailbox[r][1] \in For(r)
      BY <2>1, <3>1, FirstTaken, ChannelTypes
    <3>3. For(r) = {e \in Envelope : e.to = r}
      BY PeerAssumption DEF For
    <3>4. mailbox[r][1].to = r /\ mailbox[r][1].kind = "answer" /\ mailbox[r][1] # Closed
      BY <3>2, <3>3, EnvelopeTypes
    <3> QED
      BY <2>1, <3>2, <3>4 DEF Answers, ChannelsAreGenuine, Given
  <2> QED
    BY <1>2, <2>1, <2>2, <2>3, <2>4
<1>8. ASSUME NEW r \in Single, Cancelled(r) PROVE [Table!Next]_(Table!vars)
  <2>1. /\ caller[r] = "sent" /\ caller' = [caller EXCEPT ![r] = "failed"]
        /\ UNCHANGED told /\ r \in Callers /\ mailbox[r] = <<>> /\ ~ Sender(r)
    BY <1>8 DEF Cancelled, Callers
  <2>2. caller'[r] = "failed" /\ Statuses[r] = Status(r)
    BY <2>1, OneMoves
  <2>3. Status(r) = "pending" /\ Status(r)' = "failed"
    BY <2>1, <2>2 DEF Status
  <2>4. Over
    BY <2>1 DEF Sender, Answers, AnswerIsComing
  <2> QED
    BY <1>2, <2>1, <2>2, <2>3, <2>4
<1>9. ASSUME NEW s \in Streaming, Poll(s) PROVE [Table!Next]_(Table!vars)
  <2>1. /\ caller[s] = "sent" /\ caller' = [caller EXCEPT ![s] = "streaming"]
        /\ UNCHANGED told /\ s \in Callers
    BY <1>9 DEF Poll, Callers
  <2>2. caller'[s] = "streaming" /\ (Status(s)' = Status(s) => Statuses' = Statuses)
    BY <2>1, OneMoves
  <2>3. Status(s)' = Status(s)
    BY <2>1, <2>2 DEF Status
  <2> QED
    BY <1>1, <2>2, <2>3
<1>10. ASSUME NEW s \in Streaming, Pull(s) PROVE [Table!Next]_(Table!vars)
  <2>1. UNCHANGED caller /\ caller[s] = "streaming" /\ \A q \in Streaming : q # s => told'[q] = told[q]
    BY <1>10 DEF Pull, Types, TypeOK
  <2> QED
    BY <1>1, <2>1, NoneMoves
<1>11. ASSUME NEW s \in Streaming, EndOfStream(s) PROVE [Table!Next]_(Table!vars)
  <2>1. /\ caller[s] = "streaming" /\ caller' = [caller EXCEPT ![s] = "ended"]
        /\ UNCHANGED told /\ s \in Callers /\ mailbox[s] = <<>> /\ ~ Sender(s)
    BY <1>11 DEF EndOfStream, Callers
  <2>2. caller'[s] = "ended" /\ Statuses[s] = Status(s)
    BY <2>1, OneMoves
  <2>3. told[s] \in {"end", "closed"}
    BY <2>1, NothingInEmpty DEF EndIsComing, EndComes, Sender, Types, TypeOK
  <2>4. CASE told[s] = "end"
    <3>1. Status(s) = "pending" /\ Status(s)' = "answered"
      BY <2>1, <2>2, <2>4 DEF Status
    <3>2. s \in replied
      BY <2>4 DEF Answers, ToldIsGenuine
    <3> QED
      BY <1>2, <2>1, <2>2, <3>1, <3>2
  <2>5. CASE told[s] = "closed"
    <3>1. Status(s) = "pending" /\ Status(s)' = "failed"
      BY <2>1, <2>2, <2>5 DEF Status
    <3>2. Over
      BY <2>5 DEF Answers, ToldIsGenuine, Over
    <3> QED
      BY <1>2, <2>1, <2>2, <3>1, <3>2
  <2> QED
    BY <2>3, <2>4, <2>5
<1> QED
  BY <1>3, <1>4, <1>5, <1>6, <1>7, <1>8, <1>9, <1>10, <1>11 DEF Calls

\* The connection as its callers see it takes no step that Requests has not: an
\* answer is one the other side gave, a request fails only when the connection is
\* over, and a request that has ended stays as it is.
THEOREM RequestsStepByStep == Spec => Table!Init /\ [][Table!Next]_(Table!vars)
<1>1. Init => Table!Init
  <2> SUFFICES ASSUME Init PROVE Table!Init
    OBVIOUS
  <2>1. \A r \in Callers : Status(r) = "idle"
    BY DEF Init, Status
  <2> QED
    BY <2>1 DEF Init, Table!Init
<1>2. Types /\ EndIsComing /\ Answers /\ [Next]_vars => [Table!Next]_(Table!vars)
  <2> SUFFICES ASSUME Types, EndIsComing, Answers, [Next]_vars PROVE [Table!Next]_(Table!vars)
    OBVIOUS
  <2> USE DEF ioVars, tables, callerVars, peerVars, Ending
  <2>1. CASE Calls
    BY <2>1, CallersStepByStep
  <2>2. ASSUME UNCHANGED <<caller, told>> PROVE Statuses' = Statuses
    BY <2>2, NoneMoves
  <2>3. CASE Disconnect \/ IoFails \/ IoIsDone
    <3>1. UNCHANGED <<caller, told, replied>> /\ Over'
      BY <2>3 DEF Disconnect, IoFails, IoIsDone, Over
    <3>2. Table!Close
      BY <2>2, <3>1 DEF Table!Close, Statuses, Over
    <3> QED
      BY <3>2 DEF Table!Next
  <2>4. CASE TakeResponses \/ TakeStreams \/ RemoveConnection \/ DropChannels
    <3>1. UNCHANGED <<caller, told, replied>> /\ Over /\ Over'
      BY <2>4 DEF TakeResponses, TakeStreams, RemoveConnection, DropChannels, Over
    <3> QED
      BY <2>2, <3>1 DEF Table!vars, Statuses, Over
  <2>5. CASE IoReads
    <3> PICK to \in Callers \union {NoRequest}, kind \in {"message", "answer", "item", "end"} :
            /\ MaySend(to, kind)
            /\ replied' = IF kind \in {"answer", "end"} THEN replied \union {to} ELSE replied
      BY <2>5 DEF IoReads
    <3>1. UNCHANGED <<caller, told, connected, io>>
      BY <2>5 DEF IoReads
    <3>2. CASE kind \in {"answer", "end"}
      <4>1. to \in written /\ to \in Callers
        BY <3>2 DEF MaySend, Callers
      <4>2. Status(to) # "idle"
        <5>1. caller[to] \in Standing /\ caller[to] \notin {"idle", "found"}
          BY <4>1 DEF Answers, SentByCallers, Types, TypeOK, Standing
        <5> QED
          BY <5>1 DEF Status, Standing
      <4>3. Table!Reply(to)
        BY <2>2, <3>1, <3>2, <4>1, <4>2 DEF Table!Reply, Statuses
      <4> QED
        BY <4>1, <4>3 DEF Table!Next
    <3>3. CASE kind \notin {"answer", "end"}
      BY <2>2, <3>1, <3>3 DEF Table!vars, Statuses
    <3> QED
      BY <3>2, <3>3
  <2>6. CASE IoWrites \/ Read \/ Leave \/ UNCHANGED vars
    <3>1. UNCHANGED <<caller, told, replied, connected, io>>
      BY <2>6 DEF IoWrites, Read, Take, LookUpStream, Deliver, GoOn, Leave, vars
    <3> QED
      BY <2>2, <3>1 DEF Table!vars, Statuses
  <2> QED
    BY <2>1, <2>3, <2>4, <2>5, <2>6 DEF Next, End
<1> QED
  BY <1>1, <1>2, AnswersHold, PTL DEF Spec
=============================================================================
