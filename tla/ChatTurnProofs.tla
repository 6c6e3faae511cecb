--------------------------- MODULE ChatTurnProofs ---------------------------
(***************************************************************************)
(* The safety properties of ChatTurn, for channels of any capacity and any *)
(* number of answers, of their pieces of text and of their tool calls.     *)
(***************************************************************************)
EXTENDS ChatTurn, TLAPS, SequenceTheorems

StreamEvent == [type : StreamType, call : Call \union {NoCall}]
SessionEvent == [type : SessionType, call : Call \union {NoCall}]
SseEvent == [type : SseType, call : Call \union {NoCall}, result : Call \union {NoCall}]
Turn == [role : Role, call : Call \union {NoCall}]
Index == 1 .. MaxCalls

\* What one more element makes of a sequence.
LEMMA WhatIsAdded ==
    ASSUME NEW S, NEW s \in Seq(S), NEW e \in S
    PROVE  /\ Append(s, e) \in Seq(S) /\ Len(s) \in Nat /\ DOMAIN s = 1 .. Len(s)
           /\ Len(Append(s, e)) = Len(s) + 1 /\ DOMAIN Append(s, e) = 1 .. (Len(s) + 1)
           /\ \A i \in DOMAIN s : i \in 1 .. Len(s) /\ Append(s, e)[i] = s[i] /\ s[i] \in S
           /\ Append(s, e)[Len(s) + 1] = e
           /\ s = <<>> <=> Len(s) = 0
<1>1. Len(s) \in Nat /\ DOMAIN s = 1 .. Len(s)
  BY LenProperties
<1>2. Append(s, e) \in Seq(S) /\ Len(Append(s, e)) = Len(s) + 1
  BY AppendProperties
<1>3. DOMAIN Append(s, e) = 1 .. (Len(s) + 1)
  BY <1>2, LenProperties
<1>4. \A i \in 1 .. Len(s) : Append(s, e)[i] = s[i] /\ s[i] \in S
  BY <1>1, AppendProperties, ElementOfSeq
<1>5. Append(s, e)[Len(s) + 1] = e
  BY AppendProperties
<1>6. s = <<>> <=> Len(s) = 0
  BY EmptySeq
<1> QED
  BY <1>1, <1>2, <1>3, <1>4, <1>5, <1>6

\* What is left of a queue when its head is taken.
LEMMA WhatIsLeft ==
    ASSUME NEW S, NEW s \in Seq(S), s # <<>>
    PROVE  /\ Tail(s) \in Seq(S) /\ Len(s) \in Nat /\ Len(s) > 0 /\ DOMAIN s = 1 .. Len(s)
           /\ Len(Tail(s)) = Len(s) - 1 /\ DOMAIN Tail(s) = 1 .. (Len(s) - 1)
           /\ \A i \in DOMAIN Tail(s) :
                i \in Nat /\ i > 0 /\ i + 1 \in DOMAIN s /\ Tail(s)[i] = s[i + 1]
           /\ Head(s) = s[1] /\ Head(s) \in S /\ 1 \in DOMAIN s
           /\ Tail(s) = <<>> <=> Len(s) = 1
           /\ Tail(s) # <<>> => Tail(s)[Len(Tail(s))] = s[Len(s)]
<1>1. Len(s) \in Nat /\ DOMAIN s = 1 .. Len(s) /\ Len(s) > 0
  BY LenProperties, EmptySeq
<1>2. /\ Head(s) \in S /\ Tail(s) \in Seq(S) /\ Len(Tail(s)) = Len(s) - 1
      /\ \A i \in 1 .. Len(Tail(s)) : Tail(s)[i] = s[i + 1]
  BY HeadTailProperties
<1>3. DOMAIN Tail(s) = 1 .. (Len(s) - 1)
  BY <1>2, LenProperties
<1>4. Head(s) = s[1]
  OBVIOUS
<1>5. Tail(s) = <<>> <=> Len(Tail(s)) = 0
  BY <1>2, EmptySeq
<1> QED
  BY <1>1, <1>2, <1>3, <1>4, <1>5

\* Events that are sent together are sent one after the other.
LEMMA OneByOne ==
    ASSUME NEW S, NEW s \in Seq(S), NEW a \in S, NEW b \in S, NEW c \in S
    PROVE  /\ s \o <<a>> = Append(s, a)
           /\ s \o (<<>> \o <<a>>) = Append(s, a)
           /\ s \o (<<>> \o <<a, b>>) = Append(Append(s, a), b)
           /\ s \o (<<a>> \o <<b>>) = Append(Append(s, a), b)
           /\ s \o (<<a>> \o <<b, c>>) = Append(Append(Append(s, a), b), c)
<1>1. <<a>> \in Seq(S) /\ <<a, b>> \in Seq(S) /\ <<a, b, c>> \in Seq(S) /\ <<b>> \in Seq(S)
      /\ <<b, c>> \in Seq(S)
  OBVIOUS
<1>2. /\ <<>> \o <<a>> = <<a>> /\ <<>> \o <<a, b>> = <<a, b>> /\ <<a>> \o <<b>> = <<a, b>>
      /\ <<a>> \o <<b, c>> = <<a, b, c>>
  <2>1. /\ Len(<<a>>) = 1 /\ Len(<<b>>) = 1 /\ Len(<<a, b>>) = 2 /\ Len(<<b, c>>) = 2
        /\ Len(<<a, b, c>>) = 3
        /\ <<a>>[1] = a /\ <<b>>[1] = b /\ <<a, b>>[1] = a /\ <<a, b>>[2] = b
        /\ <<b, c>>[1] = b /\ <<b, c>>[2] = c
        /\ <<a, b, c>>[1] = a /\ <<a, b, c>>[2] = b /\ <<a, b, c>>[3] = c
    OBVIOUS
  <2>2. <<>> \o <<a>> = <<a>> /\ <<>> \o <<a, b>> = <<a, b>>
    BY <1>1, ConcatEmptySeq
  <2> DEFINE A == <<a>>
             B == <<b>>
             AB == <<a, b>>
             BC == <<b, c>>
             ABC == <<a, b, c>>
  <2>3. /\ A \in Seq(S) /\ B \in Seq(S) /\ AB \in Seq(S) /\ BC \in Seq(S) /\ ABC \in Seq(S)
        /\ Len(A) = 1 /\ Len(B) = 1 /\ Len(AB) = 2 /\ Len(BC) = 2 /\ Len(ABC) = 3
        /\ A[1] = a /\ B[1] = b /\ AB[1] = a /\ AB[2] = b /\ BC[1] = b /\ BC[2] = c
        /\ ABC[1] = a /\ ABC[2] = b /\ ABC[3] = c
    BY <1>1, <2>1
  <2> HIDE DEF A, B, AB, BC, ABC
  <2>4. A \o B \in Seq(S) /\ Len(A \o B) = 2 /\ (A \o B)[1] = a /\ (A \o B)[2] = b
    <3>1. /\ A \o B \in Seq(S) /\ Len(A \o B) = Len(A) + Len(B)
          /\ \A i \in 1 .. Len(A) + Len(B) :
                (A \o B)[i] = IF i <= Len(A) THEN A[i] ELSE B[i - Len(A)]
      BY <2>3, ConcatProperties
    <3>2. 1 \in 1 .. 2 /\ 2 \in 1 .. 2 /\ 1 <= 1 /\ ~ (2 <= 1) /\ 2 - 1 = 1 /\ 1 + 1 = 2
      OBVIOUS
    <3> QED
      BY <2>3, <3>1, <3>2
  <2>5. /\ A \o BC \in Seq(S) /\ Len(A \o BC) = 3
        /\ (A \o BC)[1] = a /\ (A \o BC)[2] = b /\ (A \o BC)[3] = c
    <3>1. /\ A \o BC \in Seq(S) /\ Len(A \o BC) = Len(A) + Len(BC)
          /\ \A i \in 1 .. Len(A) + Len(BC) :
                (A \o BC)[i] = IF i <= Len(A) THEN A[i] ELSE BC[i - Len(A)]
      BY <2>3, ConcatProperties
    <3>2. 1 \in 1 .. 3 /\ 2 \in 1 .. 3 /\ 3 \in 1 .. 3 /\ 1 <= 1 /\ ~ (2 <= 1) /\ ~ (3 <= 1)
          /\ 2 - 1 = 1 /\ 3 - 1 = 2 /\ 1 + 2 = 3
      OBVIOUS
    <3> QED
      BY <2>3, <3>1, <3>2
  <2>8. (\A i \in 1 .. 2 : i = 1 \/ i = 2) /\ (\A i \in 1 .. 3 : i = 1 \/ i = 2 \/ i = 3)
    OBVIOUS
  <2>6. A \o B = AB
    <3>1. \A i \in 1 .. 2 : (A \o B)[i] = AB[i]
      BY <2>3, <2>4, <2>8
    <3> QED
      BY <2>3, <2>4, <3>1, SeqEqual
  <2>7. A \o BC = ABC
    <3>1. \A i \in 1 .. 3 : (A \o BC)[i] = ABC[i]
      BY <2>3, <2>5, <2>8
    <3> QED
      BY <2>3, <2>5, <3>1, SeqEqual
  <2> QED
    BY <2>2, <2>6, <2>7 DEF A, B, AB, BC, ABC
<1>3. ASSUME NEW t \in Seq(S), NEW u \in Seq(S), NEW x \in S PROVE t \o Append(u, x) = Append(t \o u, x)
  <2>1. /\ Append(u, x) \in Seq(S) /\ t \o u \in Seq(S) /\ Len(t) \in Nat /\ Len(u) \in Nat
        /\ Len(Append(u, x)) = Len(u) + 1 /\ Len(t \o u) = Len(t) + Len(u)
    BY AppendProperties, ConcatProperties, LenProperties
  <2>2. /\ t \o Append(u, x) \in Seq(S) /\ Append(t \o u, x) \in Seq(S)
        /\ Len(t \o Append(u, x)) = Len(t) + Len(u) + 1
        /\ Len(Append(t \o u, x)) = Len(t) + Len(u) + 1
    BY <2>1, AppendProperties, ConcatProperties
  <2>3. ASSUME NEW i \in 1 .. (Len(t) + Len(u) + 1)
        PROVE  (t \o Append(u, x))[i] = Append(t \o u, x)[i]
    <3>1. CASE i <= Len(t)
      BY <2>1, <3>1, AppendProperties, ConcatProperties
    <3>2. CASE i > Len(t) /\ i <= Len(t) + Len(u)
      BY <2>1, <3>2, AppendProperties, ConcatProperties
    <3>3. CASE i = Len(t) + Len(u) + 1
      BY <2>1, <3>3, AppendProperties, ConcatProperties
    <3> QED
      BY <2>1, <3>1, <3>2, <3>3
  <2> QED
    BY <2>2, <2>3, SeqEqual
<1>4. s \o <<a>> = Append(s, a)
  <2>1. Append(<<>>, a) = <<a>> /\ <<>> \in Seq(S) /\ s \o <<>> = s
    BY ConcatEmptySeq
  <2> QED
    BY <1>3, <2>1
<1>5. s \o <<a, b>> = Append(Append(s, a), b)
  <2> DEFINE A == <<a>>
             AB == <<a, b>>
  <2>1. /\ A \in Seq(S) /\ AB \in Seq(S) /\ Len(A) = 1 /\ Len(AB) = 2
        /\ A[1] = a /\ AB[1] = a /\ AB[2] = b
    BY <1>1
  <2> HIDE DEF A, AB
  <2>2. Append(A, b) \in Seq(S) /\ Len(Append(A, b)) = 2 /\ Append(A, b)[1] = a /\ Append(A, b)[2] = b
    <3>1. /\ Append(A, b) \in Seq(S) /\ Len(Append(A, b)) = Len(A) + 1 /\ DOMAIN A = 1 .. Len(A)
          /\ \A i \in DOMAIN A : Append(A, b)[i] = A[i]
          /\ Append(A, b)[Len(A) + 1] = b
      <4>1. A \in Seq(S) /\ b \in S
        BY <2>1
      <4> QED
        BY ONLY <4>1, WhatIsAdded
    <3>2. 1 \in 1 .. 1 /\ 1 + 1 = 2
      OBVIOUS
    <3> QED
      BY <2>1, <3>1, <3>2
  <2>3. Append(A, b) = AB
    BY <2>1, <2>2, SeqEqual
  <2>4. s \o Append(A, b) = Append(s \o A, b)
    BY <1>3, <2>1
  <2> QED
    BY <1>4, <2>3, <2>4 DEF A, AB
<1>6. s \o <<a, b, c>> = Append(Append(Append(s, a), b), c)
  <2> DEFINE AB == <<a, b>>
             ABC == <<a, b, c>>
  <2>1. /\ AB \in Seq(S) /\ ABC \in Seq(S) /\ Len(AB) = 2 /\ Len(ABC) = 3
        /\ AB[1] = a /\ AB[2] = b /\ ABC[1] = a /\ ABC[2] = b /\ ABC[3] = c
    BY <1>1
  <2> HIDE DEF AB, ABC
  <2>2. /\ Append(AB, c) \in Seq(S) /\ Len(Append(AB, c)) = 3
        /\ Append(AB, c)[1] = a /\ Append(AB, c)[2] = b /\ Append(AB, c)[3] = c
    <3>1. /\ Append(AB, c) \in Seq(S) /\ Len(Append(AB, c)) = Len(AB) + 1
          /\ DOMAIN AB = 1 .. Len(AB) /\ \A i \in DOMAIN AB : Append(AB, c)[i] = AB[i]
          /\ Append(AB, c)[Len(AB) + 1] = c
      <4>1. AB \in Seq(S) /\ c \in S
        BY <2>1
      <4> QED
        BY ONLY <4>1, WhatIsAdded
    <3>2. 1 \in 1 .. 2 /\ 2 \in 1 .. 2 /\ 2 + 1 = 3
      OBVIOUS
    <3>3. 1 \in DOMAIN AB /\ 2 \in DOMAIN AB
      BY ONLY <2>1, <3>1, <3>2
    <3>4. Append(AB, c)[1] = AB[1] /\ Append(AB, c)[2] = AB[2]
      BY ONLY <3>1, <3>3
    <3>5. Len(Append(AB, c)) = 3 /\ Append(AB, c)[3] = c
      BY ONLY <2>1, <3>1, <3>2
    <3> QED
      BY ONLY <2>1, <3>1, <3>4, <3>5
  <2>3. Append(AB, c) = ABC
    BY <2>1, <2>2, SeqEqual
  <2>4. s \o Append(AB, c) = Append(s \o AB, c)
    BY <1>3, <2>1
  <2> QED
    BY <1>5, <2>3, <2>4 DEF AB, ABC
<1> QED
  BY <1>2, <1>4, <1>5, <1>6

\* A tool call goes with the call it is about, and run_turn has tools to run when
\* it runs them.
Types ==
    /\ TypeOK
    /\ \A i \in DOMAIN stream : stream[i].type = "ToolCall" => stream[i].call \in Call
    /\ \A i \in DOMAIN session :
        session[i].type \in {"ToolCall", "ToolResult"} => session[i].call \in Call
    /\ turn = "executing" => calls # <<>>

\* The types of the sequences, by their names.
LEMMA Names ==
    /\ Types => /\ stream \in Seq(StreamEvent) /\ session \in Seq(SessionEvent)
                /\ sse \in Seq(SseEvent) /\ messages \in Seq(Turn) /\ calls \in Seq(Call)
                /\ pending \in Seq(Call) /\ round \in Nat /\ breaks \in Nat /\ chunks \in Nat
                /\ begun \in 0 .. MaxCalls /\ buffered \subseteq 1 .. begun /\ buffered \subseteq Index
                /\ whole \subseteq Nat
    /\ \A type \in StreamType : Event(type, NoCall) \in StreamEvent
    /\ \A type \in SessionType : Event(type, NoCall) \in SessionEvent
    /\ \A type \in SseType : Plain(type) \in SseEvent
    /\ \A c \in Call : /\ Event("ToolCall", c) \in StreamEvent /\ Event("ToolCall", c) \in SessionEvent
                       /\ Event("ToolResult", c) \in SessionEvent
                       /\ Message("tool", c) \in Turn
                       /\ c[1] \in Nat
                       /\ \A type \in SseType : /\ Sse(type, c, NoCall) \in SseEvent
                                                /\ \A r \in Call : Sse(type, c, r) \in SseEvent
    /\ \A role \in Role : Message(role, NoCall) \in Turn
    /\ round \in Nat => \A c \in Index : <<round, c>> \in Call
BY BoundsAssumption
   DEF Types, TypeOK, StreamEvent, SessionEvent, SseEvent, Turn, Messages, Index, Event, Plain,
       Sse, Message, StreamType, SessionType, Role, Call

\* What is there at first.
LEMMA TypesInit == Init => Types
<1> SUFFICES ASSUME Init PROVE Types
  OBVIOUS
<1>1. Earlier \in Seq(Turn) /\ <<>> \in Seq(Turn)
  <2>1. /\ Message("system", NoCall) \in Turn /\ Message("user", NoCall) \in Turn
        /\ Message("assistant", NoCall) \in Turn
    BY Names DEF Role
  <2> QED
    BY <2>1 DEF Earlier
<1>2. /\ <<>> \in Seq(StreamEvent) /\ <<>> \in Seq(SessionEvent) /\ <<>> \in Seq(SseEvent)
      /\ <<>> \in Seq(Turn) /\ <<>> \in Seq(Call)
  BY EmptySeq
<1>3. DOMAIN stream = {} /\ DOMAIN session = {}
  BY DEF Init
<1>4. saved \in Messages \union {Unreadable}
  BY <1>1 DEF Init, Messages, Turn
<1>5. TypeOK
  <2>1. /\ stream \in Seq([type : StreamType, call : Call \union {NoCall}])
        /\ messages \in Messages /\ calls \in Seq(Call)
        /\ session \in Seq([type : SessionType, call : Call \union {NoCall}])
        /\ pending \in Seq(Call)
        /\ sse \in Seq([type : SseType, call : Call \union {NoCall},
                        result : Call \union {NoCall}])
    BY <1>2 DEF Init, Messages, StreamEvent, SessionEvent, SseEvent, Turn
  <2>2. /\ worker \in {"none", "open", "draining", "gone"}
        /\ begun \in 0 .. MaxCalls /\ buffered \subseteq 1 .. begun
        /\ turn \in {"none", "requesting", "receiving", "executing", "returned"}
        /\ relay \in {"starting", "relaying", "ended"}
    BY BoundsAssumption DEF Init
  <2>3. chunks \in Nat /\ {round, breaks} \subseteq Nat /\ whole \subseteq Nat
        /\ inMessage \in BOOLEAN /\ isUuid \in BOOLEAN
    <3>1. chunks = 0 /\ round = 0 /\ breaks = 0 /\ whole = {}
      BY DEF Init
    <3>2. inMessage = FALSE /\ isUuid \in BOOLEAN
      BY Zenon DEF Init
    <3>3. {round, breaks} \subseteq Nat /\ whole \subseteq Nat
      BY <3>1
    <3> QED
      BY <3>1, <3>2, <3>3
  <2> QED
    BY <1>4, <2>1, <2>2, <2>3 DEF TypeOK
<1> QED
  BY <1>3, <1>5 DEF Init, Types

\* And it stays so.
LEMMA TypesStep == Types /\ [Next]_vars => Types'
<1> SUFFICES ASSUME Types, [Next]_vars PROVE Types'
  OBVIOUS
<1>1. /\ stream \in Seq(StreamEvent) /\ session \in Seq(SessionEvent)
      /\ sse \in Seq(SseEvent) /\ messages \in Seq(Turn) /\ calls \in Seq(Call)
      /\ pending \in Seq(Call) /\ round \in Nat /\ breaks \in Nat /\ chunks \in Nat
      /\ begun \in 0 .. MaxCalls /\ begun \in Nat /\ buffered \subseteq 1 .. begun
      /\ buffered \subseteq Index /\ whole \subseteq Nat
  BY Names
<1>2. /\ worker \in {"none", "open", "draining", "gone"}
      /\ turn \in {"none", "requesting", "receiving", "executing", "returned"}
      /\ relay \in {"starting", "relaying", "ended"}
      /\ inMessage \in BOOLEAN /\ isUuid \in BOOLEAN /\ saved \in Messages \union {Unreadable}
  BY DEF Types, TypeOK
<1> DEFINE StreamIs(s) == s \in Seq(StreamEvent) /\ \A i \in DOMAIN s :
                s[i].type = "ToolCall" => s[i].call \in Call
           SessionIs(s) == s \in Seq(SessionEvent) /\ \A i \in DOMAIN s :
                s[i].type \in {"ToolCall", "ToolResult"} => s[i].call \in Call
           WorkerIs == worker \in {"none", "open", "draining", "gone"}
                        /\ begun \in 0 .. MaxCalls /\ buffered \subseteq 1 .. begun
                        /\ chunks \in Nat /\ round \in Nat /\ breaks \in Nat /\ whole \subseteq Nat
           TurnIs == turn \in {"none", "requesting", "receiving", "executing", "returned"}
                        /\ messages \in Seq(Turn) /\ calls \in Seq(Call)
                        /\ (turn = "executing" => calls # <<>>)
           RelayIs == relay \in {"starting", "relaying", "ended"} /\ inMessage \in BOOLEAN
                        /\ pending \in Seq(Call) /\ sse \in Seq(SseEvent)
                        /\ isUuid \in BOOLEAN /\ saved \in Messages \union {Unreadable}
<1>3. StreamIs(stream) /\ SessionIs(session) /\ WorkerIs /\ TurnIs /\ RelayIs
  BY <1>1, <1>2 DEF Types
<1>4. StreamIs(stream)' /\ SessionIs(session)' /\ WorkerIs' /\ TurnIs' /\ RelayIs' => Types'
  BY DEF Types, TypeOK, StreamEvent, SessionEvent, SseEvent, Turn, Messages, Index
<1>5. UNCHANGED stream => StreamIs(stream)'
  BY <1>3
<1>6. UNCHANGED session => SessionIs(session)'
  BY <1>3
<1>7. UNCHANGED workerVars => WorkerIs'
  BY <1>3 DEF workerVars
<1>8. UNCHANGED turnVars => TurnIs'
  BY <1>3 DEF turnVars
<1>9. UNCHANGED relayVars => RelayIs'
  BY <1>3 DEF relayVars
<1>10. ASSUME NEW e \in StreamEvent, e.type = "ToolCall" => e.call \in Call, Stream(e)
       PROVE  StreamIs(stream)'
  <2>1. stream' = Append(stream, e)
    BY <1>10 DEF Stream
  <2> QED
    BY <1>3, <1>10, <2>1, WhatIsAdded
<1>11. ASSUME NEW type, Take(type) PROVE StreamIs(stream)'
  <2>1. stream' = Tail(stream) /\ stream # <<>>
    BY <1>11 DEF Take
  <2> QED
    BY <1>3, <2>1, WhatIsLeft
<1>12. ASSUME NEW e \in SessionEvent, e.type \in {"ToolCall", "ToolResult"} => e.call \in Call, Tell(e)
       PROVE  SessionIs(session)'
  <2>1. session' = Append(session, e)
    BY <1>12 DEF Tell
  <2> QED
    BY <1>3, <1>12, <2>1, WhatIsAdded
<1>13. ASSUME NEW type, Hear(type) PROVE SessionIs(session)'
  <2>1. session' = Tail(session) /\ session # <<>>
    BY <1>13 DEF Hear
  <2> QED
    BY <1>3, <2>1, WhatIsLeft
<1>14. stream # <<>> => Head(stream) = stream[1] /\ 1 \in DOMAIN stream /\ Head(stream) \in StreamEvent
  BY <1>3, WhatIsLeft
<1>15. session # <<>> => /\ Head(session) = session[1] /\ 1 \in DOMAIN session
                         /\ Head(session) \in SessionEvent
  BY <1>3, WhatIsLeft
<1>16. Closing \in Seq(SseEvent)
  <2>1. <<>> \in Seq(SseEvent) /\ "TEXT_MESSAGE_END" \in SseType
    BY EmptySeq DEF SseType
  <2>2. Plain("TEXT_MESSAGE_END") \in SseEvent
    BY <2>1, Names
  <2> HIDE DEF SseEvent, Plain
  <2> QED
    BY <2>1, <2>2 DEF Closing
<1>17. ASSUME NEW events \in Seq(SseEvent), Send(events) PROVE sse' \in Seq(SseEvent)
  <2>1. sse \in Seq(SseEvent) /\ sse' = sse \o events
    BY <1>1, <1>17 DEF Send
  <2> HIDE DEF SseEvent
  <2> QED
    BY <2>1, ConcatProperties
<1>18. CASE WorkerChunk \/ WorkerBuffers \/ WorkerFinishes \/ WorkerDrains
  <2>1. Event("Chunk", NoCall) \in StreamEvent /\ Event("Chunk", NoCall).type = "Chunk"
    BY DEF Event, StreamEvent, StreamType
  <2>2. CASE WorkerChunk
    <3>1. StreamIs(stream)'
      BY <1>10, <2>1, <2>2 DEF WorkerChunk
    <3> HIDE DEF StreamIs, SessionIs, RelayIs, TurnIs
    <3> QED
      BY <1>1, <1>2, <1>4, <1>6, <1>8, <1>9, <2>2, <3>1 DEF WorkerChunk
  <2>3. CASE WorkerBuffers \/ WorkerFinishes
    <3>1. WorkerIs'
      <4>1. CASE WorkerBuffers
        <5>1. begun' = begun + 1 /\ begun < MaxCalls /\ buffered' = buffered \union {begun + 1}
              /\ UNCHANGED <<worker, chunks, round, breaks, whole>>
          BY <4>1 DEF WorkerBuffers
        <5>2. begun' \in 0 .. MaxCalls /\ buffered' \subseteq 1 .. begun'
          BY <1>1, <5>1, BoundsAssumption
        <5> QED
          BY <1>3, <5>1, <5>2
      <4>2. CASE WorkerFinishes
        BY <1>3, <4>2 DEF WorkerFinishes
      <4> QED
        BY <2>3, <4>1, <4>2
    <3>2. UNCHANGED stream /\ UNCHANGED session /\ UNCHANGED turnVars /\ UNCHANGED relayVars
      BY <2>3 DEF WorkerBuffers, WorkerFinishes
    <3> HIDE DEF StreamIs, SessionIs, RelayIs, TurnIs, WorkerIs
    <3> QED
      BY <1>4, <1>5, <1>6, <1>8, <1>9, <3>1, <3>2
  <2>4. CASE WorkerDrains
    <3> PICK c \in buffered : /\ buffered' = buffered \ {c} /\ worker' \in {"open", "draining"}
                               /\ Stream(Event("ToolCall", <<round, c>>))
      BY <2>4 DEF WorkerDrains, AfterDrain
    <3>1. <<round, c>> \in Call
      BY <1>1, Names
    <3>2. Event("ToolCall", <<round, c>>) \in StreamEvent
          /\ Event("ToolCall", <<round, c>>).call = <<round, c>>
      BY <3>1, Names DEF Event
    <3>3. StreamIs(stream)'
      BY <1>10, <3>1, <3>2
    <3>4. WorkerIs'
      BY <1>3, <2>4 DEF WorkerDrains
    <3> HIDE DEF StreamIs, SessionIs, RelayIs, TurnIs, WorkerIs
    <3> QED
      BY <1>4, <1>6, <1>8, <1>9, <2>4, <3>3, <3>4 DEF WorkerDrains
  <2> QED
    BY <1>18, <2>2, <2>3, <2>4
<1>19. CASE WorkerEnds \/ WorkerBreaks \/ WorkerRefused
  <2>1. /\ Event("Done", NoCall) \in StreamEvent /\ Event("Done", NoCall).type = "Done"
        /\ Event("Error", NoCall) \in StreamEvent /\ Event("Error", NoCall).type = "Error"
    BY DEF Event, StreamEvent, StreamType
  <2>2. StreamIs(stream)'
    BY <1>5, <1>10, <1>19, <2>1 DEF WorkerEnds, WorkerBreaks, WorkerRefused
  <2>3. WorkerIs'
    <3>1. CASE WorkerEnds
      BY <1>1, <3>1 DEF WorkerEnds
    <3>2. CASE WorkerBreaks
      BY <1>1, <3>2 DEF WorkerBreaks
    <3>3. CASE WorkerRefused
      BY <1>1, <3>3 DEF WorkerRefused
    <3> QED
      BY <1>19, <3>1, <3>2, <3>3
  <2>4. UNCHANGED session /\ UNCHANGED turnVars /\ UNCHANGED relayVars
    BY <1>19 DEF WorkerEnds, WorkerBreaks, WorkerRefused
  <2> HIDE DEF StreamIs, SessionIs, RelayIs, TurnIs, WorkerIs
  <2> QED
    BY <1>4, <1>6, <1>8, <1>9, <2>2, <2>3, <2>4
<1>20. CASE Request
  <2>1. <<>> \in Seq(Call)
    BY EmptySeq
  <2>2. WorkerIs'
    BY <1>1, <1>20, BoundsAssumption DEF Request
  <2>3. TurnIs'
    BY <1>1, <1>20, <2>1 DEF Request, FreshCalls
  <2>4. UNCHANGED stream /\ UNCHANGED session /\ UNCHANGED relayVars
    BY <1>20 DEF Request
  <2> HIDE DEF StreamIs, SessionIs, RelayIs, TurnIs, WorkerIs
  <2> QED
    BY <1>4, <1>5, <1>6, <1>9, <2>2, <2>3, <2>4
<1>21. CASE TurnChunk \/ TurnError
  <2>1. /\ Event("Token", NoCall) \in SessionEvent /\ Event("Token", NoCall).type = "Token"
        /\ Event("Error", NoCall) \in SessionEvent /\ Event("Error", NoCall).type = "Error"
    BY DEF Event, SessionEvent, SessionType
  <2>2. SessionIs(session)' /\ StreamIs(stream)'
    BY <1>11, <1>12, <1>21, <2>1 DEF TurnChunk, TurnError
  <2>3. TurnIs' /\ UNCHANGED workerVars /\ UNCHANGED relayVars
    BY <1>3, <1>21 DEF TurnChunk, TurnError, turnVars
  <2> HIDE DEF StreamIs, SessionIs, RelayIs, WorkerIs, TurnIs
  <2> QED
    BY <1>4, <1>7, <1>9, <2>2, <2>3
<1>22. CASE TurnToolCall
  <2>1. stream # <<>> /\ Head(stream).type = "ToolCall"
    BY <1>22 DEF TurnToolCall, Take
  <2>2. Head(stream).call \in Call /\ Head(stream) \in SessionEvent
    BY <1>3, <1>14, <2>1 DEF StreamEvent, SessionEvent, SessionType
  <2>3. SessionIs(session)' /\ StreamIs(stream)'
    BY <1>11, <1>12, <1>22, <2>2 DEF TurnToolCall
  <2>4. calls' \in Seq(Call)
    BY <1>1, <1>22, <2>2, AppendProperties DEF TurnToolCall
  <2>5. TurnIs'
    BY <1>1, <1>3, <1>22, <2>4 DEF TurnToolCall, Take
  <2> HIDE DEF StreamIs, SessionIs, RelayIs, WorkerIs, TurnIs
  <2> QED
    BY <1>4, <1>7, <1>9, <1>22, <2>3, <2>5 DEF TurnToolCall
<1>23. CASE TurnDone
  <2>1. Event("Done", NoCall) \in SessionEvent /\ Event("Done", NoCall).type = "Done"
    BY DEF Event, SessionEvent, SessionType
  <2>2. SessionIs(session)' /\ StreamIs(stream)'
    BY <1>6, <1>11, <1>12, <1>23, <2>1 DEF TurnDone
  <2>3. Message("assistant", NoCall) \in Turn
    BY Names DEF Role
  <2>4. messages' \in Seq(Turn)
    BY <1>1, <1>23, <2>3, AppendProperties DEF TurnDone
  <2>5. TurnIs'
    BY <1>1, <1>23, <2>4 DEF TurnDone
  <2> HIDE DEF StreamIs, SessionIs, RelayIs, WorkerIs, TurnIs
  <2> QED
    BY <1>4, <1>7, <1>9, <1>23, <2>2, <2>5 DEF TurnDone
<1>24. CASE TurnExecutes
  <2>1. calls # <<>> /\ Head(calls) \in Call /\ Tail(calls) \in Seq(Call)
    BY <1>1, <1>3, <1>24, WhatIsLeft DEF TurnExecutes
  <2>2. Event("ToolResult", Head(calls)) \in SessionEvent /\ Message("tool", Head(calls)) \in Turn
        /\ Event("ToolResult", Head(calls)).call = Head(calls)
    BY <2>1, Names DEF Event
  <2>3. SessionIs(session)'
    BY <1>12, <1>24, <2>1, <2>2 DEF TurnExecutes
  <2>4. messages' \in Seq(Turn)
    BY <1>1, <1>24, <2>2, AppendProperties DEF TurnExecutes
  <2>5. TurnIs'
    BY <1>24, <2>1, <2>4 DEF TurnExecutes, AfterTool
  <2> HIDE DEF StreamIs, SessionIs, RelayIs, WorkerIs, TurnIs
  <2> QED
    BY <1>4, <1>5, <1>7, <1>9, <1>24, <2>3, <2>5 DEF TurnExecutes
<1>25. CASE Start
  <2>1. Message("user", NoCall) \in Turn
    BY Names DEF Role
  <2>2. messages' \in Seq(Turn)
    <3>1. saved # Unreadable => saved \in Seq(Turn)
      BY <1>2 DEF Messages, Turn
    <3>2. Loaded \in Seq(Turn)
      BY <3>1, EmptySeq DEF Loaded
    <3>3. messages' = Append(Loaded, Message("user", NoCall))
      BY <1>25 DEF Start, Conversation
    <3> QED
      BY <2>1, <3>2, <3>3, AppendProperties
  <2>3. Plain("RUN_STARTED") \in SseEvent
    BY Names DEF SseType
  <2>4. sse' \in Seq(SseEvent)
    <3>1. <<Plain("RUN_STARTED")>> \in Seq(SseEvent)
      <4> HIDE DEF SseEvent, Plain
      <4> QED
        BY <2>3
    <3> QED
      BY <1>17, <1>25, <3>1 DEF Start
  <2>5. RelayIs'
    BY <1>3, <1>25, <2>4 DEF Start
  <2>6. TurnIs'
    BY <1>3, <1>25, <2>2 DEF Start
  <2> HIDE DEF StreamIs, SessionIs, RelayIs, WorkerIs, TurnIs
  <2> QED
    BY <1>4, <1>5, <1>6, <1>7, <1>25, <2>5, <2>6 DEF Start
<1>26. CASE Refuse
  <2>1. Plain("RUN_ERROR") \in SseEvent
    BY Names DEF SseType
  <2>2. sse' \in Seq(SseEvent)
    <3>1. <<Plain("RUN_ERROR")>> \in Seq(SseEvent)
      <4> HIDE DEF SseEvent, Plain
      <4> QED
        BY <2>1
    <3> QED
      BY <1>17, <1>26, <3>1 DEF Refuse
  <2>3. RelayIs'
    BY <1>3, <1>26, <2>2 DEF Refuse
  <2> HIDE DEF StreamIs, SessionIs, RelayIs, WorkerIs, TurnIs
  <2> QED
    BY <1>4, <1>5, <1>6, <1>7, <1>8, <1>26, <2>3 DEF Refuse
<1>27. CASE RelayToken
  <2>1. Plain("TEXT_MESSAGE_START") \in SseEvent /\ Plain("TEXT_MESSAGE_CONTENT") \in SseEvent
    BY Names DEF SseType
  <2>2. (IF inMessage THEN <<>> ELSE <<Plain("TEXT_MESSAGE_START")>>) \in Seq(SseEvent)
        /\ <<Plain("TEXT_MESSAGE_CONTENT")>> \in Seq(SseEvent)
    <3> HIDE DEF SseEvent, Plain
    <3> QED
      BY <2>1, EmptySeq
  <2>3. sse' \in Seq(SseEvent)
    BY <1>17, <1>27, <2>2, ConcatProperties DEF RelayToken
  <2>4. RelayIs'
    BY <1>3, <1>27, <2>3 DEF RelayToken
  <2>5. SessionIs(session)'
    BY <1>13, <1>27 DEF RelayToken
  <2> HIDE DEF StreamIs, SessionIs, RelayIs, WorkerIs, TurnIs
  <2> QED
    BY <1>4, <1>5, <1>7, <1>8, <1>27, <2>4, <2>5 DEF RelayToken
<1>28. CASE RelayToolCall
  <2> DEFINE c == Head(session).call
  <2>1. c \in Call
    BY <1>3, <1>15, <1>28 DEF RelayToolCall, Hear
  <2>2. Sse("TOOL_CALL_START", c, NoCall) \in SseEvent /\ Sse("TOOL_CALL_ARGS", c, NoCall) \in SseEvent
    BY <2>1, Names DEF SseType
  <2>3. <<Sse("TOOL_CALL_START", c, NoCall), Sse("TOOL_CALL_ARGS", c, NoCall)>> \in Seq(SseEvent)
    <3> HIDE DEF SseEvent, c
    <3> QED
      BY <2>2
  <2>4. /\ Send(Closing \o <<Sse("TOOL_CALL_START", c, NoCall), Sse("TOOL_CALL_ARGS", c, NoCall)>>)
        /\ pending' = Append(pending, c) /\ inMessage' = FALSE
        /\ relay' = relay /\ saved' = saved /\ isUuid' = isUuid
    BY <1>28 DEF RelayToolCall, Close
  <2>5. sse' \in Seq(SseEvent)
    BY <1>16, <1>17, <2>3, <2>4, ConcatProperties
  <2>6. pending' \in Seq(Call)
    BY <1>1, <2>1, <2>4, AppendProperties
  <2>7. RelayIs'
    BY <1>3, <2>4, <2>5, <2>6
  <2>8. SessionIs(session)'
    BY <1>13, <1>28 DEF RelayToolCall
  <2> HIDE DEF StreamIs, SessionIs, RelayIs, WorkerIs, TurnIs
  <2> QED
    BY <1>4, <1>5, <1>7, <1>8, <1>28, <2>7, <2>8 DEF RelayToolCall
<1>29. CASE RelayToolResult
  <2>1. pending = <<>> => RelayIs'
    BY <1>3, <1>29 DEF RelayToolResult
  <2>2. ASSUME pending # <<>> PROVE RelayIs'
    <3> DEFINE c == Head(session).call
    <3>1. c \in Call
      BY <1>3, <1>15, <1>29 DEF RelayToolResult, Hear
    <3>2. Oldest \in Call /\ Tail(pending) \in Seq(Call)
      BY <1>1, <2>2, WhatIsLeft DEF Oldest
    <3>3. Sse("TOOL_CALL_END", Oldest, c) \in SseEvent
      BY <3>1, <3>2, Names DEF SseType
    <3>4. <<Sse("TOOL_CALL_END", Oldest, c)>> \in Seq(SseEvent)
      <4> HIDE DEF SseEvent, c
      <4> QED
        BY <3>3
    <3>5. sse' \in Seq(SseEvent)
      BY <1>17, <1>29, <2>2, <3>4 DEF RelayToolResult
    <3> QED
      BY <1>3, <1>29, <2>2, <3>2, <3>5 DEF RelayToolResult
  <2>3. RelayIs'
    BY <2>1, <2>2
  <2>4. SessionIs(session)'
    BY <1>13, <1>29 DEF RelayToolResult
  <2> HIDE DEF StreamIs, SessionIs, RelayIs, WorkerIs, TurnIs
  <2> QED
    BY <1>4, <1>5, <1>7, <1>8, <1>29, <2>3, <2>4 DEF RelayToolResult
<1>30. CASE RelayDone \/ RelayError
  <2>1. Plain("RUN_FINISHED") \in SseEvent /\ Plain("RUN_ERROR") \in SseEvent
    BY Names DEF SseType
  <2>2. <<Plain("RUN_FINISHED")>> \in Seq(SseEvent) /\ <<Plain("RUN_ERROR")>> \in Seq(SseEvent)
    <3> HIDE DEF SseEvent, Plain
    <3> QED
      BY <2>1
  <2>3. sse' \in Seq(SseEvent)
    BY <1>16, <1>17, <1>30, <2>2, ConcatProperties DEF RelayDone, RelayError
  <2>4. saved' \in Messages \union {Unreadable}
    BY <1>1, <1>2, <1>30 DEF RelayDone, RelayError, Save, Outcome, Messages, Turn
  <2>5. RelayIs'
    BY <1>3, <1>30, <2>3, <2>4 DEF RelayDone, RelayError, Close
  <2>6. SessionIs(session)'
    BY <1>13, <1>30 DEF RelayDone, RelayError
  <2>7. UNCHANGED workerVars /\ UNCHANGED turnVars /\ UNCHANGED stream
    BY <1>30 DEF RelayDone, RelayError
  <2> HIDE DEF StreamIs, SessionIs, RelayIs, WorkerIs, TurnIs
  <2> QED
    BY <1>4, <1>5, <1>7, <1>8, <2>5, <2>6, <2>7
<1>31. CASE UNCHANGED vars
  <2>1. UNCHANGED workerVars /\ UNCHANGED turnVars /\ UNCHANGED relayVars
        /\ UNCHANGED stream /\ UNCHANGED session
    BY <1>31 DEF vars, workerVars, turnVars, relayVars
  <2> HIDE DEF StreamIs, SessionIs, RelayIs, WorkerIs, TurnIs
  <2> QED
    BY <1>4, <1>5, <1>6, <1>7, <1>8, <1>9, <2>1
<1> QED
  BY <1>18, <1>19, <1>20, <1>21, <1>22, <1>23, <1>24, <1>25, <1>26, <1>27, <1>28, <1>29, <1>30, <1>31
  DEF Next, WorkerStep, TurnStep, RelayStep

\* TypeOK holds in every state, whatever the provider and the tools answer.
THEOREM TypeCorrect == Spec => []TypeOK
<1>1. Types => TypeOK
  BY DEF Types
<1> QED
  BY <1>1, TypesInit, TypesStep, PTL DEF Spec

-----------------------------------------------------------------------------
(* Where the three tasks stand *)

\* No request has been made.
Idle == worker = "none" /\ stream = <<>> /\ calls = <<>> /\ session = <<>> /\ round = 0

\* The worker and run_turn take turns: an answer that came to its end is taken from
\* the stream, then its tools are run, then there is another request.
Stages ==
    /\ turn \in {"none", "requesting"} => Idle
    /\ worker \in {"open", "draining"} => turn = "receiving" /\ round \notin whole
    /\ turn \in {"executing", "returned"} => stream = <<>> /\ worker = "gone"
    /\ turn = "executing" => round \in whole
    /\ \A n \in whole : n <= round
    /\ (round \in whole /\ turn = "receiving") =>
        \/ stream # <<>> /\ stream[Len(stream)].type = "Done"
        \/ stream = <<>> /\ calls = <<>>

\* chat_sse starts the turn, from what was saved.
AtTheStart ==
    /\ relay = "starting" => /\ turn = "none" /\ sse = <<>> /\ messages = <<>>
                             /\ inMessage = FALSE /\ pending = <<>>
    /\ relay # "ended" => saved \in {<<>>, Earlier, Unreadable}

\* An answer is text and calls, then its end.
InOrder(i) ==
    /\ stream[i].type = "ToolCall" => stream[i].call[1] = round
    /\ stream[i].type \in {"Done", "Error"} => i = Len(stream) /\ worker = "gone"
    /\ stream[i].type = "Done" => round \in whole

\* What has not been dealt with belongs to the latest request.
OfTheRound ==
    /\ \A i \in DOMAIN calls : calls[i][1] = round
    /\ \A i \in DOMAIN stream : InOrder(i)

Basis == Types /\ Stages /\ AtTheStart /\ OfTheRound

\* What the prover sees of the types.
LEMMA Facts ==
    ASSUME Types
    PROVE  /\ stream \in Seq(StreamEvent) /\ session \in Seq(SessionEvent)
           /\ sse \in Seq(SseEvent) /\ messages \in Seq(Turn) /\ calls \in Seq(Call)
           /\ pending \in Seq(Call) /\ round \in Nat /\ breaks \in Nat /\ whole \subseteq Nat
           /\ Len(stream) \in Nat /\ DOMAIN stream = 1 .. Len(stream)
           /\ Len(session) \in Nat /\ DOMAIN session = 1 .. Len(session)
           /\ Len(sse) \in Nat /\ DOMAIN sse = 1 .. Len(sse)
           /\ Len(messages) \in Nat /\ DOMAIN messages = 1 .. Len(messages)
           /\ Len(calls) \in Nat /\ DOMAIN calls = 1 .. Len(calls)
           /\ Len(pending) \in Nat /\ DOMAIN pending = 1 .. Len(pending)
           /\ \A i \in DOMAIN calls : calls[i] \in Call /\ calls[i][1] \in Nat
           /\ \A i \in DOMAIN stream : stream[i].type = "ToolCall" => stream[i].call \in Call
           /\ \A i \in DOMAIN session :
                session[i].type \in {"ToolCall", "ToolResult"} => session[i].call \in Call
<1>1. /\ stream \in Seq(StreamEvent) /\ session \in Seq(SessionEvent)
      /\ sse \in Seq(SseEvent) /\ messages \in Seq(Turn) /\ calls \in Seq(Call)
      /\ pending \in Seq(Call) /\ round \in Nat /\ breaks \in Nat /\ whole \subseteq Nat
  BY Names
<1>2. /\ Len(stream) \in Nat /\ DOMAIN stream = 1 .. Len(stream)
      /\ Len(session) \in Nat /\ DOMAIN session = 1 .. Len(session)
      /\ Len(sse) \in Nat /\ DOMAIN sse = 1 .. Len(sse)
  BY <1>1, LenProperties
<1>3. /\ Len(messages) \in Nat /\ DOMAIN messages = 1 .. Len(messages)
      /\ Len(calls) \in Nat /\ DOMAIN calls = 1 .. Len(calls)
      /\ Len(pending) \in Nat /\ DOMAIN pending = 1 .. Len(pending)
  BY <1>1, LenProperties
<1>4. \A i \in DOMAIN calls : calls[i] \in Call
  BY <1>1, <1>3, ElementOfSeq
<1>5. \A c \in Call : c[1] \in Nat
  BY Names
<1> QED
  BY <1>1, <1>2, <1>3, <1>4, <1>5 DEF Types

\* Nothing has happened at first.
LEMMA BasisInit == Init => Basis
<1> SUFFICES ASSUME Init PROVE Basis
  OBVIOUS
<1>1. /\ worker = "none" /\ stream = <<>> /\ turn = "none" /\ messages = <<>> /\ calls = <<>>
      /\ session = <<>> /\ relay = "starting" /\ pending = <<>> /\ sse = <<>> /\ round = 0
      /\ whole = {} /\ saved \in {<<>>, Earlier, Unreadable}
  BY DEF Init
<1>2. inMessage = FALSE
  BY Zenon DEF Init
<1>3. DOMAIN stream = {} /\ DOMAIN calls = {}
  BY <1>1
<1>4. Stages
  BY <1>1 DEF Stages, Idle
<1>5. AtTheStart
  BY <1>1, <1>2 DEF AtTheStart
<1>6. OfTheRound
  BY <1>1, <1>3 DEF OfTheRound
<1> QED
  BY <1>4, <1>5, <1>6, TypesInit DEF Basis

\* One more event of the answer.
LEMMA MoreOfTheAnswer ==
    ASSUME Basis, NEW e \in StreamEvent, Stream(e), Types', UNCHANGED turnVars, round' = round,
           worker \in {"open", "draining"},
           e.type = "ToolCall" => e.call[1] = round,
           e.type \in {"Done", "Error"} => worker' = "gone",
           e.type = "Done" => whole' = whole \union {round},
           e.type # "Done" => whole' = whole
    PROVE  OfTheRound' /\ Stages'
<1>1. stream \in Seq(StreamEvent) /\ calls \in Seq(Call) /\ round \in Nat
  BY Facts DEF Basis
<1>2. stream' = Append(stream, e) /\ calls' = calls /\ turn' = turn /\ messages' = messages
  BY DEF Stream, turnVars
<1>3. /\ Len(stream) \in Nat /\ DOMAIN stream = 1 .. Len(stream)
      /\ Len(stream') = Len(stream) + 1 /\ DOMAIN stream' = 1 .. (Len(stream) + 1)
      /\ \A i \in DOMAIN stream : stream'[i] = stream[i]
      /\ stream'[Len(stream) + 1] = e
  BY <1>1, <1>2, WhatIsAdded
<1>4. e.type \in {"Chunk", "ToolCall", "Done", "Error"}
  BY DEF StreamEvent, StreamType
<1>5. /\ \A i \in DOMAIN stream : InOrder(i)
      /\ \A i \in DOMAIN calls : calls[i][1] = round
  BY DEF Basis, OfTheRound
<1>6. ASSUME NEW i \in DOMAIN stream PROVE InOrder(i)'
  <2>1. InOrder(i) /\ stream'[i] = stream[i] /\ i \in Nat /\ i >= 1 /\ i <= Len(stream)
    BY <1>3, <1>5
  <2>2. stream[i].type \notin {"Done", "Error"}
    BY <2>1 DEF InOrder
  <2> QED
    BY <1>2, <2>1, <2>2 DEF InOrder
<1>7. ASSUME NEW k \in Nat, k = Len(stream) + 1 PROVE InOrder(k)'
  BY <1>2, <1>3, <1>7 DEF InOrder
<1>8. \A i \in DOMAIN stream' : InOrder(i)'
  <2>1. \A i \in DOMAIN stream' : i \in DOMAIN stream \/ (i \in Nat /\ i = Len(stream) + 1)
    BY <1>3
  <2> QED
    BY <1>6, <1>7, <2>1
<1>10. OfTheRound'
  BY <1>2, <1>5, <1>8 DEF OfTheRound
<1>11. turn = "receiving" /\ round \notin whole /\ \A n \in whole : n <= round
  BY DEF Basis, Stages
<1>12. Stages'
  <2>1. \A n \in whole' : n <= round'
    BY <1>1, <1>4, <1>11
  <2>2. stream' # <<>> /\ stream'[Len(stream')] = e
    <3>1. stream' \in Seq(StreamEvent)
      BY <1>1, <1>2, WhatIsAdded
    <3> QED
      BY <1>3, <3>1, EmptySeq
  <2>3. worker' \in {"open", "draining"} => round' \notin whole'
    BY <1>11
  <2>4. round' \in whole' => e.type = "Done"
    BY <1>11
  <2> QED
    BY <1>2, <1>11, <2>1, <2>2, <2>3, <2>4 DEF Stages
<1> QED
  BY <1>10, <1>12

\* One event of the answer less.
LEMMA LessOfTheAnswer ==
    ASSUME Basis, NEW type, Take(type), Types', UNCHANGED workerVars,
           \A i \in DOMAIN calls' : calls'[i][1] = round,
           calls' = calls \/ type = "ToolCall"
    PROVE  /\ OfTheRound'
           /\ type \in {"Done", "Error"} => stream' = <<>> /\ worker = "gone"
           /\ type = "Done" => round \in whole
           /\ turn' = "receiving" /\ type # "Done" => Stages'
<1>1. /\ stream \in Seq(StreamEvent) /\ stream # <<>> /\ stream' = Tail(stream)
      /\ stream[1].type = type /\ turn = "receiving"
  <2>1. stream \in Seq(StreamEvent) /\ stream # <<>> /\ stream' = Tail(stream)
        /\ Head(stream).type = type /\ turn = "receiving"
    BY Facts DEF Basis, Take
  <2> QED
    BY <2>1, WhatIsLeft
<1>2. /\ Len(stream) \in Nat /\ Len(stream) > 0 /\ DOMAIN stream = 1 .. Len(stream)
      /\ Len(stream') = Len(stream) - 1 /\ DOMAIN stream' = 1 .. (Len(stream) - 1)
      /\ \A i \in DOMAIN stream' : i \in Nat /\ i > 0 /\ i + 1 \in DOMAIN stream /\ stream'[i] = stream[i + 1]
      /\ 1 \in DOMAIN stream
      /\ stream' = <<>> <=> Len(stream) = 1
      /\ stream' # <<>> => stream'[Len(stream')] = stream[Len(stream)]
  BY <1>1, WhatIsLeft
<1>3. worker' = worker /\ round' = round /\ whole' = whole
  BY DEF workerVars
<1>4. \A i \in DOMAIN stream : InOrder(i)
  BY DEF Basis, OfTheRound
<1>5. ASSUME NEW i \in DOMAIN stream' PROVE InOrder(i)'
  <2>1. InOrder(i + 1) /\ stream'[i] = stream[i + 1]
    BY <1>2, <1>4
  <2>2. (i + 1 = Len(stream)) => (i = Len(stream'))
    BY <1>2
  <2> QED
    BY <1>3, <2>1, <2>2 DEF InOrder
<1>7. OfTheRound'
  BY <1>3, <1>5 DEF OfTheRound
<1>8. InOrder(1)
  BY <1>2, <1>4
<1>9. /\ type \in {"Done", "Error"} => stream' = <<>> /\ worker = "gone"
      /\ type = "Done" => round \in whole
  BY <1>1, <1>2, <1>8 DEF InOrder
<1>10. turn' = "receiving" /\ type # "Done" => Stages'
  BY <1>1, <1>2, <1>3 DEF Basis, Stages
<1> QED
  BY <1>7, <1>9, <1>10

\* The three tasks stay in step.
LEMMA BasisStep == Basis /\ [Next]_vars => Basis'
<1> SUFFICES ASSUME Basis, [Next]_vars PROVE Basis'
  OBVIOUS
<1> USE DEF Basis
<1>1. Types'
  BY TypesStep
<1>2. /\ stream \in Seq(StreamEvent) /\ session \in Seq(SessionEvent) /\ calls \in Seq(Call)
      /\ round \in Nat /\ whole \subseteq Nat /\ Len(calls) \in Nat /\ DOMAIN calls = 1 .. Len(calls)
  BY Facts
<1>3. UNCHANGED <<relay, saved>> /\ (relay = "starting" => UNCHANGED <<turn, sse, messages, inMessage, pending>>)
        => AtTheStart'
  BY DEF AtTheStart
<1>4. relay = "starting" => turn = "none" /\ Idle
  BY DEF AtTheStart, Stages
<1>5. UNCHANGED <<workerVars, turnVars, stream>> => OfTheRound'
  BY DEF workerVars, turnVars, OfTheRound, InOrder
<1>6. UNCHANGED <<workerVars, turnVars, stream>> /\ (session = <<>> => session' = <<>>) => Stages'
  BY DEF workerVars, turnVars, Stages, Idle
<1>7. CASE WorkerStep
  <2>1. UNCHANGED relayVars /\ UNCHANGED turnVars
    BY <1>7 DEF WorkerStep, WorkerChunk, WorkerBuffers, WorkerFinishes, WorkerDrains, WorkerEnds,
                WorkerBreaks, WorkerRefused
  <2>2. AtTheStart'
    BY <1>3, <2>1 DEF relayVars, turnVars
  <2>3. CASE WorkerChunk
    <3>1. Event("Chunk", NoCall) \in StreamEvent /\ Event("Chunk", NoCall).type = "Chunk"
      BY Names DEF Event, StreamType
    <3>2. worker = "open" /\ worker' = worker /\ round' = round /\ whole' = whole
          /\ Stream(Event("Chunk", NoCall))
      BY <2>3 DEF WorkerChunk
    <3> QED
      BY <1>1, <2>1, <2>2, <3>1, <3>2, MoreOfTheAnswer
  <2>4. CASE WorkerBuffers
    <3>1. UNCHANGED <<worker, round, whole, stream, session>>
      BY <2>4 DEF WorkerBuffers
    <3> QED
      BY <1>1, <2>1, <2>2, <3>1 DEF Stages, Idle, OfTheRound, InOrder, turnVars
  <2>5. CASE WorkerFinishes
    <3>1. UNCHANGED <<round, whole, stream, session>> /\ worker = "open" /\ worker' = "draining"
      BY <2>5 DEF WorkerFinishes
    <3>2. Stages'
      BY <2>1, <3>1 DEF Stages, Idle, turnVars
    <3>3. OfTheRound'
      BY <2>1, <3>1 DEF OfTheRound, InOrder, turnVars
    <3> QED
      BY <1>1, <2>2, <3>2, <3>3
  <2>6. CASE WorkerDrains
    <3> PICK c \in buffered : Stream(Event("ToolCall", <<round, c>>))
      BY <2>6 DEF WorkerDrains
    <3> DEFINE e == Event("ToolCall", <<round, c>>)
    <3>1. c \in Index /\ <<round, c>>[1] = round
      BY Names
    <3>2. e \in StreamEvent /\ e.type = "ToolCall" /\ e.call = <<round, c>>
      BY <1>2, <3>1, Names DEF Event
    <3>3. worker = "draining" /\ round' = round /\ whole' = whole
      BY <2>6 DEF WorkerDrains
    <3>4. e.call[1] = round
      BY <3>1, <3>2
    <3> HIDE DEF e
    <3>5. Stream(e)
      BY DEF e
    <3> QED
      BY <1>1, <2>1, <2>2, <3>2, <3>3, <3>4, <3>5, MoreOfTheAnswer
  <2>7. CASE WorkerEnds
    <3>1. Event("Done", NoCall) \in StreamEvent /\ Event("Done", NoCall).type = "Done"
      BY Names DEF Event, StreamType
    <3>2. worker = "open" /\ worker' = "gone" /\ round' = round
          /\ whole' = whole \union {round} /\ Stream(Event("Done", NoCall))
      BY <2>7 DEF WorkerEnds
    <3> QED
      BY <1>1, <2>1, <2>2, <3>1, <3>2, MoreOfTheAnswer
  <2>8. CASE WorkerBreaks
    <3>1. UNCHANGED <<round, whole, stream, session>> /\ worker = "open" /\ worker' = "gone"
      BY <2>8 DEF WorkerBreaks
    <3>2. Stages'
      BY <2>1, <3>1 DEF Stages, Idle, turnVars
    <3>3. OfTheRound'
      BY <2>1, <3>1 DEF OfTheRound, InOrder, turnVars
    <3> QED
      BY <1>1, <2>2, <3>2, <3>3
  <2>9. CASE WorkerRefused
    <3>1. Event("Error", NoCall) \in StreamEvent /\ Event("Error", NoCall).type = "Error"
      BY Names DEF Event, StreamType
    <3>2. worker = "open" /\ worker' = "gone" /\ round' = round
          /\ whole' = whole /\ Stream(Event("Error", NoCall))
      BY <2>9 DEF WorkerRefused
    <3> QED
      BY <1>1, <2>1, <2>2, <3>1, <3>2, MoreOfTheAnswer
  <2> QED
    BY <1>7, <2>3, <2>4, <2>5, <2>6, <2>7, <2>8, <2>9 DEF WorkerStep
<1>8. CASE Request
  <2>1. /\ turn' = "receiving" /\ calls' = <<>> /\ worker' = "open" /\ round' = round + 1
        /\ UNCHANGED <<whole, stream, session, relay, saved>>
        /\ turn = "requesting" \/ (turn = "receiving" /\ stream = <<>>)
    BY <1>8 DEF Request, FreshCalls, relayVars
  <2>2. stream = <<>>
    BY <2>1 DEF Stages, Idle
  <2>3. \A n \in whole : n <= round /\ n \in Nat
    BY <1>2 DEF Stages
  <2>4. round' \notin whole' /\ \A n \in whole' : n <= round'
    BY <1>2, <2>1, <2>3
  <2>5. DOMAIN calls' = {} /\ DOMAIN stream' = {}
    BY <2>1, <2>2
  <2>6. AtTheStart'
    BY <1>3, <1>4, <2>1
  <2>7. Stages'
    BY <2>1, <2>4 DEF Stages
  <2>8. OfTheRound'
    BY <2>1, <2>5 DEF OfTheRound
  <2> QED
    BY <1>1, <2>6, <2>7, <2>8
<1>9. CASE TurnChunk \/ TurnToolCall \/ TurnDone \/ TurnError
  <2>1. UNCHANGED workerVars /\ UNCHANGED relayVars /\ turn = "receiving"
    BY <1>9 DEF TurnChunk, TurnToolCall, TurnDone, TurnError, Take
  <2>2. AtTheStart'
    BY <1>3, <1>4, <2>1 DEF relayVars
  <2>3. \A i \in DOMAIN calls : calls[i][1] = round
    BY DEF OfTheRound
  <2>4. CASE TurnChunk
    <3>1. Take("Chunk") /\ calls' = calls /\ turn' = "receiving"
      BY <2>1, <2>4 DEF TurnChunk, turnVars
    <3>2. \A i \in DOMAIN calls' : calls'[i][1] = round
      BY <2>3, <3>1
    <3> QED
      BY <1>1, <2>1, <2>2, <3>1, <3>2, LessOfTheAnswer
  <2>5. CASE TurnToolCall
    <3>1. Take("ToolCall") /\ calls' = Append(calls, Head(stream).call) /\ turn' = "receiving"
      BY <2>1, <2>5 DEF TurnToolCall
    <3>2. stream # <<>> /\ Head(stream).type = "ToolCall"
      BY <3>1 DEF Take
    <3>3. 1 \in DOMAIN stream /\ Head(stream) = stream[1]
      BY <1>2, <3>2, WhatIsLeft
    <3>4. Head(stream).call \in Call /\ Head(stream).call[1] = round
      BY <3>2, <3>3, Facts DEF OfTheRound, InOrder
    <3>5. \A i \in DOMAIN calls' : calls'[i][1] = round
      <4> DEFINE c == Head(stream).call
      <4>1. c \in Call /\ c[1] = round /\ calls' = Append(calls, c)
        BY <3>1, <3>4
      <4> HIDE DEF c
      <4> QED
        BY <1>2, <2>3, <4>1, WhatIsAdded
    <3> QED
      BY <1>1, <2>1, <2>2, <3>1, <3>5, LessOfTheAnswer
  <2>6. CASE TurnDone
    <3>1. Take("Done") /\ calls' = calls /\ turn' \in {"executing", "returned"}
      BY <2>6 DEF TurnDone
    <3>2. \A i \in DOMAIN calls' : calls'[i][1] = round
      BY <2>3, <3>1
    <3>3. OfTheRound' /\ stream' = <<>> /\ worker = "gone" /\ round \in whole
      BY <1>1, <2>1, <3>1, <3>2, LessOfTheAnswer
    <3>4. Stages'
      BY <2>1, <3>1, <3>3 DEF Stages, workerVars
    <3> QED
      BY <1>1, <2>2, <3>3, <3>4
  <2>7. CASE TurnError
    <3>1. Take("Error") /\ calls' = calls /\ turn' = "returned"
      BY <2>7 DEF TurnError
    <3>2. \A i \in DOMAIN calls' : calls'[i][1] = round
      BY <2>3, <3>1
    <3>3. OfTheRound' /\ stream' = <<>> /\ worker = "gone"
      BY <1>1, <2>1, <3>1, <3>2, LessOfTheAnswer
    <3>4. Stages'
      BY <2>1, <3>1, <3>3 DEF Stages, workerVars
    <3> QED
      BY <1>1, <2>2, <3>3, <3>4
  <2> QED
    BY <1>9, <2>4, <2>5, <2>6, <2>7
<1>10. CASE TurnExecutes
  <2>1. /\ turn = "executing" /\ calls' = Tail(calls) /\ UNCHANGED <<stream, relay, saved>>
        /\ turn' = IF calls' = <<>> THEN "receiving" ELSE "executing"
        /\ UNCHANGED workerVars
    BY <1>10 DEF TurnExecutes, AfterTool, relayVars
  <2>2. calls # <<>>
    BY <2>1 DEF Types
  <2>3. AtTheStart'
    BY <1>3, <1>4, <2>1
  <2>4. stream = <<>> /\ worker = "gone" /\ round \in whole
    BY <2>1 DEF Stages
  <2>5. Stages'
    BY <2>1, <2>4 DEF Stages, workerVars
  <2>6. \A i \in DOMAIN calls' : calls'[i][1] = round
    BY <1>2, <2>1, <2>2, WhatIsLeft DEF OfTheRound
  <2>7. DOMAIN stream' = {}
    BY <2>1, <2>4
  <2>8. OfTheRound'
    BY <2>1, <2>4, <2>6, <2>7 DEF OfTheRound, workerVars
  <2> QED
    BY <1>1, <2>3, <2>5, <2>8
<1>11. CASE Start
  <2>1. /\ relay = "starting" /\ relay' = "relaying" /\ turn' = "requesting" /\ UNCHANGED workerVars
        /\ UNCHANGED <<stream, calls, session, saved>>
    BY <1>11 DEF Start
  <2>2. Idle
    BY <1>4, <2>1
  <2>3. Idle' /\ Stages'
    BY <2>1, <2>2 DEF Stages, Idle, workerVars
  <2>4. OfTheRound'
    BY <2>1 DEF OfTheRound, InOrder, workerVars
  <2>5. AtTheStart'
    BY <2>1 DEF AtTheStart
  <2> QED
    BY <1>1, <2>3, <2>4, <2>5
<1>12. CASE Refuse \/ RelayToken \/ RelayToolCall \/ RelayToolResult \/ RelayDone \/ RelayError
  <2>1. UNCHANGED <<workerVars, turnVars, stream>> /\ (session = <<>> => session' = <<>>)
    BY <1>12 DEF Refuse, RelayToken, RelayToolCall, RelayToolResult, RelayDone, RelayError, Hear
  <2>2. AtTheStart'
    BY <1>12 DEF Refuse, RelayToken, RelayToolCall, RelayToolResult, RelayDone, RelayError, Hear, AtTheStart
  <2> QED
    BY <1>1, <1>5, <1>6, <2>1, <2>2
<1>13. CASE UNCHANGED vars
  BY <1>1, <1>3, <1>5, <1>6, <1>13 DEF vars, workerVars, turnVars
<1> QED
  BY <1>7, <1>8, <1>9, <1>10, <1>11, <1>12, <1>13 DEF Next, TurnStep, RelayStep

-----------------------------------------------------------------------------
(* A call is run once *)

\* The call has begun in the answer and is buffered no more.
Drained(d) == d[2] \in (1 .. begun) \ buffered

\* The calls that wait, here or there, are different ones, and those that may still be
\* sent are not among them.
Distinct ==
    /\ \A i, j \in DOMAIN calls : calls[i] = calls[j] => i = j
    /\ \A i, j \in DOMAIN stream :
        (stream[i].type = "ToolCall" /\ stream[i] = stream[j]) => i = j
    /\ \A i \in DOMAIN stream : \A j \in DOMAIN calls :
        stream[i].type = "ToolCall" => stream[i].call # calls[j]
    /\ worker \in {"open", "draining"} =>
        /\ \A j \in DOMAIN calls : Drained(calls[j])
        /\ \A i \in DOMAIN stream : stream[i].type = "ToolCall" => Drained(stream[i].call)

\* A result in the conversation is the only one for its call, which waits no more.
RanOnce(i) ==
    /\ messages[i].call[1] \in whole
    /\ \A j \in DOMAIN messages : messages[i] = messages[j] => i = j
    /\ \A j \in DOMAIN calls : calls[j] # messages[i].call
    /\ messages[i].call[1] = round => stream = <<>> /\ worker = "gone"

RunOnce == \A i \in DOMAIN messages : messages[i].role = "tool" => RanOnce(i)

\* Where a sequence of different calls is taken from or added to, they stay different.
LEMMA DistinctStep == Basis /\ Distinct /\ RunOnce /\ [Next]_vars => Distinct'
<1> SUFFICES ASSUME Basis, Distinct, RunOnce, [Next]_vars PROVE Distinct'
  OBVIOUS
<1>1. /\ stream \in Seq(StreamEvent) /\ calls \in Seq(Call) /\ round \in Nat
      /\ Len(calls) \in Nat /\ DOMAIN calls = 1 .. Len(calls)
      /\ Len(stream) \in Nat /\ DOMAIN stream = 1 .. Len(stream)
      /\ begun \in Nat /\ buffered \subseteq 1 .. begun /\ buffered \subseteq Index
  BY Facts, Names DEF Basis
<1>2. UNCHANGED <<calls, stream, worker, begun, buffered>> => Distinct'
  BY DEF Distinct, Drained
<1>3. CASE WorkerChunk \/ WorkerEnds \/ WorkerRefused
  <2>1. PICK e \in StreamEvent : e.type # "ToolCall" /\ stream' = Append(stream, e)
    <3>1. /\ Event("Chunk", NoCall) \in StreamEvent /\ Event("Chunk", NoCall).type = "Chunk"
          /\ Event("Done", NoCall) \in StreamEvent /\ Event("Done", NoCall).type = "Done"
          /\ Event("Error", NoCall) \in StreamEvent /\ Event("Error", NoCall).type = "Error"
      BY Names DEF Event, StreamType
    <3> HIDE DEF StreamEvent, Event
    <3> QED
      BY <1>3, <3>1 DEF WorkerChunk, WorkerEnds, WorkerRefused, Stream
  <2>2. UNCHANGED <<calls, begun, buffered>> /\ worker = "open"
    BY <1>3 DEF WorkerChunk, WorkerEnds, WorkerRefused, turnVars
  <2>3. /\ DOMAIN stream' = 1 .. (Len(stream) + 1)
        /\ \A i \in DOMAIN stream : stream'[i] = stream[i]
        /\ stream'[Len(stream) + 1] = e
    BY <1>1, <2>1, WhatIsAdded
  <2>4. \A i \in DOMAIN stream' : stream'[i].type = "ToolCall" => i \in DOMAIN stream
    BY <1>1, <2>1, <2>3
  <2>5. \A i, j \in DOMAIN stream' :
            (stream'[i].type = "ToolCall" /\ stream'[i] = stream'[j]) => i = j
    BY <2>3, <2>4 DEF Distinct
  <2>6. /\ \A j \in DOMAIN calls' : Drained(calls[j])
        /\ \A i \in DOMAIN stream' : stream'[i].type = "ToolCall" => Drained(stream'[i].call)
    BY <2>2, <2>3, <2>4 DEF Distinct
  <2>7. /\ \A j \in DOMAIN calls' : Drained(calls[j])'
        /\ \A i \in DOMAIN stream' : stream'[i].type = "ToolCall" => Drained(stream[i].call)'
    BY <2>2, <2>6 DEF Drained
  <2> QED
    BY <2>2, <2>3, <2>4, <2>5, <2>7 DEF Distinct
<1>4. CASE WorkerBreaks
  <2>1. calls' = calls /\ stream' = stream /\ worker' = "gone"
    BY <1>4 DEF WorkerBreaks, turnVars
  <2> QED
    BY <2>1 DEF Distinct
<1>5. CASE WorkerBuffers \/ WorkerFinishes
  <2>1. /\ calls' = calls /\ stream' = stream /\ worker = "open"
        /\ (1 .. begun) \ buffered \subseteq (1 .. begun') \ buffered'
    <3>1. CASE WorkerBuffers
      <4>1. UNCHANGED <<calls, stream>> /\ worker = "open" /\ begun' = begun + 1
            /\ buffered' = buffered \union {begun + 1}
        BY <3>1 DEF WorkerBuffers, turnVars
      <4> QED
        BY <1>1, <4>1
    <3>2. CASE WorkerFinishes
      BY <3>2 DEF WorkerFinishes, turnVars
    <3> QED
      BY <1>5, <3>1, <3>2
  <2>2. /\ \A j \in DOMAIN calls' : Drained(calls[j])'
        /\ \A i \in DOMAIN stream' : stream'[i].type = "ToolCall" => Drained(stream[i].call)'
    BY <2>1 DEF Distinct, Drained
  <2> QED
    BY <2>1, <2>2 DEF Distinct
<1>6. CASE WorkerDrains
  <2>1. PICK c \in buffered : buffered' = buffered \ {c} /\ Stream(Event("ToolCall", <<round, c>>))
    BY <1>6 DEF WorkerDrains
  <2>2. UNCHANGED <<calls, begun>> /\ worker = "draining"
    BY <1>6 DEF WorkerDrains, turnVars
  <2> DEFINE e == Event("ToolCall", <<round, c>>)
  <2>3. e \in StreamEvent /\ e.type = "ToolCall" /\ e.call = <<round, c>>
    BY <1>1, Names DEF Event
  <2>4. stream' = Append(stream, e)
    BY <2>1 DEF Stream
  <2> HIDE DEF e
  <2>5. /\ DOMAIN stream' = 1 .. (Len(stream) + 1)
        /\ \A i \in DOMAIN stream : stream'[i] = stream[i]
        /\ stream'[Len(stream) + 1] = e
    BY <1>1, <2>3, <2>4, WhatIsAdded
  <2>6. \A i \in DOMAIN stream' : i \in DOMAIN stream \/ i = Len(stream) + 1
    BY <1>1, <2>5
  <2>7. /\ \A j \in DOMAIN calls : Drained(calls[j])
        /\ \A i \in DOMAIN stream : stream[i].type = "ToolCall" => Drained(stream[i].call)
    BY <2>2 DEF Distinct
  <2>8. /\ \A j \in DOMAIN calls : calls[j] # e.call
        /\ \A i \in DOMAIN stream : stream[i].type = "ToolCall" => stream[i].call # e.call
    <3>1. ~ Drained(e.call)
      BY <2>1, <2>3 DEF Drained
    <3> QED
      BY <2>7, <3>1
  <2>9. \A i, j \in DOMAIN stream' :
            (stream'[i].type = "ToolCall" /\ stream'[i] = stream'[j]) => i = j
    <3>1. \A i \in DOMAIN stream : stream[i] # e
      BY <2>3, <2>8
    <3> QED
      BY <2>5, <2>6, <3>1 DEF Distinct
  <2>10. \A i \in DOMAIN stream' : \A j \in DOMAIN calls :
            stream'[i].type = "ToolCall" => stream'[i].call # calls[j]
    <3>1. \A i \in DOMAIN stream : \A j \in DOMAIN calls :
            stream[i].type = "ToolCall" => stream[i].call # calls[j]
      BY DEF Distinct
    <3> QED
      BY <2>5, <2>6, <2>8, <3>1
  <2>11. (1 .. begun') \ buffered' = ((1 .. begun) \ buffered) \union {c}
    BY <1>1, <2>1, <2>2
  <2>12. /\ \A j \in DOMAIN calls' : calls'[j][2] \in (1 .. begun') \ buffered'
         /\ \A i \in DOMAIN stream' : stream'[i].type = "ToolCall" =>
                stream'[i].call[2] \in (1 .. begun') \ buffered'
    <3>1. e.call[2] = c
      BY <2>3
    <3> QED
      BY <2>2, <2>5, <2>6, <2>7, <2>11, <3>1 DEF Drained
  <2> QED
    BY <2>2, <2>9, <2>10, <2>12 DEF Distinct, Drained
<1>7. CASE Request
  <2>1. calls' = <<>> /\ stream' = <<>>
    BY <1>7 DEF Request, FreshCalls, Basis, Stages, Idle
  <2>2. DOMAIN calls' = {} /\ DOMAIN stream' = {}
    BY <2>1
  <2> QED
    BY <2>1, <2>2 DEF Distinct
<1>8. ASSUME NEW type, Take(type)
      PROVE  /\ \A i \in DOMAIN stream' : i + 1 \in DOMAIN stream /\ i # 0 /\ i \in Nat
                                          /\ stream'[i] = stream[i + 1]
             /\ 1 \in DOMAIN stream /\ Head(stream) = stream[1] /\ stream[1].type = type
             /\ \A i, j \in DOMAIN stream' :
                    (stream'[i].type = "ToolCall" /\ stream'[i] = stream'[j]) => i = j
  <2>1. stream # <<>> /\ stream' = Tail(stream) /\ Head(stream).type = type
    BY <1>8 DEF Take
  <2>2. /\ \A i \in DOMAIN stream' : i \in Nat /\ i > 0 /\ i + 1 \in DOMAIN stream /\ stream'[i] = stream[i + 1]
        /\ 1 \in DOMAIN stream /\ Head(stream) = stream[1] /\ stream[1].type = type
    BY <1>1, <2>1, WhatIsLeft
  <2>3. ASSUME NEW i \in DOMAIN stream', NEW j \in DOMAIN stream',
               stream'[i].type = "ToolCall", stream'[i] = stream'[j]
        PROVE  i = j
    <3>1. i + 1 = j + 1
      BY <2>2, <2>3 DEF Distinct
    <3> QED
      BY <2>2, <3>1
  <2> QED
    BY <2>2, <2>3
<1>9. CASE TurnChunk \/ TurnDone \/ TurnError
  <2>1. calls' = calls /\ UNCHANGED workerVars /\ \E type : Take(type)
    BY <1>9 DEF TurnChunk, TurnDone, TurnError, turnVars
  <2>2. /\ \A i \in DOMAIN stream' : i + 1 \in DOMAIN stream /\ stream'[i] = stream[i + 1]
        /\ \A i, j \in DOMAIN stream' :
                    (stream'[i].type = "ToolCall" /\ stream'[i] = stream'[j]) => i = j
    BY <1>8, <2>1
  <2> QED
    BY <2>1, <2>2 DEF Distinct, Drained, workerVars
<1>10. CASE TurnToolCall
  <2> DEFINE c == Head(stream).call
  <2>1. Take("ToolCall") /\ calls' = Append(calls, c) /\ UNCHANGED workerVars
    BY <1>10 DEF TurnToolCall
  <2>2. /\ \A i \in DOMAIN stream' : i + 1 \in DOMAIN stream /\ i # 0 /\ i \in Nat
                                          /\ stream'[i] = stream[i + 1]
        /\ 1 \in DOMAIN stream /\ c = stream[1].call /\ stream[1].type = "ToolCall"
        /\ \A i, j \in DOMAIN stream' :
                    (stream'[i].type = "ToolCall" /\ stream'[i] = stream'[j]) => i = j
    BY <1>8, <2>1
  <2>3. c \in Call
    BY <2>2, Facts DEF Basis
  <2> HIDE DEF c
  <2>4. /\ DOMAIN calls' = 1 .. (Len(calls) + 1)
        /\ \A i \in DOMAIN calls : calls'[i] = calls[i]
        /\ calls'[Len(calls) + 1] = c
    BY <1>1, <2>1, <2>3, WhatIsAdded
  <2>5. \A i \in DOMAIN calls' : i \in DOMAIN calls \/ i = Len(calls) + 1
    BY <1>1, <2>4
  <2>6. \A i \in DOMAIN calls : calls[i] # c
    BY <2>2 DEF Distinct
  <2>7. \A i, j \in DOMAIN calls' : calls'[i] = calls'[j] => i = j
    BY <2>4, <2>5, <2>6 DEF Distinct
  <2>8. ASSUME NEW i \in DOMAIN stream', stream'[i].type = "ToolCall" PROVE stream'[i].call # c
    <3>1. i + 1 \in DOMAIN stream /\ i + 1 # 1 /\ stream'[i] = stream[i + 1]
      BY <2>2
    <3>2. stream[i + 1] \in StreamEvent /\ stream[1] \in StreamEvent
      BY <1>1, <2>2, <3>1, ElementOfSeq
    <3>3. stream[i + 1] # stream[1]
      BY <2>2, <2>8, <3>1 DEF Distinct
    <3>4. stream[i + 1].type = stream[1].type
      BY <2>2, <2>8, <3>1
    <3> QED
      BY <2>2, <3>1, <3>2, <3>3, <3>4 DEF StreamEvent
  <2>9. \A i \in DOMAIN stream' : \A j \in DOMAIN calls' :
            stream'[i].type = "ToolCall" => stream'[i].call # calls'[j]
    BY <2>2, <2>4, <2>5, <2>8 DEF Distinct
  <2>10. UNCHANGED <<worker, begun, buffered>>
    BY <2>1 DEF workerVars
  <2>11. ASSUME worker \in {"open", "draining"}
         PROVE  /\ \A j \in DOMAIN calls' : Drained(calls'[j])
                /\ \A i \in DOMAIN stream' : stream'[i].type = "ToolCall" => Drained(stream'[i].call)
    <3>1. /\ \A j \in DOMAIN calls : Drained(calls[j])
          /\ \A i \in DOMAIN stream : stream[i].type = "ToolCall" => Drained(stream[i].call)
      BY <2>11 DEF Distinct
    <3> QED
      BY <2>2, <2>4, <2>5, <3>1
  <2>12. worker' \in {"open", "draining"} =>
            /\ \A j \in DOMAIN calls' : Drained(calls[j])'
            /\ \A i \in DOMAIN stream' : stream'[i].type = "ToolCall" => Drained(stream[i].call)'
    BY <2>10, <2>11 DEF Drained
  <2> QED
    BY <2>2, <2>7, <2>9, <2>12 DEF Distinct
<1>11. CASE TurnExecutes
  <2>1. calls # <<>> /\ calls' = Tail(calls) /\ stream' = stream /\ worker' = "gone"
    BY <1>11 DEF TurnExecutes, Basis, Types, Stages, workerVars
  <2>2. \A i \in DOMAIN calls' : i \in Nat /\ i + 1 \in DOMAIN calls /\ calls'[i] = calls[i + 1]
    BY <1>1, <2>1, WhatIsLeft
  <2>3. ASSUME NEW i \in DOMAIN calls', NEW j \in DOMAIN calls', calls'[i] = calls'[j] PROVE i = j
    <3>1. i + 1 = j + 1
      BY <2>2, <2>3 DEF Distinct
    <3> QED
      BY <2>2, <3>1
  <2> QED
    BY <2>1, <2>2, <2>3 DEF Distinct
<1>12. CASE RelayStep \/ UNCHANGED vars
  <2>1. UNCHANGED <<calls, stream, workerVars>>
    BY <1>12 DEF RelayStep, Start, Refuse, RelayToken, RelayToolCall, RelayToolResult, RelayDone,
                 RelayError, turnVars, vars, workerVars
  <2> QED
    BY <1>2, <2>1 DEF workerVars
<1> QED
  BY <1>3, <1>4, <1>5, <1>6, <1>7, <1>9, <1>10, <1>11, <1>12 DEF Next, WorkerStep, TurnStep

\* The conversation that is gone on with has no results of this turn.
LEMMA NothingRunYet ==
    ASSUME Basis, Start
    PROVE  \A i \in DOMAIN messages' : messages'[i].role # "tool"
<1>1. saved \in {<<>>, Earlier, Unreadable} /\ messages' = Conversation
  BY DEF Basis, AtTheStart, Start
<1>2. PICK s : s \in {<<>>, Earlier} /\ messages' = Append(s, Message("user", NoCall))
  BY <1>1 DEF Conversation, Loaded
<1>3. /\ Message("system", NoCall) \in Turn /\ Message("user", NoCall) \in Turn
      /\ Message("assistant", NoCall) \in Turn
  BY Names DEF Role
<1>4. s \in Seq(Turn) /\ \A i \in DOMAIN s : s[i].role # "tool"
  <2>1. CASE s = <<>>
    BY <2>1, EmptySeq
  <2>2. CASE s = Earlier
    <3> DEFINE a == Message("system", NoCall)
               b == Message("user", NoCall)
               c == Message("assistant", NoCall)
    <3>1. s = <<a, b, c>> /\ a.role # "tool" /\ b.role # "tool" /\ c.role # "tool"
          /\ a \in Turn /\ b \in Turn /\ c \in Turn
      BY <1>3, <2>2 DEF Earlier, Message
    <3> HIDE DEF a, b, c
    <3>2. s \in Seq(Turn) /\ DOMAIN s = 1 .. 3 /\ s[1] = a /\ s[2] = b /\ s[3] = c
      BY <3>1
    <3>3. \A i \in 1 .. 3 : i = 1 \/ i = 2 \/ i = 3
      OBVIOUS
    <3> QED
      BY <3>1, <3>2, <3>3
  <2> QED
    BY <1>2, <2>1, <2>2
<1>5. Message("user", NoCall).role # "tool"
  BY DEF Message
<1> HIDE DEF Message
<1>6. /\ DOMAIN messages' = 1 .. (Len(s) + 1) /\ DOMAIN s = 1 .. Len(s) /\ Len(s) \in Nat
      /\ \A i \in DOMAIN s : messages'[i] = s[i]
      /\ messages'[Len(s) + 1] = Message("user", NoCall)
  BY <1>2, <1>3, <1>4, WhatIsAdded
<1>7. \A i \in DOMAIN messages' : i \in DOMAIN s \/ i = Len(s) + 1
  BY <1>6
<1> QED
  BY <1>4, <1>5, <1>6, <1>7

\* A tool is run for a call that is taken from those that wait.
LEMMA RunOnceStep == Basis /\ Distinct /\ RunOnce /\ [Next]_vars => RunOnce'
<1> SUFFICES ASSUME Basis, Distinct, RunOnce, [Next]_vars PROVE RunOnce'
  OBVIOUS
<1>1. /\ stream \in Seq(StreamEvent) /\ calls \in Seq(Call) /\ messages \in Seq(Turn) /\ round \in Nat
      /\ whole \subseteq Nat /\ Len(messages) \in Nat /\ DOMAIN messages = 1 .. Len(messages)
      /\ Len(calls) \in Nat /\ DOMAIN calls = 1 .. Len(calls)
  BY Facts DEF Basis
<1>2. UNCHANGED <<messages, whole, calls, round, stream, worker>> => RunOnce'
  BY DEF RunOnce, RanOnce
<1>3. CASE WorkerStep
  <2>1. worker \in {"open", "draining"} /\ UNCHANGED <<messages, calls, round>> /\ whole \subseteq whole'
    BY <1>3 DEF WorkerStep, WorkerChunk, WorkerBuffers, WorkerFinishes, WorkerDrains, WorkerEnds,
                WorkerBreaks, WorkerRefused, turnVars
  <2> QED
    BY <2>1 DEF RunOnce, RanOnce
<1>4. CASE Request
  <2>1. /\ calls' = <<>> /\ round' = round + 1 /\ messages' = messages /\ whole' = whole
    BY <1>4 DEF Request, FreshCalls
  <2>2. DOMAIN calls' = {}
    BY <2>1
  <2>3. \A n \in whole : n <= round /\ n \in Nat
    BY <1>1 DEF Basis, Stages
  <2>4. \A n \in whole : n # round'
    BY <1>1, <2>1, <2>3
  <2> QED
    BY <2>1, <2>2, <2>4 DEF RunOnce, RanOnce
<1>5. ASSUME NEW type, Take(type), UNCHANGED workerVars
      PROVE  /\ \A i \in DOMAIN messages :
                    messages[i].role = "tool" => messages[i].call[1] # round'
             /\ round' = round /\ whole' = whole /\ worker' = worker
  BY <1>5 DEF Take, RunOnce, RanOnce, workerVars
<1>6. CASE TurnChunk \/ TurnError
  <2>1. UNCHANGED <<messages, calls>> /\ UNCHANGED workerVars /\ \E type : Take(type)
    BY <1>6 DEF TurnChunk, TurnError, turnVars
  <2>2. /\ \A i \in DOMAIN messages :
                    messages[i].role = "tool" => messages[i].call[1] # round'
        /\ round' = round /\ whole' = whole
    BY <1>5, <2>1
  <2> QED
    BY <2>1, <2>2 DEF RunOnce, RanOnce
<1>7. CASE TurnToolCall
  <2> DEFINE c == Head(stream).call
  <2>1. Take("ToolCall") /\ calls' = Append(calls, c) /\ UNCHANGED workerVars /\ messages' = messages
    BY <1>7 DEF TurnToolCall
  <2>2. /\ \A i \in DOMAIN messages :
                    messages[i].role = "tool" => messages[i].call[1] # round'
        /\ round' = round /\ whole' = whole
    BY <1>5, <2>1
  <2>3. stream # <<>> /\ Head(stream).type = "ToolCall"
    BY <2>1 DEF Take
  <2>4. 1 \in DOMAIN stream /\ Head(stream) = stream[1]
    BY <1>1, <2>3, WhatIsLeft
  <2>5. c \in Call /\ c[1] = round
    BY <2>3, <2>4, Facts DEF Basis, OfTheRound, InOrder
  <2> HIDE DEF c
  <2>6. /\ DOMAIN calls' = 1 .. (Len(calls) + 1)
        /\ \A i \in DOMAIN calls : calls'[i] = calls[i]
        /\ calls'[Len(calls) + 1] = c
    BY <1>1, <2>1, <2>5, WhatIsAdded
  <2>7. \A i \in DOMAIN calls' : i \in DOMAIN calls \/ i = Len(calls) + 1
    BY <1>1, <2>6
  <2> QED
    BY <2>1, <2>2, <2>5, <2>6, <2>7 DEF RunOnce, RanOnce
<1>8. CASE TurnDone
  <2> DEFINE m == Message("assistant", NoCall)
  <2>1. Take("Done") /\ messages' = Append(messages, m) /\ calls' = calls /\ UNCHANGED workerVars
    BY <1>8 DEF TurnDone
  <2>2. /\ \A i \in DOMAIN messages :
                    messages[i].role = "tool" => messages[i].call[1] # round'
        /\ round' = round /\ whole' = whole
    BY <1>5, <2>1
  <2>3. m \in Turn /\ m.role = "assistant"
    BY Names DEF Message, Role
  <2> HIDE DEF m
  <2>4. /\ DOMAIN messages' = 1 .. (Len(messages) + 1)
        /\ \A i \in DOMAIN messages : messages'[i] = messages[i]
        /\ messages'[Len(messages) + 1] = m
    BY <1>1, <2>1, <2>3, WhatIsAdded
  <2>5. \A i \in DOMAIN messages' : messages'[i].role = "tool" => i \in DOMAIN messages
    BY <1>1, <2>3, <2>4
  <2>6. ASSUME NEW i \in DOMAIN messages', messages'[i].role = "tool" PROVE RanOnce(i)'
    <3>1. i \in DOMAIN messages /\ messages'[i] = messages[i] /\ RanOnce(i)
      BY <2>4, <2>5, <2>6 DEF RunOnce
    <3>2. \A j \in DOMAIN messages' : messages'[i] = messages'[j] => i = j
      <4>1. ASSUME NEW j \in DOMAIN messages', messages'[i] = messages'[j] PROVE i = j
        <5>1. j \in DOMAIN messages /\ messages'[j] = messages[j]
          BY <2>4, <2>5, <2>6, <4>1
        <5> QED
          BY <3>1, <4>1, <5>1 DEF RanOnce
      <4> QED
        BY <4>1
    <3>3. messages'[i].call[1] \in whole' /\ messages'[i].call[1] # round'
      BY <2>2, <2>6, <3>1 DEF RanOnce
    <3>4. \A j \in DOMAIN calls' : calls'[j] # messages'[i].call
      BY <2>1, <3>1 DEF RanOnce
    <3> QED
      BY <3>2, <3>3, <3>4 DEF RanOnce
  <2> QED
    BY <2>6 DEF RunOnce
<1>9. CASE TurnExecutes
  <2> DEFINE c == Head(calls)
             m == Message("tool", c)
  <2>1. /\ calls # <<>> /\ calls' = Tail(calls) /\ messages' = Append(messages, m) /\ turn = "executing"
        /\ UNCHANGED <<stream, worker, round, whole>>
    BY <1>9 DEF TurnExecutes, Basis, Types, workerVars
  <2>2. /\ \A i \in DOMAIN calls' : i \in Nat /\ i # 0 /\ i + 1 \in DOMAIN calls /\ calls'[i] = calls[i + 1]
        /\ 1 \in DOMAIN calls /\ c = calls[1] /\ c \in Call
    BY <1>1, <2>1, WhatIsLeft
  <2>3. m \in Turn /\ m.role = "tool" /\ m.call = c
    BY <2>2, Names DEF Message
  <2>4. c[1] = round /\ round \in whole /\ stream = <<>> /\ worker = "gone"
    BY <2>1, <2>2 DEF Basis, OfTheRound, Stages
  <2>5. \A i \in DOMAIN calls' : calls'[i] # c
    <3>1. ASSUME NEW i \in DOMAIN calls' PROVE calls'[i] # c
      <4>1. i \in Nat /\ i # 0 /\ i + 1 \in DOMAIN calls /\ calls'[i] = calls[i + 1] /\ i + 1 # 1
        BY <2>2
      <4> QED
        BY <2>2, <4>1 DEF Distinct
    <3> QED
      BY <3>1
  <2> HIDE DEF m, c
  <2>6. /\ DOMAIN messages' = 1 .. (Len(messages) + 1)
        /\ \A i \in DOMAIN messages : messages'[i] = messages[i]
        /\ messages'[Len(messages) + 1] = m
    BY <1>1, <2>1, <2>3, WhatIsAdded
  <2>7. \A i \in DOMAIN messages' : i \in DOMAIN messages \/ i = Len(messages) + 1
    BY <1>1, <2>6
  <2>8. \A i \in DOMAIN messages : messages[i] # m
    BY <2>2, <2>3 DEF RunOnce, RanOnce
  <2>9. ASSUME NEW i \in DOMAIN messages', messages'[i].role = "tool" PROVE RanOnce(i)'
    <3>1. CASE i \in DOMAIN messages
      <4>1. RanOnce(i) /\ messages'[i] = messages[i]
        BY <2>6, <2>9, <3>1 DEF RunOnce
      <4>2. \A j \in DOMAIN messages' : messages'[i] = messages'[j] => i = j
        BY <2>6, <2>7, <2>8, <3>1, <4>1 DEF RanOnce
      <4>3. \A j \in DOMAIN calls' : calls'[j] # messages[i].call
        BY <2>2, <4>1 DEF RanOnce
      <4> QED
        BY <2>1, <4>1, <4>2, <4>3 DEF RanOnce
    <3>2. CASE i = Len(messages) + 1
      <4>1. \A j \in DOMAIN messages' : messages'[i] = messages'[j] => i = j
        BY <2>6, <2>7, <2>8, <3>2
      <4>2. messages'[i].call = c
        BY <2>3, <2>6, <3>2
      <4> QED
        BY <2>1, <2>4, <2>5, <4>1, <4>2 DEF RanOnce
    <3> QED
      BY <2>7, <3>1, <3>2
  <2> QED
    BY <2>9 DEF RunOnce
<1>10. CASE Start
  BY <1>10, NothingRunYet DEF RunOnce
<1>11. CASE (RelayStep /\ ~ Start) \/ UNCHANGED vars
  <2>1. UNCHANGED <<messages, whole, calls, round, stream, worker>>
    BY <1>11 DEF RelayStep, Refuse, RelayToken, RelayToolCall, RelayToolResult, RelayDone,
                 RelayError, turnVars, vars, workerVars
  <2> QED
    BY <1>2, <2>1
<1> QED
  BY <1>3, <1>4, <1>6, <1>7, <1>8, <1>9, <1>10, <1>11 DEF Next, TurnStep

\* CallsRunOnce: a tool is run only for an answer that came to its end, and once
\* for a call.
THEOREM CallsRunOnceHolds == Spec => []CallsRunOnce
<1>1. Init => Basis /\ Distinct /\ RunOnce
  <2> SUFFICES ASSUME Init PROVE Basis /\ Distinct /\ RunOnce
    OBVIOUS
  <2>1. calls = <<>> /\ stream = <<>> /\ messages = <<>> /\ worker = "none"
    BY DEF Init
  <2>2. DOMAIN calls = {} /\ DOMAIN stream = {} /\ DOMAIN messages = {}
    BY <2>1
  <2> QED
    BY <2>1, <2>2, BasisInit DEF Distinct, RunOnce
<1>2. Basis /\ Distinct /\ RunOnce /\ [Next]_vars => (Basis /\ Distinct /\ RunOnce)'
  BY BasisStep, DistinctStep, RunOnceStep
<1>3. Basis /\ Distinct /\ RunOnce => CallsRunOnce
  BY DEF RunOnce, RanOnce, CallsRunOnce
<1> QED
  BY <1>1, <1>2, <1>3, PTL DEF Spec

-----------------------------------------------------------------------------
(* What a step says *)

\* What run_turn tells chat_sse.
NewlyTold(e) ==
    /\ e.type = "ToolCall" => /\ TurnToolCall /\ stream # <<>> /\ Head(stream).type = "ToolCall"
                              /\ e.call = Head(stream).call
    /\ e.type = "ToolResult" => TurnExecutes /\ calls # <<>> /\ e.call = Head(calls)
    /\ e.type = "Done" => TurnDone /\ calls = <<>> /\ turn' = "returned"

\* Every event between the two was there before or is new.
LEMMA WhatIsTold ==
    ASSUME Basis, [Next]_vars, NEW i \in DOMAIN session'
    PROVE  (\E j \in DOMAIN session : session'[i] = session[j]) \/ NewlyTold(session'[i])
<1>1. session \in Seq(SessionEvent)
  BY Facts DEF Basis
<1>2. ASSUME NEW e \in SessionEvent, Tell(e), NewlyTold(e)
      PROVE  (\E j \in DOMAIN session : session'[i] = session[j]) \/ NewlyTold(session'[i])
  <2>1. session' = Append(session, e)
    BY <1>2 DEF Tell
  <2>2. DOMAIN session' = 1 .. (Len(session) + 1) /\ DOMAIN session = 1 .. Len(session)
        /\ Len(session) \in Nat
        /\ (\A j \in DOMAIN session : session'[j] = session[j])
        /\ session'[Len(session) + 1] = e
    BY <1>1, <2>1, WhatIsAdded
  <2>3. i \in DOMAIN session \/ i = Len(session) + 1
    BY <2>2
  <2> QED
    BY <1>2, <2>2, <2>3
<1>3. CASE TurnChunk \/ TurnError
  <2>1. PICK e \in SessionEvent : e.type \in {"Token", "Error"} /\ Tell(e)
    <3>1. /\ Event("Token", NoCall) \in SessionEvent /\ Event("Token", NoCall).type = "Token"
          /\ Event("Error", NoCall) \in SessionEvent /\ Event("Error", NoCall).type = "Error"
      BY Names DEF Event, SessionType
    <3> HIDE DEF SessionEvent, Event
    <3> QED
      BY <1>3, <3>1 DEF TurnChunk, TurnError
  <2>2. NewlyTold(e)
    BY <2>1 DEF NewlyTold
  <2> QED
    BY <1>2, <2>1, <2>2
<1>4. CASE TurnToolCall
  <2> DEFINE e == Head(stream)
  <2>1. Tell(e) /\ stream # <<>> /\ e.type = "ToolCall"
    BY <1>4 DEF TurnToolCall, Take
  <2>2. e \in SessionEvent
    <3>1. e = stream[1] /\ 1 \in DOMAIN stream /\ e \in StreamEvent
      BY <2>1, Facts, WhatIsLeft DEF Basis
    <3> QED
      BY <2>1, <3>1 DEF StreamEvent, SessionEvent, SessionType
  <2>3. NewlyTold(e)
    BY <1>4, <2>1 DEF NewlyTold
  <2> HIDE DEF e
  <2> QED
    BY <1>2, <2>1, <2>2, <2>3
<1>5. CASE TurnDone
  <2> DEFINE e == Event("Done", NoCall)
  <2>1. session' = session \/ (Tell(e) /\ calls = <<>> /\ turn' = "returned")
    BY <1>5 DEF TurnDone
  <2>2. e \in SessionEvent /\ e.type = "Done"
    BY Names DEF Event, SessionType
  <2>3. Tell(e) /\ calls = <<>> /\ turn' = "returned" => NewlyTold(e)
    BY <1>5, <2>2 DEF NewlyTold
  <2> HIDE DEF e
  <2> QED
    BY <1>2, <2>1, <2>2, <2>3
<1>6. CASE TurnExecutes
  <2> DEFINE e == Event("ToolResult", Head(calls))
  <2>1. calls # <<>> /\ Tell(e)
    BY <1>6 DEF TurnExecutes, Basis, Types
  <2>2. Head(calls) \in Call
    BY <2>1, Facts, WhatIsLeft DEF Basis
  <2>3. e \in SessionEvent /\ e.type = "ToolResult" /\ e.call = Head(calls)
    BY <2>2, Names DEF Event
  <2>4. NewlyTold(e)
    BY <1>6, <2>1, <2>3 DEF NewlyTold
  <2> HIDE DEF e
  <2> QED
    BY <1>2, <2>1, <2>3, <2>4
<1>7. CASE WorkerStep \/ Request \/ Start \/ Refuse \/ UNCHANGED vars
  <2>1. session' = session
    BY <1>7 DEF WorkerStep, WorkerChunk, WorkerBuffers, WorkerFinishes, WorkerDrains, WorkerEnds,
                WorkerBreaks, WorkerRefused, Request, Start, Refuse, vars
  <2> QED
    BY <2>1
<1>8. CASE RelayToken \/ RelayToolCall \/ RelayToolResult \/ RelayDone \/ RelayError
  <2>1. session # <<>> /\ session' = Tail(session)
    BY <1>8 DEF RelayToken, RelayToolCall, RelayToolResult, RelayDone, RelayError, Hear
  <2> QED
    BY <1>1, <2>1, WhatIsLeft
<1> QED
  BY <1>3, <1>4, <1>5, <1>6, <1>7, <1>8 DEF Next, TurnStep, RelayStep

\* What chat_sse tells the client of tool calls.
NewlySent(e) ==
    /\ e.type = "TOOL_CALL_START" => /\ session # <<>> /\ Head(session).type = "ToolCall"
                                     /\ e.call = Head(session).call
    /\ e.type = "TOOL_CALL_END" => /\ RelayToolResult /\ session # <<>>
                                   /\ Head(session).type = "ToolResult" /\ pending # <<>>
                                   /\ e.call = Head(pending) /\ e.result = Head(session).call

\* Every event the client was sent is still there, and the others are new.
LEMMA WhatIsSent ==
    ASSUME Basis, [Next]_vars
    PROVE  /\ \A i \in DOMAIN sse : i \in DOMAIN sse' /\ sse'[i] = sse[i]
           /\ \A i \in DOMAIN sse' : i \in DOMAIN sse \/ NewlySent(sse'[i])
<1> DEFINE Goal == /\ \A i \in DOMAIN sse : i \in DOMAIN sse' /\ sse'[i] = sse[i]
                   /\ \A i \in DOMAIN sse' : i \in DOMAIN sse \/ NewlySent(sse'[i])
<1>1. sse \in Seq(SseEvent)
  BY Facts DEF Basis
<1>2. sse' = sse => Goal
  OBVIOUS
<1>3. ASSUME NEW T, NEW events \in Seq(T), T \subseteq SseEvent, Send(events),
             \A e \in T : NewlySent(e)
      PROVE  Goal
  <2>1. events \in Seq(SseEvent)
    <3>1. events \in [1 .. Len(events) -> T] /\ Len(events) \in Nat
      BY <1>3, LenProperties, ElementOfSeq
    <3>2. events \in [1 .. Len(events) -> SseEvent]
      BY <1>3, <3>1
    <3> HIDE DEF SseEvent
    <3> QED
      BY <3>1, <3>2, SeqDef
  <2>2. sse' = sse \o events
    BY <1>3 DEF Send
  <2>3. /\ Len(sse) \in Nat /\ DOMAIN sse = 1 .. Len(sse) /\ Len(events) \in Nat
        /\ sse' \in Seq(SseEvent) /\ Len(sse') = Len(sse) + Len(events)
        /\ \A i \in 1 .. Len(sse) + Len(events) :
                sse'[i] = IF i <= Len(sse) THEN sse[i] ELSE events[i - Len(sse)]
    BY <1>1, <2>1, <2>2, ConcatProperties, LenProperties
  <2>4. DOMAIN sse' = 1 .. Len(sse) + Len(events)
    BY <2>3, LenProperties
  <2>5. \A i \in 1 .. Len(events) : events[i] \in T
    BY <1>3, <2>3, ElementOfSeq
  <2>6. \A i \in DOMAIN sse : i \in DOMAIN sse' /\ sse'[i] = sse[i]
    BY <2>3, <2>4
  <2>7. ASSUME NEW i \in DOMAIN sse', i \notin DOMAIN sse PROVE sse'[i] \in T
    <3>1. i - Len(sse) \in 1 .. Len(events) /\ ~ (i <= Len(sse))
      BY <2>3, <2>4, <2>7
    <3> QED
      BY <2>3, <2>4, <2>5, <2>7, <3>1
  <2> QED
    BY <1>3, <2>6, <2>7
<1>4. \A type \in SseType : type \notin {"TOOL_CALL_START", "TOOL_CALL_END"} =>
            NewlySent(Plain(type)) /\ Plain(type) \in SseEvent
  BY Names DEF NewlySent, Plain, Sse
<1> HIDE DEF Goal
<1>5. CASE Start \/ Refuse \/ RelayToken \/ RelayDone \/ RelayError
  <2> DEFINE T == {Plain(type) : type \in SseType \ {"TOOL_CALL_START", "TOOL_CALL_END"}}
  <2>1. /\ Plain("RUN_STARTED") \in T /\ Plain("RUN_ERROR") \in T /\ Plain("RUN_FINISHED") \in T
        /\ Plain("TEXT_MESSAGE_START") \in T /\ Plain("TEXT_MESSAGE_CONTENT") \in T
        /\ Plain("TEXT_MESSAGE_END") \in T
    BY DEF SseType
  <2>2. T \subseteq SseEvent /\ \A e \in T : NewlySent(e)
    BY <1>4
  <2> HIDE DEF T, Plain
  <2>3. PICK events : Send(events) /\ events \in
            {<<Plain("RUN_STARTED")>>, <<Plain("RUN_ERROR")>>, Closing \o <<Plain("RUN_FINISHED")>>,
             Closing \o <<Plain("RUN_ERROR")>>,
             (IF inMessage THEN <<>> ELSE <<Plain("TEXT_MESSAGE_START")>>)
                \o <<Plain("TEXT_MESSAGE_CONTENT")>>}
    BY <1>5 DEF Start, Refuse, RelayToken, RelayDone, RelayError
  <2>4. Closing \in Seq(T) /\ <<>> \in Seq(T)
    BY <2>1 DEF Closing
  <2>5. <<Plain("RUN_STARTED")>> \in Seq(T) /\ <<Plain("RUN_ERROR")>> \in Seq(T)
        /\ <<Plain("RUN_FINISHED")>> \in Seq(T) /\ <<Plain("TEXT_MESSAGE_START")>> \in Seq(T)
        /\ <<Plain("TEXT_MESSAGE_CONTENT")>> \in Seq(T)
    BY <2>1
  <2>6. \A q, r \in Seq(T) : q \o r \in Seq(T)
    BY ConcatProperties
  <2>7. (IF inMessage THEN <<>> ELSE <<Plain("TEXT_MESSAGE_START")>>) \in Seq(T)
    BY <2>4, <2>5
  <2>8. events \in Seq(T)
    BY <2>3, <2>4, <2>5, <2>6, <2>7
  <2> QED
    BY <1>3, <2>2, <2>3, <2>8 DEF Goal
<1>6. CASE RelayToolCall
  <2> DEFINE c == Head(session).call
             a == Plain("TEXT_MESSAGE_END")
             b == Sse("TOOL_CALL_START", c, NoCall)
             d == Sse("TOOL_CALL_ARGS", c, NoCall)
             T == {a, b, d}
  <2>1. session # <<>> /\ Head(session).type = "ToolCall" /\ Send(Closing \o <<b, d>>)
    BY <1>6 DEF RelayToolCall, Hear
  <2>2. c \in Call
    <3>1. 1 \in DOMAIN session /\ Head(session) = session[1]
      BY <2>1, Facts, WhatIsLeft DEF Basis
    <3> QED
      BY <2>1, <3>1, Facts DEF Basis
  <2>3. a \in SseEvent /\ b \in SseEvent /\ d \in SseEvent
    BY <2>2, Names DEF SseType
  <2>4. NewlySent(a) /\ NewlySent(b) /\ NewlySent(d)
    BY <2>1 DEF NewlySent, Plain, Sse
  <2>5. Closing = <<>> \/ Closing = <<a>>
    BY DEF Closing
  <2> HIDE DEF a, b, c, d
  <2>6. <<>> \in Seq(T) /\ <<a>> \in Seq(T) /\ <<b, d>> \in Seq(T)
    OBVIOUS
  <2>7. Closing \o <<b, d>> \in Seq(T)
    BY <2>5, <2>6, ConcatProperties
  <2>8. T \subseteq SseEvent /\ \A e \in T : NewlySent(e)
    BY <2>3, <2>4
  <2> HIDE DEF T
  <2> QED
    BY <1>3, <2>1, <2>7, <2>8 DEF Goal
<1>7. CASE RelayToolResult
  <2> DEFINE b == Sse("TOOL_CALL_END", Oldest, Head(session).call)
             T == {b}
  <2>1. CASE pending = <<>>
    BY <1>2, <1>7, <2>1 DEF RelayToolResult, Goal
  <2>2. CASE pending # <<>>
    <3>1. session # <<>> /\ Head(session).type = "ToolResult" /\ Send(<<b>>)
      BY <1>7, <2>2 DEF RelayToolResult, Hear
    <3>2. Oldest \in Call
      BY <2>2, Facts, WhatIsLeft DEF Basis, Oldest
    <3>3. Head(session).call \in Call
      <4>1. 1 \in DOMAIN session /\ Head(session) = session[1]
        BY <3>1, Facts, WhatIsLeft DEF Basis
      <4> QED
        BY <3>1, <4>1, Facts DEF Basis
    <3>4. b \in SseEvent
      BY <3>2, <3>3, Names DEF SseType
    <3>5. NewlySent(b)
      BY <1>7, <2>2, <3>1 DEF NewlySent, Sse, Oldest
    <3> HIDE DEF b
    <3>6. <<b>> \in Seq(T) /\ T \subseteq SseEvent /\ \A e \in T : NewlySent(e)
      BY <3>4, <3>5
    <3> HIDE DEF T
    <3> QED
      BY <1>3, <3>1, <3>6 DEF Goal
  <2> QED
    BY <2>1, <2>2
<1>8. CASE WorkerStep \/ TurnStep \/ UNCHANGED vars
  <2>1. sse' = sse
    BY <1>8 DEF WorkerStep, WorkerChunk, WorkerBuffers, WorkerFinishes, WorkerDrains, WorkerEnds,
                WorkerBreaks, WorkerRefused, TurnStep, Request, TurnChunk, TurnToolCall, TurnDone,
                TurnError, TurnExecutes, relayVars, vars
  <2> QED
    BY <1>2, <2>1 DEF Goal
<1> QED
  BY <1>5, <1>6, <1>7, <1>8 DEF Next, RelayStep, Goal

-----------------------------------------------------------------------------
(* Every call has its result, or waits for it *)

HasResult(c) == \E j \in DOMAIN messages : messages[j] = Message("tool", c)
Waits(c) == \E k \in DOMAIN calls : calls[k] = c

\* A call that was announced is not from a later request; if its answer came to its
\* end, or may yet, it was run or will be.
Accounted(c) ==
    /\ c[1] <= round
    /\ (c[1] \in whole \/ c[1] = round) => HasResult(c) \/ Waits(c)

AllAccounted ==
    /\ \A i \in DOMAIN session : session[i].type = "ToolCall" => Accounted(session[i].call)
    /\ \A i \in Sent("TOOL_CALL_START") : Accounted(sse[i].call)

\* A result stays in the conversation, once there is one.
LEMMA ResultsStay ==
    ASSUME Basis, [Next]_vars, messages # <<>>
    PROVE  /\ \A i \in DOMAIN messages : i \in DOMAIN messages' /\ messages'[i] = messages[i]
           /\ messages' = messages \/ TurnDone \/ TurnExecutes
           /\ Len(messages) <= Len(messages')
<1>1. messages \in Seq(Turn) /\ Len(messages) \in Nat
  BY Facts DEF Basis
<1>2. ASSUME NEW m \in Turn, messages' = Append(messages, m)
      PROVE  /\ \A i \in DOMAIN messages : i \in DOMAIN messages' /\ messages'[i] = messages[i]
             /\ Len(messages) <= Len(messages')
  BY <1>1, <1>2, WhatIsAdded
<1>3. CASE TurnDone
  <2>1. messages' = Append(messages, Message("assistant", NoCall))
    BY <1>3 DEF TurnDone
  <2>2. Message("assistant", NoCall) \in Turn
    BY Names DEF Role
  <2> QED
    BY <1>2, <1>3, <2>1, <2>2
<1>4. CASE TurnExecutes
  <2>1. messages' = Append(messages, Message("tool", Head(calls))) /\ calls # <<>>
    BY <1>4 DEF TurnExecutes, Basis, Types
  <2>2. Message("tool", Head(calls)) \in Turn
    BY <2>1, Facts, WhatIsLeft, Names DEF Basis
  <2> QED
    BY <1>2, <1>4, <2>1, <2>2
<1>5. ASSUME ~ TurnDone, ~ TurnExecutes PROVE messages' = messages
  BY <1>5 DEF Basis, AtTheStart, Next, WorkerStep, TurnStep, RelayStep, WorkerChunk, WorkerBuffers,
              WorkerFinishes, WorkerDrains, WorkerEnds, WorkerBreaks, WorkerRefused, Request,
              TurnChunk, TurnToolCall, TurnError, Start, Refuse, RelayToken, RelayToolCall,
              RelayToolResult, RelayDone, RelayError, turnVars, vars
<1> QED
  BY <1>1, <1>3, <1>4, <1>5

\* A call is not forgotten.
LEMMA StaysAccounted ==
    ASSUME Basis, [Next]_vars, NEW c \in Call, Accounted(c)
    PROVE  Accounted(c)'
<1>1. /\ calls \in Seq(Call) /\ messages \in Seq(Turn) /\ round \in Nat /\ whole \subseteq Nat
      /\ Len(messages) \in Nat /\ DOMAIN messages = 1 .. Len(messages)
      /\ Len(calls) \in Nat /\ DOMAIN calls = 1 .. Len(calls) /\ c[1] \in Nat
      /\ \A n \in whole : n <= round
  BY Facts, Names DEF Basis, Stages
<1>2. HasResult(c) => HasResult(c)'
  <2>1. CASE messages = <<>>
    <3>1. DOMAIN messages = {}
      BY <2>1
    <3> QED
      BY <3>1 DEF HasResult
  <2>2. CASE messages # <<>>
    BY <2>2, ResultsStay DEF HasResult
  <2> QED
    BY <2>1, <2>2
<1>3. CASE Request
  <2>1. /\ calls' = <<>> /\ round' = round + 1 /\ whole' = whole
        /\ turn = "requesting" \/ (turn = "receiving" /\ stream = <<>>)
    BY <1>3 DEF Request, FreshCalls
  <2>2. c[1] \in whole => HasResult(c)
    <3>1. Waits(c) => calls # <<>> /\ c[1] = round
      <4>1. calls = <<>> => DOMAIN calls = {}
        OBVIOUS
      <4> QED
        BY <4>1 DEF Basis, OfTheRound, Waits
    <3>2. round \in whole => calls = <<>>
      BY <2>1 DEF Basis, Stages, Idle
    <3> QED
      BY <3>1, <3>2 DEF Accounted
  <2>3. c[1] # round' /\ c[1] <= round'
    BY <1>1, <2>1 DEF Accounted
  <2> QED
    BY <1>2, <2>1, <2>2, <2>3 DEF Accounted
<1>4. CASE WorkerStep
  <2>1. UNCHANGED <<calls, messages, round>> /\ (whole' = whole \/ whole' = whole \union {round})
    BY <1>4 DEF WorkerStep, WorkerChunk, WorkerBuffers, WorkerFinishes, WorkerDrains, WorkerEnds,
                WorkerBreaks, WorkerRefused, turnVars
  <2> QED
    BY <2>1 DEF Accounted, HasResult, Waits
<1>5. CASE TurnChunk \/ TurnDone \/ TurnError
  <2>1. UNCHANGED <<calls, round, whole>>
    BY <1>5 DEF TurnChunk, TurnDone, TurnError, turnVars, workerVars
  <2> QED
    BY <1>2, <2>1 DEF Accounted, Waits
<1>6. CASE TurnToolCall
  <2> DEFINE d == Head(stream).call
  <2>1. Take("ToolCall") /\ calls' = Append(calls, d) /\ UNCHANGED <<round, whole>>
    BY <1>6 DEF TurnToolCall, workerVars
  <2>2. d \in Call
    <3>1. stream # <<>> /\ Head(stream).type = "ToolCall"
      BY <2>1 DEF Take
    <3>2. 1 \in DOMAIN stream /\ Head(stream) = stream[1]
      BY <3>1, Facts, WhatIsLeft DEF Basis
    <3> QED
      BY <3>1, <3>2, Facts DEF Basis
  <2> HIDE DEF d
  <2>3. \A i \in DOMAIN calls : i \in DOMAIN calls' /\ calls'[i] = calls[i]
    BY <1>1, <2>1, <2>2, WhatIsAdded
  <2>4. Waits(c) => Waits(c)'
    BY <2>3 DEF Waits
  <2> QED
    BY <1>2, <2>1, <2>4 DEF Accounted
<1>7. CASE TurnExecutes
  <2> DEFINE d == Head(calls)
             m == Message("tool", d)
  <2>1. calls # <<>> /\ calls' = Tail(calls) /\ UNCHANGED <<round, whole>>
        /\ messages' = Append(messages, m)
    BY <1>7 DEF TurnExecutes, workerVars, Basis, Types
  <2>2. d \in Call /\ d = calls[1]
    BY <1>1, <2>1, WhatIsLeft
  <2>3. m \in Turn
    BY <2>2, Names
  <2>4. Len(messages) + 1 \in DOMAIN messages' /\ messages'[Len(messages) + 1] = m
    <3> HIDE DEF m
    <3> QED
      BY <1>1, <2>1, <2>3, WhatIsAdded
  <2>5. c = d => HasResult(c)'
    BY <2>4 DEF HasResult
  <2>6. Waits(c) /\ c # d => Waits(c)'
    <3>1. SUFFICES ASSUME NEW k \in DOMAIN calls, calls[k] = c, c # d PROVE Waits(c)'
      BY DEF Waits
    <3>2. /\ DOMAIN calls' = 1 .. (Len(calls) - 1)
          /\ \A i \in DOMAIN calls' : calls'[i] = calls[i + 1]
      BY <1>1, <2>1, WhatIsLeft
    <3>3. k \in 2 .. Len(calls)
      BY <1>1, <2>2, <3>1
    <3>4. k - 1 \in DOMAIN calls' /\ (k - 1) + 1 = k
      BY <1>1, <3>2, <3>3
    <3>5. calls'[k - 1] = c
      BY <3>1, <3>2, <3>4
    <3> QED
      BY <3>4, <3>5 DEF Waits
  <2> QED
    BY <1>2, <2>1, <2>5, <2>6 DEF Accounted
<1>8. CASE RelayStep \/ UNCHANGED vars
  <2>1. UNCHANGED <<calls, round, whole>>
    BY <1>8 DEF RelayStep, Start, Refuse, RelayToken, RelayToolCall, RelayToolResult, RelayDone,
                 RelayError, turnVars, vars, workerVars
  <2> QED
    BY <1>2, <2>1 DEF Accounted, Waits
<1> QED
  BY <1>3, <1>4, <1>5, <1>6, <1>7, <1>8 DEF Next, TurnStep

\* The calls the client was told of are calls.
CallsAreCalls == \A i \in Sent("TOOL_CALL_START") : sse[i].call \in Call

\* None of them is forgotten.
LEMMA AccountedStep ==
    Basis /\ CallsAreCalls /\ AllAccounted /\ [Next]_vars => CallsAreCalls' /\ AllAccounted'
<1> SUFFICES ASSUME Basis, CallsAreCalls, AllAccounted, [Next]_vars
             PROVE  CallsAreCalls' /\ AllAccounted'
  OBVIOUS
<1>1. ASSUME session # <<>>, Head(session).type = "ToolCall"
      PROVE  Head(session).call \in Call /\ Accounted(Head(session).call)
  <2>1. 1 \in DOMAIN session /\ Head(session) = session[1]
    BY <1>1, Facts, WhatIsLeft DEF Basis
  <2> QED
    BY <1>1, <2>1, Facts DEF Basis, AllAccounted
<1>2. ASSUME NEW i \in Sent("TOOL_CALL_START")'
      PROVE  sse'[i].call \in Call /\ Accounted(sse'[i].call)
  <2>1. i \in DOMAIN sse' /\ sse'[i].type = "TOOL_CALL_START"
    BY <1>2 DEF Sent
  <2>2. CASE i \in DOMAIN sse
    BY <2>1, <2>2, WhatIsSent DEF CallsAreCalls, AllAccounted, Sent
  <2>3. CASE NewlySent(sse'[i])
    BY <1>1, <2>1, <2>3 DEF NewlySent
  <2> QED
    BY <2>1, <2>2, <2>3, WhatIsSent
<1>3. CallsAreCalls'
  BY <1>2 DEF CallsAreCalls
<1> DEFINE Later(d) == /\ d[1] <= round'
                       /\ (d[1] \in whole' \/ d[1] = round') =>
                            \/ \E j \in DOMAIN messages' : messages'[j] = Message("tool", d)
                            \/ \E k \in DOMAIN calls' : calls'[k] = d
<1>4. \A d \in Call : Accounted(d) => Later(d)
  BY StaysAccounted DEF Accounted, HasResult, Waits
<1>5. /\ (\A i \in DOMAIN session' : session'[i].type = "ToolCall" => Later(session'[i].call))
      /\ (\A i \in Sent("TOOL_CALL_START")' : Later(sse'[i].call))
      => AllAccounted'
  BY DEF AllAccounted, Accounted, HasResult, Waits
<1> HIDE DEF Later
<1>6. \A i \in Sent("TOOL_CALL_START")' : Later(sse'[i].call)
  BY <1>2, <1>4
<1>7. ASSUME NEW i \in DOMAIN session', session'[i].type = "ToolCall" PROVE Later(session'[i].call)
  <2>1. CASE \E j \in DOMAIN session : session'[i] = session[j]
    BY <1>4, <1>7, <2>1, Facts DEF Basis, AllAccounted
  <2>2. CASE NewlyTold(session'[i])
    <3> DEFINE c == Head(stream).call
    <3>1. TurnToolCall /\ stream # <<>> /\ Head(stream).type = "ToolCall" /\ session'[i].call = c
      BY <1>7, <2>2 DEF NewlyTold
    <3>2. 1 \in DOMAIN stream /\ Head(stream) = stream[1]
      BY <3>1, Facts, WhatIsLeft DEF Basis
    <3>3. c \in Call /\ c[1] = round /\ round \in Nat /\ calls \in Seq(Call)
      BY <3>1, <3>2, Facts DEF Basis, OfTheRound, InOrder
    <3>4. calls' = Append(calls, c) /\ round' = round
      BY <3>1 DEF TurnToolCall, workerVars
    <3> HIDE DEF c
    <3>5. Len(calls) + 1 \in DOMAIN calls' /\ calls'[Len(calls) + 1] = c
      BY <3>3, <3>4, WhatIsAdded
    <3>6. Later(c)
      BY <3>3, <3>4, <3>5 DEF Later
    <3> QED
      BY <3>1, <3>6
  <2> QED
    BY <2>1, <2>2, WhatIsTold
<1> QED
  BY <1>3, <1>5, <1>6, <1>7

\* NothingUnanswered: when the model is asked again, it gets the result of every
\* call it has made in an answer that came to its end.
THEOREM NothingUnansweredHolds == Spec => []NothingUnanswered
<1>1. Init => Basis /\ CallsAreCalls /\ AllAccounted
  <2> SUFFICES ASSUME Init PROVE Basis /\ CallsAreCalls /\ AllAccounted
    OBVIOUS
  <2>1. session = <<>> /\ sse = <<>>
    BY DEF Init
  <2>2. DOMAIN session = {} /\ DOMAIN sse = {}
    BY <2>1
  <2> QED
    BY <2>1, <2>2, BasisInit DEF AllAccounted, CallsAreCalls, Sent
<1>2. Basis /\ CallsAreCalls /\ AllAccounted /\ [Next]_vars => (Basis /\ CallsAreCalls /\ AllAccounted)'
  BY BasisStep, AccountedStep
<1>3. Basis /\ CallsAreCalls /\ AllAccounted => NothingUnanswered
  <2> SUFFICES ASSUME Basis, AllAccounted, turn = "receiving", worker = "open",
                      NEW i \in Sent("TOOL_CALL_START"), sse[i].call[1] \in whole
               PROVE  \E j \in DOMAIN messages : messages[j] = Message("tool", sse[i].call)
    BY DEF NothingUnanswered
  <2>1. round \notin whole /\ \A k \in DOMAIN calls : calls[k][1] = round
    BY DEF Basis, Stages, OfTheRound
  <2>2. ~ Waits(sse[i].call)
    BY <2>1 DEF Waits
  <2> QED
    BY <2>2 DEF AllAccounted, Accounted, HasResult
<1> QED
  BY <1>1, <1>2, <1>3, PTL DEF Spec

-----------------------------------------------------------------------------
(* What is saved *)

\* The conversation goes on from the one that was loaded, and has every result that
\* was told of; when run_turn has said that it is done, the model has the last word.
Begun == relay = "relaying" => /\ messages # <<>>
                               /\ isUuid /\ saved # Unreadable =>
                                    /\ Len(saved) <= Len(messages)
                                    /\ \A i \in DOMAIN saved : messages[i] = saved[i]

LastWord == turn = "returned" /\ messages # <<>> /\ messages[Len(messages)].role = "assistant"

Kept ==
    /\ Begun
    /\ \A i \in DOMAIN session : /\ session[i].type = "Done" => LastWord
                                 /\ session[i].type = "ToolResult" => HasResult(session[i].call)
    /\ \A i \in Sent("TOOL_CALL_END") : HasResult(sse[i].result)

\* A sequence that is saved.
LEMMA WhatIsSaved == Basis /\ relay # "ended" /\ saved # Unreadable => saved \in Seq(Turn)
<1>1. Basis => saved \in Messages \union {Unreadable}
  BY DEF Basis, Types, TypeOK
<1> QED
  BY <1>1 DEF Messages, Turn

\* The turn begins with it.
LEMMA BegunStep == Basis /\ Begun /\ [Next]_vars => Begun'
<1> SUFFICES ASSUME Basis, Begun, [Next]_vars, relay' = "relaying"
             PROVE  /\ messages' # <<>>
                    /\ isUuid' /\ saved' # Unreadable =>
                                              /\ Len(saved') <= Len(messages')
                                              /\ \A i \in DOMAIN saved' : messages'[i] = saved'[i]
  BY DEF Begun
<1>1. CASE Start
  <2> DEFINE s == Loaded
             m == Message("user", NoCall)
  <2>1. messages' = Append(s, m) /\ saved' = saved /\ isUuid' = isUuid /\ relay # "ended"
    BY <1>1 DEF Start, Conversation
  <2>2. s \in Seq(Turn)
    BY <2>1, WhatIsSaved, EmptySeq DEF Loaded
  <2>3. m \in Turn
    BY Names DEF Role
  <2>4. isUuid /\ saved # Unreadable => s = saved
    BY DEF Loaded
  <2> HIDE DEF s, m
  <2>5. /\ messages' \in Seq(Turn) /\ Len(s) \in Nat /\ Len(messages') = Len(s) + 1
        /\ \A i \in DOMAIN s : messages'[i] = s[i]
    BY <2>1, <2>2, <2>3, WhatIsAdded
  <2>6. messages' # <<>>
    BY <2>5, EmptySeq
  <2> QED
    BY <2>1, <2>4, <2>5, <2>6
<1>2. CASE ~ Start
  <2>1. relay = "relaying" /\ saved' = saved /\ isUuid' = isUuid
    BY <1>2 DEF Next, WorkerStep, TurnStep, RelayStep, WorkerChunk, WorkerBuffers, WorkerFinishes,
                WorkerDrains, WorkerEnds, WorkerBreaks, WorkerRefused, Request, TurnChunk,
                TurnToolCall, TurnDone, TurnError, TurnExecutes, Refuse, RelayToken, RelayToolCall,
                RelayToolResult, RelayDone, RelayError, relayVars, vars
  <2>2. /\ \A i \in DOMAIN messages : i \in DOMAIN messages' /\ messages'[i] = messages[i]
        /\ Len(messages) <= Len(messages') /\ messages # <<>>
    BY <2>1, ResultsStay DEF Begun
  <2>3. messages' \in Seq(Turn) /\ Len(messages) \in Nat /\ Len(messages') \in Nat
        /\ Len(messages) # 0 /\ DOMAIN messages = 1 .. Len(messages)
    <3>1. Types' /\ messages \in Seq(Turn)
      BY TypesStep, Facts DEF Basis
    <3>2. messages' \in Seq(Turn)
      BY <3>1 DEF Types, TypeOK, Messages, Turn
    <3> QED
      BY <2>2, <3>1, <3>2, LenProperties, EmptySeq
  <2>4. messages' # <<>>
    BY <2>2, <2>3, EmptySeq
  <2>5. ASSUME isUuid, saved # Unreadable
        PROVE  /\ Len(saved) <= Len(messages')
               /\ \A i \in DOMAIN saved : messages'[i] = saved[i]
    <3>1. saved \in Seq(Turn) /\ Len(saved) \in Nat /\ DOMAIN saved = 1 .. Len(saved)
      BY <2>1, <2>5, WhatIsSaved, LenProperties
    <3>2. Len(saved) <= Len(messages) /\ \A i \in DOMAIN saved : messages[i] = saved[i]
      BY <2>1, <2>5 DEF Begun
    <3>3. \A i \in DOMAIN saved : i \in DOMAIN messages
      BY <2>3, <3>1, <3>2
    <3> QED
      BY <2>2, <2>3, <3>1, <3>2, <3>3
  <2> QED
    BY <2>1, <2>4, <2>5
<1> QED
  BY <1>1, <1>2

\* It keeps what it was told of.
LEMMA KeptStep == Basis /\ Kept /\ [Next]_vars => Kept'
<1> SUFFICES ASSUME Basis, Kept, [Next]_vars PROVE Kept'
  OBVIOUS
<1>1. Begun'
  BY BegunStep DEF Kept
<1> DEFINE Later(d) == \E j \in DOMAIN messages' : messages'[j] = Message("tool", d)
<1>2. /\ Begun'
      /\ \A i \in DOMAIN session' : session'[i].type = "Done" => LastWord'
      /\ \A i \in DOMAIN session' : session'[i].type = "ToolResult" => Later(session'[i].call)
      /\ \A i \in Sent("TOOL_CALL_END")' : Later(sse'[i].result)
      => Kept'
  BY DEF Kept, HasResult
<1>3. ASSUME NEW d, HasResult(d) PROVE Later(d)
  <2>1. messages = <<>> => DOMAIN messages = {}
    OBVIOUS
  <2> QED
    BY <1>3, <2>1, ResultsStay DEF HasResult
<1>4. LastWord => LastWord'
  <2>1. turn = "returned" => UNCHANGED <<turn, messages>>
    BY DEF Basis, Stages, AtTheStart, Next, WorkerStep, TurnStep, RelayStep, WorkerChunk,
           WorkerBuffers, WorkerFinishes, WorkerDrains, WorkerEnds, WorkerBreaks, WorkerRefused,
           Request, TurnChunk, TurnToolCall, TurnDone, TurnError, TurnExecutes, Start, Refuse,
           RelayToken, RelayToolCall, RelayToolResult, RelayDone, RelayError, Take, turnVars, vars
  <2> QED
    BY <2>1 DEF LastWord
<1> HIDE DEF Later
<1>5. ASSUME NEW i \in DOMAIN session' PROVE session'[i].type = "Done" => LastWord'
  <2>1. CASE \E j \in DOMAIN session : session'[i] = session[j]
    BY <1>4, <2>1 DEF Kept
  <2>2. CASE NewlyTold(session'[i]) /\ session'[i].type = "Done"
    <3> DEFINE m == Message("assistant", NoCall)
    <3>1. turn' = "returned" /\ messages' = Append(messages, m)
      BY <2>2 DEF NewlyTold, TurnDone
    <3>2. m \in Turn /\ m.role = "assistant" /\ messages \in Seq(Turn)
      BY Names, Facts DEF Message, Role, Basis
    <3> HIDE DEF m
    <3>3. messages' \in Seq(Turn) /\ Len(messages) \in Nat
          /\ Len(messages') = Len(messages) + 1 /\ messages'[Len(messages) + 1] = m
      BY <3>1, <3>2, WhatIsAdded
    <3>4. messages' # <<>>
      BY <3>3, EmptySeq
    <3> QED
      BY <3>1, <3>2, <3>3, <3>4 DEF LastWord
  <2> QED
    BY <2>1, <2>2, WhatIsTold
<1>6. ASSUME NEW i \in DOMAIN session', session'[i].type = "ToolResult" PROVE Later(session'[i].call)
  <2>1. CASE \E j \in DOMAIN session : session'[i] = session[j]
    BY <1>3, <1>6, <2>1 DEF Kept
  <2>2. CASE NewlyTold(session'[i])
    <3> DEFINE c == Head(calls)
               m == Message("tool", c)
    <3>1. TurnExecutes /\ calls # <<>> /\ session'[i].call = c
      BY <1>6, <2>2 DEF NewlyTold
    <3>2. messages' = Append(messages, m)
      BY <3>1 DEF TurnExecutes
    <3>3. m \in Turn /\ messages \in Seq(Turn)
      BY <3>1, Facts, WhatIsLeft, Names DEF Basis
    <3>4. Len(messages) + 1 \in DOMAIN messages' /\ messages'[Len(messages) + 1] = m
      <4> HIDE DEF m
      <4> QED
        BY <3>2, <3>3, WhatIsAdded
    <3> QED
      BY <3>1, <3>4 DEF Later
  <2> QED
    BY <2>1, <2>2, WhatIsTold
<1>7. ASSUME NEW i \in Sent("TOOL_CALL_END")' PROVE Later(sse'[i].result)
  <2>1. i \in DOMAIN sse' /\ sse'[i].type = "TOOL_CALL_END"
    BY <1>7 DEF Sent
  <2>2. CASE i \in DOMAIN sse
    BY <1>3, <2>1, <2>2, WhatIsSent DEF Kept, Sent
  <2>3. CASE NewlySent(sse'[i])
    <3>1. session # <<>> /\ Head(session).type = "ToolResult" /\ sse'[i].result = Head(session).call
      BY <2>1, <2>3 DEF NewlySent
    <3>2. 1 \in DOMAIN session /\ Head(session) = session[1]
      BY <3>1, Facts, WhatIsLeft DEF Basis
    <3> QED
      BY <1>3, <3>1, <3>2 DEF Kept
  <2> QED
    BY <2>1, <2>2, <2>3, WhatIsSent
<1> QED
  BY <1>1, <1>2, <1>5, <1>6, <1>7

\* SavedIsWhole: a session file that was written whole has all results the client was
\* shown and the model's last word, and keeps the conversation that was there, if the
\* thread id is a UUID, so that it was loaded.
THEOREM SavedIsWholeHolds == Spec => SavedIsWhole
<1>1. Init => Basis /\ Kept
  <2> SUFFICES ASSUME Init PROVE Basis /\ Kept
    OBVIOUS
  <2>1. session = <<>> /\ sse = <<>> /\ relay = "starting"
    BY DEF Init
  <2>2. DOMAIN session = {} /\ DOMAIN sse = {}
    BY <2>1
  <2> QED
    BY <2>1, <2>2, BasisInit DEF Kept, Begun, Sent
<1>2. Basis /\ Kept /\ [Next]_vars => (Basis /\ Kept)'
  BY BasisStep, KeptStep
<1> DEFINE Whole == saved' # saved /\ saved' # Unreadable =>
        /\ isUuid => IsPrefix(saved, saved')
        /\ Last(saved').role = "assistant"
        /\ \A i \in Sent("TOOL_CALL_END") :
            \E j \in DOMAIN saved' : saved'[j] = Message("tool", sse[i].result)
<1>3. Basis /\ Kept /\ [Next]_vars => [Whole]_vars
  <2> SUFFICES ASSUME Basis, Kept, [Next]_vars, saved' # saved, saved' # Unreadable PROVE Whole
    OBVIOUS
  <2>1. RelayDone
    BY DEF Next, WorkerStep, TurnStep, RelayStep, WorkerChunk, WorkerBuffers, WorkerFinishes,
           WorkerDrains, WorkerEnds, WorkerBreaks, WorkerRefused, Request, TurnChunk,
           TurnToolCall, TurnDone, TurnError, TurnExecutes, Start, Refuse, RelayToken,
           RelayToolCall, RelayToolResult, RelayError, relayVars, vars
  <2>2. /\ saved' = messages /\ saved # Unreadable /\ relay = "relaying"
        /\ session # <<>> /\ Head(session).type = "Done"
    BY <2>1 DEF RelayDone, Save, Outcome, Hear
  <2>3. 1 \in DOMAIN session /\ Head(session) = session[1]
    BY <2>2, Facts, WhatIsLeft DEF Basis
  <2>4. LastWord
    BY <2>2, <2>3 DEF Kept
  <2>5. isUuid => IsPrefix(saved, messages)
    <3> SUFFICES ASSUME isUuid PROVE IsPrefix(saved, messages)
      OBVIOUS
    <3>1. /\ saved \in Seq(Turn) /\ messages \in Seq(Turn)
          /\ Len(saved) \in Nat /\ DOMAIN saved = 1 .. Len(saved) /\ Len(messages) \in Nat
      BY <2>2, WhatIsSaved, Facts, LenProperties DEF Basis
    <3>2. Len(saved) <= Len(messages) /\ \A i \in DOMAIN saved : messages[i] = saved[i]
      BY <2>2 DEF Kept, Begun
    <3>3. /\ SubSeq(saved, 1, Len(saved)) = [i \in 1 .. Len(saved) |-> saved[i]]
          /\ SubSeq(messages, 1, Len(saved)) = [i \in 1 .. Len(saved) |-> messages[i]]
      BY <3>1, <3>2
    <3> QED
      BY <3>1, <3>2, <3>3 DEF IsPrefix
  <2>6. Last(messages).role = "assistant"
    BY <2>4 DEF LastWord, Last
  <2>7. \A i \in Sent("TOOL_CALL_END") :
            \E j \in DOMAIN messages : messages[j] = Message("tool", sse[i].result)
    BY DEF Kept, HasResult
  <2> QED
    BY <2>2, <2>5, <2>6, <2>7
<1> QED
  BY <1>1, <1>2, <1>3, PTL DEF Spec, SavedIsWhole

-----------------------------------------------------------------------------
(* What the client can follow *)

\* EventsAreBracketed, for any events.
Final == {"RUN_FINISHED", "RUN_ERROR"}

\* A message has been started before event i of s and not ended.
Within(s, i) ==
    \E k \in 1 .. (i - 1) :
        /\ s[k].type = "TEXT_MESSAGE_START"
        /\ \A m \in (k + 1) .. (i - 1) : s[m].type # "TEXT_MESSAGE_END"

Legal(s, i) ==
    /\ s[i].type \in {"TEXT_MESSAGE_CONTENT", "TEXT_MESSAGE_END"} => Within(s, i)
    /\ s[i].type \in {"TEXT_MESSAGE_START", "TOOL_CALL_START", "TOOL_CALL_ARGS"} \union Final
            => ~ Within(s, i)
    /\ s[i].type \in Final => i = Len(s)
    /\ s[i].type = "TOOL_CALL_END" =>
        \E k \in 1 .. (i - 1) : s[k].type = "TOOL_CALL_START" /\ s[k].call = s[i].call

Bracketed(s) == \A i \in DOMAIN s : Legal(s, i)

\* More may follow: no message is open, or one is.
Unfinished(s) == Bracketed(s) /\ \A i \in DOMAIN s : s[i].type \notin Final
Closed(s) == Unfinished(s) /\ ~ Within(s, Len(s) + 1)
Open(s) == Unfinished(s) /\ Within(s, Len(s) + 1)

\* The tool call that an event is about has been started.
Started(s, e) == \E k \in DOMAIN s : s[k].type = "TOOL_CALL_START" /\ s[k].call = e.call

\* Whether a message is open before an event does not depend on it, or on what follows.
LEMMA WithinSoFar ==
    ASSUME NEW s \in Seq(SseEvent), NEW e \in SseEvent
    PROVE  /\ \A i \in 1 .. (Len(s) + 1) : Within(Append(s, e), i) <=> Within(s, i)
           /\ e.type = "TEXT_MESSAGE_START" => Within(Append(s, e), Len(s) + 2)
           /\ e.type = "TEXT_MESSAGE_END" => ~ Within(Append(s, e), Len(s) + 2)
           /\ e.type \notin {"TEXT_MESSAGE_START", "TEXT_MESSAGE_END"} =>
                (Within(Append(s, e), Len(s) + 2) <=> Within(s, Len(s) + 1))
<1> DEFINE t == Append(s, e)
           last == Len(s) + 1
<1>1. /\ Len(s) \in Nat /\ last \in Nat /\ last >= 1 /\ DOMAIN s = 1 .. Len(s)
      /\ \A i \in 1 .. Len(s) : t[i] = s[i]
      /\ t[last] = e
  BY WhatIsAdded
<1>2. last = Len(s) + 1 /\ last - 1 = Len(s) /\ (Len(s) + 2) - 1 = last
  BY <1>1
<1> HIDE DEF t, last
<1>3. ASSUME NEW i \in 1 .. last PROVE Within(t, i) <=> Within(s, i)
  <2>1. \A k \in 1 .. (i - 1) : k \in 1 .. Len(s) /\ t[k] = s[k]
    BY <1>1, <1>2
  <2>2. \A k \in 1 .. (i - 1) : \A m \in (k + 1) .. (i - 1) : t[m] = s[m]
    BY <1>1, <2>1
  <2> QED
    BY <2>1, <2>2 DEF Within
<1>4. ASSUME e.type = "TEXT_MESSAGE_START" PROVE Within(t, Len(s) + 2)
  <2>1. last \in 1 .. last /\ (last + 1) .. last = {}
    BY <1>1
  <2> QED
    BY <1>1, <1>2, <1>4, <2>1 DEF Within
<1>5. ASSUME e.type = "TEXT_MESSAGE_END" PROVE ~ Within(t, Len(s) + 2)
  <2> SUFFICES ASSUME NEW k \in 1 .. last, t[k].type = "TEXT_MESSAGE_START",
                      \A m \in (k + 1) .. last : t[m].type # "TEXT_MESSAGE_END"
               PROVE  FALSE
    BY <1>2 DEF Within
  <2>1. k = last \/ last \in (k + 1) .. last
    BY <1>1
  <2> QED
    BY <1>1, <1>5, <2>1
<1>6. ASSUME e.type \notin {"TEXT_MESSAGE_START", "TEXT_MESSAGE_END"}
      PROVE  Within(t, Len(s) + 2) <=> Within(s, last)
  <2>1. ASSUME NEW k \in 1 .. last, t[k].type = "TEXT_MESSAGE_START",
               \A m \in (k + 1) .. last : t[m].type # "TEXT_MESSAGE_END"
        PROVE  Within(s, last)
    <3>1. k \in 1 .. Len(s)
      BY <1>1, <1>2, <1>6, <2>1
    <3>2. s[k].type = "TEXT_MESSAGE_START"
      BY <1>1, <2>1, <3>1
    <3>3. ASSUME NEW m \in (k + 1) .. Len(s) PROVE s[m].type # "TEXT_MESSAGE_END"
      <4>1. m \in 1 .. Len(s) /\ m \in (k + 1) .. last
        BY <1>1, <1>2, <3>1
      <4> QED
        BY <1>1, <2>1, <4>1
    <3> QED
      BY <1>2, <3>1, <3>2, <3>3 DEF Within
  <2>2. ASSUME NEW k \in 1 .. Len(s), s[k].type = "TEXT_MESSAGE_START",
               \A m \in (k + 1) .. Len(s) : s[m].type # "TEXT_MESSAGE_END"
        PROVE  Within(t, Len(s) + 2)
    <3>1. k \in 1 .. last /\ t[k].type = "TEXT_MESSAGE_START"
      BY <1>1, <1>2, <2>2
    <3>2. ASSUME NEW m \in (k + 1) .. last PROVE t[m].type # "TEXT_MESSAGE_END"
      <4>1. m = last \/ (m \in 1 .. Len(s) /\ m \in (k + 1) .. Len(s))
        BY <1>1, <1>2
      <4> QED
        BY <1>1, <1>6, <2>2, <4>1
    <3> QED
      BY <1>2, <3>1, <3>2 DEF Within
  <2> QED
    BY <1>2, <2>1, <2>2 DEF Within
<1> QED
  BY <1>2, <1>3, <1>4, <1>5, <1>6 DEF t

\* One event more.
LEMMA BracketedSoFar ==
    ASSUME NEW s \in Seq(SseEvent), NEW e \in SseEvent
    PROVE  /\ Closed(s) /\ e.type \notin {"TEXT_MESSAGE_CONTENT", "TEXT_MESSAGE_END", "TOOL_CALL_END"} =>
                Bracketed(Append(s, e))
           /\ Closed(s) /\ e.type \in {"RUN_STARTED", "TOOL_CALL_START", "TOOL_CALL_ARGS"} =>
                Closed(Append(s, e))
           /\ Closed(s) /\ e.type = "TEXT_MESSAGE_START" => Open(Append(s, e))
           /\ Open(s) /\ e.type = "TEXT_MESSAGE_CONTENT" => Open(Append(s, e))
           /\ Open(s) /\ e.type = "TEXT_MESSAGE_END" => Closed(Append(s, e))
           /\ e.type = "TOOL_CALL_END" /\ Started(s, e) =>
                (Closed(s) => Closed(Append(s, e))) /\ (Open(s) => Open(Append(s, e)))
<1> DEFINE t == Append(s, e)
           last == Len(s) + 1
<1>1. /\ Len(s) \in Nat /\ DOMAIN s = 1 .. Len(s) /\ last \in Nat
      /\ DOMAIN t = 1 .. last /\ Len(t) = last
      /\ \A i \in DOMAIN s : t[i] = s[i]
      /\ t[last] = e
  BY WhatIsAdded
<1>2. /\ \A i \in 1 .. last : Within(t, i) <=> Within(s, i)
      /\ Len(t) + 1 = Len(s) + 2
      /\ e.type = "TEXT_MESSAGE_START" => Within(t, Len(s) + 2)
      /\ e.type = "TEXT_MESSAGE_END" => ~ Within(t, Len(s) + 2)
      /\ e.type \notin {"TEXT_MESSAGE_START", "TEXT_MESSAGE_END"} =>
            (Within(t, Len(s) + 2) <=> Within(s, last))
  BY <1>1, WithinSoFar
<1> HIDE DEF t
<1>3. /\ last \in 1 .. last /\ last - 1 = Len(s)
      /\ \A i \in DOMAIN t : i \in DOMAIN s \/ i = last
      /\ \A i \in DOMAIN s : i \in 1 .. last /\ i # last
      /\ \A i \in DOMAIN s : \A k \in 1 .. (i - 1) : k \in DOMAIN s
  BY <1>1
<1> HIDE DEF last
<1>4. ASSUME Unfinished(s), NEW i \in DOMAIN s PROVE Legal(t, i) /\ t[i].type \notin Final
  <2>1. Legal(s, i) /\ s[i].type \notin Final /\ t[i] = s[i]
    BY <1>1, <1>4 DEF Unfinished, Bracketed
  <2>2. Within(t, i) <=> Within(s, i)
    BY <1>2, <1>3
  <2>3. \A k \in 1 .. (i - 1) : t[k] = s[k]
    BY <1>1, <1>3
  <2> QED
    BY <2>1, <2>2, <2>3 DEF Legal
<1>5. ASSUME Unfinished(s), Legal(t, last) PROVE Bracketed(t) /\ (e.type \notin Final => Unfinished(t))
  BY <1>1, <1>3, <1>4, <1>5 DEF Bracketed, Unfinished
<1>6. /\ Within(t, last) <=> Within(s, last)
      /\ Closed(s) <=> Unfinished(s) /\ ~ Within(s, last)
      /\ Open(s) <=> Unfinished(s) /\ Within(s, last)
      /\ Closed(t) <=> Unfinished(t) /\ ~ Within(t, Len(s) + 2)
      /\ Open(t) <=> Unfinished(t) /\ Within(t, Len(s) + 2)
  BY <1>2, <1>3 DEF Closed, Open, last
<1>7. ASSUME Closed(s), e.type \notin {"TEXT_MESSAGE_CONTENT", "TEXT_MESSAGE_END", "TOOL_CALL_END"}
      PROVE  Legal(t, last)
  BY <1>1, <1>6, <1>7 DEF Legal
<1>8. ASSUME Open(s), e.type \in {"TEXT_MESSAGE_CONTENT", "TEXT_MESSAGE_END"} PROVE Legal(t, last)
  BY <1>1, <1>6, <1>8 DEF Legal, Final
<1>9. ASSUME e.type = "TOOL_CALL_END", Started(s, e) PROVE Legal(t, last)
  <2>1. \E k \in 1 .. (last - 1) : t[k].type = "TOOL_CALL_START" /\ t[k].call = e.call
    BY <1>1, <1>3, <1>9 DEF Started
  <2> QED
    BY <1>1, <1>9, <2>1 DEF Legal, Final
<1>10. /\ \A type \in {"RUN_STARTED", "TOOL_CALL_START", "TOOL_CALL_ARGS", "TOOL_CALL_END",
                       "TEXT_MESSAGE_START", "TEXT_MESSAGE_CONTENT", "TEXT_MESSAGE_END"} : type \notin Final
  BY DEF Final
<1> HIDE DEF Legal
<1>11. Closed(s) /\ e.type \notin {"TEXT_MESSAGE_CONTENT", "TEXT_MESSAGE_END", "TOOL_CALL_END"} =>
            Bracketed(t)
  BY <1>5, <1>6, <1>7
<1>12. Closed(s) /\ e.type \in {"RUN_STARTED", "TOOL_CALL_START", "TOOL_CALL_ARGS"} => Closed(t)
  BY <1>2, <1>5, <1>6, <1>7, <1>10
<1>13. Closed(s) /\ e.type = "TEXT_MESSAGE_START" => Open(t)
  BY <1>2, <1>5, <1>6, <1>7, <1>10
<1>14. Open(s) /\ e.type = "TEXT_MESSAGE_CONTENT" => Open(t)
  BY <1>2, <1>5, <1>6, <1>8, <1>10
<1>15. Open(s) /\ e.type = "TEXT_MESSAGE_END" => Closed(t)
  BY <1>2, <1>5, <1>6, <1>8, <1>10
<1>16. e.type = "TOOL_CALL_END" /\ Started(s, e) =>
            (Closed(s) => Closed(t)) /\ (Open(s) => Open(t))
  BY <1>2, <1>5, <1>6, <1>9, <1>10
<1> QED
  BY <1>11, <1>12, <1>13, <1>14, <1>15, <1>16 DEF t

\* chat_sse knows whether a message is open, and nothing follows the end.
Brackets ==
    IF relay = "ended" THEN Bracketed(sse)
    ELSE IF inMessage THEN Open(sse) ELSE Closed(sse)

\* It counts off only calls it has told the client of.
Announced ==
    \A j \in DOMAIN pending :
        \E k \in DOMAIN sse : sse[k].type = "TOOL_CALL_START" /\ sse[k].call = pending[j]

\* It ends the message that is open before anything else is sent.
LEMMA ClosingCloses ==
    ASSUME Basis, Brackets, relay # "ended", NEW e \in SseEvent, NEW s, s = sse \o (Closing \o <<e>>),
           e.type \in {"TOOL_CALL_START"} \union Final
    PROVE  /\ Bracketed(s) /\ s \in Seq(SseEvent) /\ (e.type \notin Final => Closed(s))
           /\ \E k \in DOMAIN s : s[k] = e
<1> DEFINE a == Plain("TEXT_MESSAGE_END")
<1>1. a \in SseEvent /\ a.type = "TEXT_MESSAGE_END" /\ sse \in Seq(SseEvent)
  BY Names, Facts DEF Plain, Sse, SseType, Basis
<1>2. /\ inMessage => Closing = <<a>>
      /\ ~ inMessage => Closing = <<>>
  BY DEF Closing
<1> HIDE DEF a
<1>0. PICK q \in Seq(SseEvent) : s = Append(q, e) /\ Closed(q)
  <2>1. CASE inMessage
    <3>1. s = Append(Append(sse, a), e)
      <4>1. sse \o (<<a>> \o <<e>>) = Append(Append(sse, a), e)
        BY <1>1, OneByOne
      <4> QED
        BY <1>2, <2>1, <4>1
    <3>2. Open(sse)
      BY <2>1 DEF Brackets
    <3>3. Append(sse, a) \in Seq(SseEvent) /\ Closed(Append(sse, a))
      BY <1>1, <3>2, BracketedSoFar, AppendProperties
    <3> QED
      BY <3>1, <3>3
  <2>2. CASE ~ inMessage
    BY <1>1, <1>2, <2>2, OneByOne DEF Brackets
  <2> QED
    BY <2>1, <2>2
<1>3. s \in Seq(SseEvent) /\ \E k \in DOMAIN s : s[k] = e
  <2>1. /\ Append(q, e) \in Seq(SseEvent) /\ Len(q) \in Nat
        /\ DOMAIN Append(q, e) = 1 .. (Len(q) + 1) /\ Append(q, e)[Len(q) + 1] = e
    BY WhatIsAdded
  <2>2. Len(q) + 1 \in DOMAIN s /\ s[Len(q) + 1] = e
    BY <1>0, <2>1
  <2> QED
    BY <1>0, <2>1, <2>2
<1>4. e.type \notin {"TEXT_MESSAGE_CONTENT", "TEXT_MESSAGE_END", "TOOL_CALL_END"}
  BY DEF Final
<1>5. e.type \notin Final => e.type \in {"RUN_STARTED", "TOOL_CALL_START", "TOOL_CALL_ARGS"}
  OBVIOUS
<1> QED
  BY <1>0, <1>3, <1>4, <1>5, BracketedSoFar

\* A call is started, then its arguments are sent.
LEMMA CallAndArguments ==
    ASSUME sse \in Seq(SseEvent), NEW b \in SseEvent, NEW d \in SseEvent
    PROVE  sse \o (Closing \o <<b, d>>) = Append(sse \o (Closing \o <<b>>), d)
<1> DEFINE a == Plain("TEXT_MESSAGE_END")
<1>1. a \in SseEvent /\ (Closing = <<a>> \/ Closing = <<>>)
  BY Names DEF SseType, Closing
<1> HIDE DEF a
<1>2. /\ sse \o (<<>> \o <<b>>) = Append(sse, b)
      /\ sse \o (<<a>> \o <<b>>) = Append(Append(sse, a), b)
      /\ sse \o (<<>> \o <<b, d>>) = Append(Append(sse, b), d)
      /\ sse \o (<<a>> \o <<b, d>>) = Append(Append(Append(sse, a), b), d)
  BY <1>1, OneByOne
<1>3. CASE Closing = <<a>>
  BY <1>2, <1>3
<1>4. CASE Closing = <<>>
  BY <1>2, <1>4
<1> QED
  BY <1>1, <1>3, <1>4

\* Whatever comes from run_turn, the client can follow.
LEMMA BracketsStep == Basis /\ Announced /\ Brackets /\ [Next]_vars => Brackets'
<1> SUFFICES ASSUME Basis, Announced, Brackets, [Next]_vars PROVE Brackets'
  OBVIOUS
<1>1. sse \in Seq(SseEvent) /\ inMessage \in BOOLEAN
  BY Facts DEF Basis, Types, TypeOK
<1>2. UNCHANGED <<relay, inMessage, sse>> => Brackets'
  BY DEF Brackets
<1>3. CASE WorkerStep \/ TurnStep \/ UNCHANGED vars
  <2>1. UNCHANGED <<relay, inMessage, sse>>
    BY <1>3 DEF WorkerStep, WorkerChunk, WorkerBuffers, WorkerFinishes, WorkerDrains, WorkerEnds,
                WorkerBreaks, WorkerRefused, TurnStep, Request, TurnChunk, TurnToolCall, TurnDone,
                TurnError, TurnExecutes, relayVars, vars
  <2> QED
    BY <1>2, <2>1
<1>4. CASE Start
  <2> DEFINE e == Plain("RUN_STARTED")
  <2>1. sse' = sse \o <<e>> /\ relay' = "relaying" /\ inMessage' = inMessage /\ relay = "starting"
    BY <1>4 DEF Start, Send
  <2>2. e \in SseEvent /\ e.type = "RUN_STARTED"
    BY Names DEF Plain, Sse, SseType
  <2>3. ~ inMessage
    BY <2>1 DEF Basis, AtTheStart
  <2> HIDE DEF e
  <2>4. sse' = Append(sse, e) /\ Closed(sse)
    BY <1>1, <2>1, <2>2, <2>3, OneByOne DEF Brackets
  <2>5. Closed(sse')
    BY <1>1, <2>2, <2>4, BracketedSoFar DEF Final
  <2> QED
    BY <2>1, <2>3, <2>5 DEF Brackets
<1>5. CASE Refuse
  <2> DEFINE e == Plain("RUN_ERROR")
  <2>1. sse' = sse \o <<e>> /\ relay' = "ended" /\ relay = "starting"
    BY <1>5 DEF Refuse, Send
  <2>2. e \in SseEvent /\ e.type = "RUN_ERROR"
    BY Names DEF Plain, Sse, SseType
  <2>3. ~ inMessage
    BY <2>1 DEF Basis, AtTheStart
  <2> HIDE DEF e
  <2>4. sse' = Append(sse, e) /\ Closed(sse)
    BY <1>1, <2>1, <2>2, <2>3, OneByOne DEF Brackets
  <2>5. Bracketed(sse')
    BY <1>1, <2>2, <2>4, BracketedSoFar DEF Final
  <2> QED
    BY <2>1, <2>5 DEF Brackets
<1>6. CASE RelayToken
  <2> DEFINE a == Plain("TEXT_MESSAGE_START")
             b == Plain("TEXT_MESSAGE_CONTENT")
  <2>1. /\ sse' = sse \o ((IF inMessage THEN <<>> ELSE <<a>>) \o <<b>>)
        /\ relay' = relay /\ inMessage' = TRUE /\ relay = "relaying"
    BY <1>6 DEF RelayToken, Send, Hear
  <2>2. /\ a \in SseEvent /\ a.type = "TEXT_MESSAGE_START"
        /\ b \in SseEvent /\ b.type = "TEXT_MESSAGE_CONTENT"
    BY Names DEF Plain, Sse, SseType
  <2> HIDE DEF a, b
  <2>3. Open(sse')
    <3>1. CASE inMessage
      <4>1. sse' = Append(sse, b) /\ Open(sse)
        BY <1>1, <2>1, <2>2, <3>1, OneByOne DEF Brackets
      <4> QED
        BY <1>1, <2>2, <4>1, BracketedSoFar
    <3>2. CASE ~ inMessage
      <4>1. sse' = Append(Append(sse, a), b) /\ Closed(sse)
        BY <1>1, <2>1, <2>2, <3>2, OneByOne DEF Brackets
      <4>2. Append(sse, a) \in Seq(SseEvent) /\ Open(Append(sse, a))
        BY <1>1, <2>2, <4>1, BracketedSoFar, AppendProperties
      <4> QED
        BY <2>2, <4>1, <4>2, BracketedSoFar
    <3> QED
      BY <3>1, <3>2
  <2> QED
    BY <2>1, <2>3 DEF Brackets
<1>7. CASE RelayToolCall
  <2> DEFINE c == Head(session).call
             b == Sse("TOOL_CALL_START", c, NoCall)
             d == Sse("TOOL_CALL_ARGS", c, NoCall)
             s == sse \o (Closing \o <<b>>)
  <2>1. /\ sse' = sse \o (Closing \o <<b, d>>) /\ relay' = relay /\ inMessage' = FALSE
        /\ relay = "relaying" /\ session # <<>> /\ Head(session).type = "ToolCall"
    BY <1>7 DEF RelayToolCall, Send, Hear, Close
  <2>2. c \in Call
    <3>1. 1 \in DOMAIN session /\ Head(session) = session[1]
      BY <2>1, Facts, WhatIsLeft DEF Basis
    <3> QED
      BY <2>1, <3>1, Facts DEF Basis
  <2>3. b \in SseEvent /\ d \in SseEvent /\ b.type = "TOOL_CALL_START" /\ d.type = "TOOL_CALL_ARGS"
    BY <2>2, Names DEF Sse, SseType
  <2> HIDE DEF b, c, d
  <2>4. s \in Seq(SseEvent) /\ Closed(s)
    <3> HIDE DEF s
    <3>1. s = sse \o (Closing \o <<b>>)
      BY DEF s
    <3> QED
      BY <2>1, <2>3, <3>1, ClosingCloses DEF Final
  <2>5. sse' = Append(s, d)
    BY <1>1, <2>1, <2>3, CallAndArguments DEF s
  <2> HIDE DEF s
  <2>6. Closed(sse')
    BY <2>3, <2>4, <2>5, BracketedSoFar DEF Final
  <2> QED
    BY <2>1, <2>6 DEF Brackets
<1>8. CASE RelayToolResult
  <2>1. relay = "relaying" /\ relay' = relay /\ inMessage' = inMessage
        /\ session # <<>> /\ Head(session).type = "ToolResult"
    BY <1>8 DEF RelayToolResult, Hear
  <2>2. CASE pending = <<>>
    BY <1>2, <1>8, <2>1, <2>2 DEF RelayToolResult
  <2>3. CASE pending # <<>>
    <3> DEFINE e == Sse("TOOL_CALL_END", Oldest, Head(session).call)
    <3>1. sse' = sse \o <<e>>
      BY <1>8, <2>3 DEF RelayToolResult, Send
    <3>2. 1 \in DOMAIN session /\ Head(session) = session[1]
      BY <2>1, Facts, WhatIsLeft DEF Basis
    <3>4. Head(session).call \in Call
      BY <2>1, <3>2, Facts DEF Basis
    <3>5. Oldest \in Call /\ 1 \in DOMAIN pending /\ Oldest = pending[1]
      BY <2>3, Facts, WhatIsLeft DEF Basis, Oldest
    <3>6. e \in SseEvent /\ e.type = "TOOL_CALL_END" /\ e.call = Oldest
      BY <3>4, <3>5, Names DEF Sse, SseType
    <3> HIDE DEF e
    <3>7. sse' = Append(sse, e)
      BY <1>1, <3>1, <3>6, OneByOne
    <3>8. Started(sse, e)
      BY <3>5, <3>6 DEF Announced, Started
    <3>9. (Closed(sse) => Closed(sse')) /\ (Open(sse) => Open(sse'))
      BY <1>1, <3>6, <3>7, <3>8, BracketedSoFar
    <3> QED
      BY <2>1, <3>9 DEF Brackets
  <2> QED
    BY <2>2, <2>3
<1>9. CASE RelayDone \/ RelayError
  <2>1. PICK e \in SseEvent : e.type \in Final /\ sse' = sse \o (Closing \o <<e>>)
    <3>1. /\ Plain("RUN_FINISHED") \in SseEvent /\ Plain("RUN_FINISHED").type \in Final
          /\ Plain("RUN_ERROR") \in SseEvent /\ Plain("RUN_ERROR").type \in Final
      BY Names DEF Plain, Sse, SseType, Final
    <3> HIDE DEF SseEvent, Plain
    <3> QED
      BY <1>9, <3>1 DEF RelayDone, RelayError, Send
  <2>2. relay = "relaying" /\ relay' = "ended"
    BY <1>9 DEF RelayDone, RelayError, Hear
  <2>3. Bracketed(sse')
    BY <2>1, <2>2, ClosingCloses DEF Final
  <2> QED
    BY <2>2, <2>3 DEF Brackets
<1> QED
  BY <1>3, <1>4, <1>5, <1>6, <1>7, <1>8, <1>9 DEF Next, RelayStep

\* A call is put on the list when the client is told of it.
LEMMA AnnouncedStep == Basis /\ Announced /\ Brackets /\ [Next]_vars => Announced'
<1> SUFFICES ASSUME Basis, Announced, Brackets, [Next]_vars, NEW j \in DOMAIN pending'
             PROVE  \E k \in DOMAIN sse' :
                        sse'[k].type = "TOOL_CALL_START" /\ sse'[k].call = pending'[j]
  BY DEF Announced
<1>1. /\ pending \in Seq(Call) /\ session \in Seq(SessionEvent) /\ sse \in Seq(SseEvent)
      /\ Len(pending) \in Nat /\ DOMAIN pending = 1 .. Len(pending)
  BY Facts DEF Basis
<1>2. ASSUME NEW i \in DOMAIN pending, pending'[j] = pending[i]
      PROVE  \E k \in DOMAIN sse' :
                sse'[k].type = "TOOL_CALL_START" /\ sse'[k].call = pending'[j]
  BY <1>2, WhatIsSent DEF Announced
<1>3. CASE RelayToolCall
  <2> DEFINE c == Head(session).call
             b == Sse("TOOL_CALL_START", c, NoCall)
             d == Sse("TOOL_CALL_ARGS", c, NoCall)
             s == sse \o (Closing \o <<b>>)
  <2>1. /\ sse' = sse \o (Closing \o <<b, d>>) /\ pending' = Append(pending, c)
        /\ relay = "relaying" /\ session # <<>> /\ Head(session).type = "ToolCall"
    BY <1>3 DEF RelayToolCall, Send, Hear
  <2>2. c \in Call
    <3>1. 1 \in DOMAIN session /\ Head(session) = session[1]
      BY <1>1, <2>1, WhatIsLeft
    <3> QED
      BY <2>1, <3>1, Facts DEF Basis
  <2>3. b \in SseEvent /\ d \in SseEvent /\ b.type = "TOOL_CALL_START" /\ b.call = c
    BY <2>2, Names DEF Sse, SseType
  <2> HIDE DEF b, c, d
  <2>4. s \in Seq(SseEvent) /\ \E k \in DOMAIN s : s[k] = b
    <3> HIDE DEF s
    <3>1. s = sse \o (Closing \o <<b>>)
      BY DEF s
    <3> QED
      BY <2>1, <2>3, <3>1, ClosingCloses
  <2>5. sse' = Append(s, d)
    BY <1>1, <2>1, <2>3, CallAndArguments DEF s
  <2> HIDE DEF s
  <2>6. \E k \in DOMAIN sse' : sse'[k] = b
    <3>1. \A k \in DOMAIN s : k \in DOMAIN sse' /\ sse'[k] = s[k]
      BY <2>3, <2>4, <2>5, WhatIsAdded
    <3> QED
      BY <2>4, <3>1
  <2>7. DOMAIN pending' = 1 .. (Len(pending) + 1) /\ pending'[Len(pending) + 1] = c
        /\ \A i \in DOMAIN pending : pending'[i] = pending[i]
    BY <1>1, <2>1, <2>2, WhatIsAdded
  <2>8. j \in DOMAIN pending \/ j = Len(pending) + 1
    BY <1>1, <2>7
  <2>9. CASE j \in DOMAIN pending
    BY <1>2, <2>7, <2>9
  <2>10. CASE j = Len(pending) + 1
    BY <2>3, <2>6, <2>7, <2>10
  <2> QED
    BY <2>8, <2>9, <2>10
<1>4. CASE RelayToolResult /\ pending # <<>>
  <2>1. pending' = Tail(pending)
    BY <1>4 DEF RelayToolResult
  <2>2. j + 1 \in DOMAIN pending /\ pending'[j] = pending[j + 1]
    BY <1>1, <1>4, <2>1, WhatIsLeft
  <2> QED
    BY <1>2, <2>2
<1>5. CASE pending' = pending
  BY <1>2, <1>5
<1>6. pending' = pending \/ RelayToolCall \/ (RelayToolResult /\ pending # <<>>)
  BY DEF Next, WorkerStep, TurnStep, RelayStep, WorkerChunk, WorkerBuffers, WorkerFinishes,
         WorkerDrains, WorkerEnds, WorkerBreaks, WorkerRefused, Request, TurnChunk,
         TurnToolCall, TurnDone, TurnError, TurnExecutes, Start, Refuse, RelayToken,
         RelayToolResult, RelayDone, RelayError, relayVars, vars
<1> QED
  BY <1>3, <1>4, <1>5, <1>6

\* EventsAreBracketed: the client can follow the events: text comes inside a message,
\* no message is open when another or a tool call starts or the run is over, nothing
\* follows the end, and a tool call ends after it was started.
THEOREM EventsAreBracketedHolds == Spec => []EventsAreBracketed
<1>1. Init => Basis /\ Announced /\ Brackets
  <2> SUFFICES ASSUME Init PROVE Basis /\ Announced /\ Brackets
    OBVIOUS
  <2>1. pending = <<>> /\ sse = <<>> /\ relay = "starting"
    BY DEF Init
  <2>2. DOMAIN pending = {} /\ DOMAIN sse = {} /\ Len(sse) = 0
    BY <2>1
  <2>3. inMessage = FALSE
    BY Zenon DEF Init
  <2>4. Closed(sse)
    <3>1. 1 .. ((0 + 1) - 1) = {}
      OBVIOUS
    <3>2. ~ Within(sse, Len(sse) + 1)
      BY <2>2, <3>1 DEF Within
    <3> QED
      BY <2>2, <3>2 DEF Closed, Unfinished, Bracketed
  <2> QED
    BY <2>1, <2>2, <2>3, <2>4, BasisInit DEF Announced, Brackets
<1>2. Basis /\ Announced /\ Brackets /\ [Next]_vars => (Basis /\ Announced /\ Brackets)'
  BY BasisStep, AnnouncedStep, BracketsStep
<1>3. Basis /\ Announced /\ Brackets => EventsAreBracketed
  <2> SUFFICES ASSUME Basis, Brackets PROVE EventsAreBracketed
    OBVIOUS
  <2>1. Bracketed(sse)
    BY DEF Brackets, Open, Closed, Unfinished
  <2>2. \A i \in DOMAIN sse : UnderWay(i) <=> Within(sse, i)
    BY DEF UnderWay, Within
  <2> QED
    BY <2>1, <2>2 DEF Bracketed, Legal, EventsAreBracketed, Final
<1> QED
  BY <1>1, <1>2, <1>3, PTL DEF Spec

-----------------------------------------------------------------------------
(* A result and the call it is the result of *)

Tools == {"ToolCall", "ToolResult"}

Count == [Nat -> Nat]
Listing == [Nat -> Call \union {NoCall}]

\* Where event i is told, n calls have been told of and m have been run.
At(i, n, m, all, told) ==
    /\ n[i] = IF told[i].type = "ToolCall" THEN n[i - 1] + 1 ELSE n[i - 1]
    /\ m[i] = IF told[i].type = "ToolResult" THEN m[i - 1] + 1 ELSE m[i - 1]
    /\ told[i].type = "ToolCall" => all[n[i]] = told[i].call
    /\ told[i].type = "ToolResult" => m[i] <= n[i] /\ all[m[i]] = told[i].call

\* All calls of the turn, in the order they were made: the client was shown those
\* that follow the first m[0], and those at the end are left to be run.
Counted(n, m, all, told, shown, left) ==
    /\ n[0] = m[0] + Len(shown)
    /\ \A i \in 1 .. Len(shown) : all[m[0] + i] = shown[i]
    /\ \A i \in 1 .. Len(told) : At(i, n, m, all, told)
    /\ \A i \in 0 .. Len(told) : n[i] <= n[Len(told)] /\ m[i] <= m[Len(told)]
    /\ n[Len(told)] = m[Len(told)] + Len(left)
    /\ \A i \in 1 .. Len(left) : all[m[Len(told)] + i] = left[i]

Some(told, shown, left) ==
    \E n, m \in Count, all \in Listing :
        Counted(n, m, all, told, shown, left)

\* The places in a sequence that grows.
LEMMA Places ==
    ASSUME NEW k \in Nat
    PROVE  /\ \A i \in 1 .. (k + 1) : i \in 1 .. k \/ i = k + 1
           /\ \A i \in 0 .. (k + 1) : i \in 0 .. k \/ i = k + 1
           /\ \A i \in 1 .. k : /\ i \in Nat /\ i - 1 \in Nat /\ i # k + 1 /\ i - 1 # k + 1
                                /\ i - 1 \in 0 .. k /\ i \in 0 .. k
           /\ \A i \in 0 .. k : i \in Nat /\ i # k + 1
           /\ k \in 0 .. k /\ 0 \in 0 .. k /\ k + 1 \in Nat /\ k # k + 1 /\ 0 # k + 1 /\ (k + 1) - 1 = k
OBVIOUS

\* What is counted are numbers.
LEMMA NumbersAll ==
    ASSUME NEW f \in Count
    PROVE  \A i \in Nat : f[i] \in Nat
BY DEF Count

\* Sums in another order.
LEMMA Sums ==
    ASSUME NEW a \in Nat, NEW b \in Nat
    PROVE  a + (b + 1) = (a + 1) + b /\ (a + b) + 1 = a + (b + 1)
OBVIOUS

\* Places after a place.
LEMMA PlacesAfter ==
    ASSUME NEW a \in Nat, NEW b \in Nat, NEW x \in Nat, x = a + b
    PROVE  /\ \A i \in 1 .. b : i \in Nat /\ a + i \in Nat /\ a + i <= x
           /\ a + (b + 1) = x + 1 /\ x + 1 = a + (b + 1)
OBVIOUS

\* A number more in a count.
LEMMA OneMore ==
    ASSUME NEW f \in Count, NEW k \in Nat, NEW x \in Nat
    PROVE  /\ [f EXCEPT ![k + 1] = x] \in Count
           /\ [f EXCEPT ![k + 1] = x][k + 1] = x
           /\ \A i \in Nat : i # k + 1 => [f EXCEPT ![k + 1] = x][i] = f[i]
BY DEF Count

\* A call more in a listing.
LEMMA OneCallMore ==
    ASSUME NEW f \in Listing, NEW k \in Nat, NEW c \in Call
    PROVE  /\ [f EXCEPT ![k + 1] = c] \in Listing
           /\ [f EXCEPT ![k + 1] = c][k + 1] = c
           /\ \A i \in Nat : i # k + 1 => [f EXCEPT ![k + 1] = c][i] = f[i]
BY DEF Listing

\* An event is told that is of no tool.
LEMMA TellOther ==
    ASSUME NEW told \in Seq(SessionEvent), NEW shown \in Seq(Call), NEW left \in Seq(Call),
           Some(told, shown, left), NEW e \in SessionEvent, e.type \notin Tools
    PROVE  Some(Append(told, e), shown, left)
<1>1. PICK n \in Count, m \in Count, all \in Listing :
            Counted(n, m, all, told, shown, left)
  BY DEF Some
<1>0. \A i \in Nat : n[i] \in Nat /\ m[i] \in Nat
  BY NumbersAll
<1> DEFINE k == Len(told)
           t == Append(told, e)
<1>2. k \in Nat /\ Len(t) = k + 1
  BY WhatIsAdded
<1>3. (\A i \in 1 .. k : t[i] = told[i]) /\ t[k + 1] = e
  BY WhatIsAdded
<1>4. n[0] = m[0] + Len(shown) /\ (\A i \in 1 .. Len(shown) : all[m[0] + i] = shown[i])
  BY <1>1 DEF Counted
<1>5. \A i \in 1 .. k : At(i, n, m, all, told)
  BY <1>1 DEF Counted
<1>6. \A i \in 0 .. k : n[i] <= n[k] /\ m[i] <= m[k]
  BY <1>1 DEF Counted
<1>7. n[k] = m[k] + Len(left) /\ \A i \in 1 .. Len(left) : all[m[k] + i] = left[i]
  BY <1>1 DEF Counted
<1> HIDE DEF k, t
<1> DEFINE n2 == [n EXCEPT ![k + 1] = n[k]]
           m2 == [m EXCEPT ![k + 1] = m[k]]
<1>8. n[k] \in Nat /\ m[k] \in Nat
  BY <1>0, <1>2
<1>9. n2 \in Count /\ n2[k + 1] = n[k] /\ \A i \in Nat : i # k + 1 => n2[i] = n[i]
  BY <1>2, <1>8, OneMore
<1>10. m2 \in Count /\ m2[k + 1] = m[k] /\ \A i \in Nat : i # k + 1 => m2[i] = m[i]
  BY <1>2, <1>8, OneMore
<1> HIDE DEF n2, m2
<1>11. \A i \in 0 .. k : n2[i] = n[i] /\ m2[i] = m[i]
  BY <1>2, <1>9, <1>10, Places
<1>12. ASSUME NEW i \in 1 .. k PROVE At(i, n2, m2, all, t)
  <2>1. n2[i] = n[i] /\ m2[i] = m[i] /\ n2[i - 1] = n[i - 1] /\ m2[i - 1] = m[i - 1] /\ t[i] = told[i]
    BY <1>2, <1>3, <1>11, Places
  <2>2. At(i, n, m, all, told)
    BY <1>5
  <2> QED
    BY <2>1, <2>2 DEF At
<1>13. At(k + 1, n2, m2, all, t)
  <2>1. n2[k] = n[k] /\ m2[k] = m[k] /\ (k + 1) - 1 = k
    BY <1>2, <1>11, Places
  <2> QED
    BY <1>3, <1>9, <1>10, <2>1 DEF At, Tools
<1>14. \A i \in 1 .. (k + 1) : At(i, n2, m2, all, t)
  BY <1>2, <1>12, <1>13, Places
<1>15. \A i \in 0 .. (k + 1) : n2[i] <= n2[k + 1] /\ m2[i] <= m2[k + 1]
  <2>1. \A i \in 0 .. k : n2[i] <= n2[k + 1] /\ m2[i] <= m2[k + 1]
    BY <1>6, <1>9, <1>10, <1>11
  <2>2. n2[k + 1] <= n2[k + 1] /\ m2[k + 1] <= m2[k + 1]
    BY <1>8, <1>9, <1>10
  <2> QED
    BY <1>2, <2>1, <2>2, Places
<1>16. n2[0] = n[0] /\ m2[0] = m[0]
  BY <1>2, <1>11, Places
<1>17. Counted(n2, m2, all, t, shown, left)
  BY <1>2, <1>4, <1>7, <1>9, <1>10, <1>14, <1>15, <1>16 DEF Counted
<1> QED
  BY <1>9, <1>10, <1>17 DEF Some, t

\* A call is told of: it is left to be run.
LEMMA TellCall ==
    ASSUME NEW told \in Seq(SessionEvent), NEW shown \in Seq(Call), NEW left \in Seq(Call),
           Some(told, shown, left), NEW e \in SessionEvent, NEW c \in Call,
           e.type = "ToolCall", e.call = c
    PROVE  Some(Append(told, e), shown, Append(left, c))
<1>1. PICK n \in Count, m \in Count, all \in Listing :
            Counted(n, m, all, told, shown, left)
  BY DEF Some
<1>0. \A i \in Nat : n[i] \in Nat /\ m[i] \in Nat
  BY NumbersAll
<1> DEFINE k == Len(told)
           t == Append(told, e)
           l == Append(left, c)
<1>2. k \in Nat /\ Len(t) = k + 1 /\ Len(shown) \in Nat /\ Len(left) \in Nat /\ Len(l) = Len(left) + 1
  BY WhatIsAdded, LenProperties
<1>3. (\A i \in 1 .. k : t[i] = told[i]) /\ t[k + 1] = e
  BY WhatIsAdded
<1>4. n[0] = m[0] + Len(shown) /\ (\A i \in 1 .. Len(shown) : all[m[0] + i] = shown[i])
  BY <1>1 DEF Counted
<1>5. \A i \in 1 .. k : At(i, n, m, all, told)
  BY <1>1 DEF Counted
<1>6. \A i \in 0 .. k : n[i] <= n[k] /\ m[i] <= m[k]
  BY <1>1 DEF Counted
<1>7. n[k] = m[k] + Len(left) /\ \A i \in 1 .. Len(left) : all[m[k] + i] = left[i]
  BY <1>1 DEF Counted
<1>8. (\A i \in 1 .. Len(left) : l[i] = left[i]) /\ l[Len(left) + 1] = c
  BY WhatIsAdded
<1> HIDE DEF k, t, l
<1> DEFINE n2 == [n EXCEPT ![k + 1] = n[k] + 1]
           m2 == [m EXCEPT ![k + 1] = m[k]]
           a == [all EXCEPT ![n[k] + 1] = c]
<1>9. n[k] \in Nat /\ m[k] \in Nat /\ n[k] + 1 \in Nat /\ n[0] \in Nat /\ m[0] \in Nat
  BY <1>0, <1>2
<1>10. n2 \in Count /\ n2[k + 1] = n[k] + 1 /\ \A i \in Nat : i # k + 1 => n2[i] = n[i]
  BY <1>2, <1>9, OneMore
<1>11. m2 \in Count /\ m2[k + 1] = m[k] /\ \A i \in Nat : i # k + 1 => m2[i] = m[i]
  BY <1>2, <1>9, OneMore
<1>12. /\ a \in Listing /\ a[n[k] + 1] = c
       /\ \A i \in Nat : i # n[k] + 1 => a[i] = all[i]
  BY <1>9, OneCallMore
<1> HIDE DEF n2, m2, a
<1>13. \A i \in Nat : i <= n[k] => a[i] = all[i]
  BY <1>9, <1>12
<1>14. \A i \in 0 .. k : n2[i] = n[i] /\ m2[i] = m[i]
  BY <1>2, <1>10, <1>11, Places
<1>15. n2[0] = n[0] /\ m2[0] = m[0] /\ n[0] <= n[k]
  BY <1>2, <1>6, <1>14, Places
<1>16. ASSUME NEW i \in 1 .. k PROVE At(i, n2, m2, a, t)
  <2>1. n2[i] = n[i] /\ m2[i] = m[i] /\ n2[i - 1] = n[i - 1] /\ m2[i - 1] = m[i - 1] /\ t[i] = told[i]
    BY <1>2, <1>3, <1>14, Places
  <2>2. At(i, n, m, all, told)
    BY <1>5
  <2>3. n[i] \in Nat /\ m[i] \in Nat /\ n[i] <= n[k]
    BY <1>0, <1>2, <1>6, Places
  <2>4. a[n[i]] = all[n[i]]
    BY <1>13, <2>3
  <2>5. ASSUME m[i] <= n[i] PROVE a[m[i]] = all[m[i]]
    <3>1. m[i] <= n[k]
      BY ONLY <1>9, <2>3, <2>5
    <3> QED
      BY <1>13, <2>3, <3>1
  <2> QED
    BY <2>1, <2>2, <2>4, <2>5 DEF At
<1>17. At(k + 1, n2, m2, a, t)
  <2>1. n2[k] = n[k] /\ m2[k] = m[k] /\ (k + 1) - 1 = k
    BY <1>2, <1>14, Places
  <2> QED
    BY <1>3, <1>10, <1>11, <1>12, <2>1 DEF At
<1>18. \A i \in 1 .. (k + 1) : At(i, n2, m2, a, t)
  BY <1>2, <1>16, <1>17, Places
<1>19. \A i \in 0 .. (k + 1) : n2[i] <= n2[k + 1] /\ m2[i] <= m2[k + 1]
  <2>1. ASSUME NEW i \in 0 .. k PROVE n2[i] <= n2[k + 1] /\ m2[i] <= m2[k + 1]
    <3>1. n[i] <= n[k] /\ m[i] <= m[k] /\ n[i] \in Nat /\ m[i] \in Nat
      BY <1>0, <1>2, <1>6, Places
    <3>2. n2[i] = n[i] /\ m2[i] = m[i]
      BY <1>14
    <3> QED
      BY <1>9, <1>10, <1>11, <3>1, <3>2
  <2>2. n2[k + 1] <= n2[k + 1] /\ m2[k + 1] <= m2[k + 1]
    BY <1>9, <1>10, <1>11
  <2> QED
    BY <1>2, <2>1, <2>2, Places
<1>20. ASSUME NEW i \in 1 .. Len(shown) PROVE a[m2[0] + i] = shown[i]
  <2>1. m[0] + i \in Nat /\ m[0] + i <= n[0]
    BY <1>2, <1>4, <1>9, PlacesAfter
  <2>2. m[0] + i <= n[k]
    BY <1>9, <1>15, <2>1
  <2>3. all[m[0] + i] = shown[i]
    BY <1>4
  <2> QED
    BY <1>13, <1>15, <2>1, <2>2, <2>3
<1>21. Len(left) \in Nat /\ Len(l) = Len(left) + 1 /\ k \in Nat
  BY <1>2
<1>22. /\ \A i \in 1 .. Len(left) : i \in Nat /\ m[k] + i \in Nat /\ m[k] + i <= n[k]
       /\ m[k] + (Len(left) + 1) = n[k] + 1
  <2>1. n[k] = m[k] + Len(left) /\ m[k] \in Nat /\ n[k] \in Nat /\ Len(left) \in Nat
    BY <1>7, <1>9, <1>21
  <2> DEFINE a0 == m[k]
             b0 == Len(left)
             x0 == n[k]
  <2>2. a0 \in Nat /\ b0 \in Nat /\ x0 \in Nat /\ x0 = a0 + b0
    BY <2>1
  <2> HIDE DEF a0, b0, x0
  <2>3. /\ \A i \in 1 .. b0 : i \in Nat /\ a0 + i \in Nat /\ a0 + i <= x0
        /\ a0 + (b0 + 1) = x0 + 1
    BY ONLY <2>2, PlacesAfter
  <2> QED
    BY <2>3 DEF a0, b0, x0
<1>23. n2[k + 1] = m2[k + 1] + Len(l)
  BY <1>10, <1>11, <1>21, <1>22
<1>24. ASSUME NEW i \in 1 .. Len(l) PROVE a[m2[k + 1] + i] = l[i]
  <2>1. CASE i \in 1 .. Len(left)
    <3>1. m[k] + i \in Nat /\ m[k] + i <= n[k]
      BY <1>22, <2>1
    <3>2. all[m[k] + i] = left[i] /\ l[i] = left[i]
      BY <1>7, <1>8, <2>1
    <3> QED
      BY <1>11, <1>13, <3>1, <3>2
  <2>2. CASE i = Len(left) + 1
    <3>1. m[k] + i = n[k] + 1
      BY <1>22, <2>2
    <3> QED
      BY <1>8, <1>11, <1>12, <2>2, <3>1
  <2> QED
    BY <1>2, <2>1, <2>2
<1>25. n2[0] = m2[0] + Len(shown)
  BY <1>4, <1>15
<1>26. Counted(n2, m2, a, t, shown, l)
  BY <1>2, <1>18, <1>19, <1>20, <1>23, <1>24, <1>25 DEF Counted
<1> QED
  BY <1>10, <1>11, <1>12, <1>26 DEF Some, t, l

\* A result is told of: it is that of the first call left to be run.
LEMMA TellResult ==
    ASSUME NEW told \in Seq(SessionEvent), NEW shown \in Seq(Call), NEW left \in Seq(Call),
           Some(told, shown, left), NEW e \in SessionEvent,
           e.type = "ToolResult", left # <<>>, e.call = Head(left)
    PROVE  Some(Append(told, e), shown, Tail(left))
<1>1. PICK n \in Count, m \in Count, all \in Listing :
            Counted(n, m, all, told, shown, left)
  BY DEF Some
<1>0. \A i \in Nat : n[i] \in Nat /\ m[i] \in Nat
  BY NumbersAll
<1> DEFINE k == Len(told)
           t == Append(told, e)
           l == Tail(left)
<1>2. k \in Nat /\ Len(t) = k + 1 /\ Len(left) \in Nat /\ Len(left) > 0 /\ Len(l) = Len(left) - 1
  BY WhatIsAdded, WhatIsLeft
<1>3. (\A i \in 1 .. k : t[i] = told[i]) /\ t[k + 1] = e
  BY WhatIsAdded
<1>4. n[0] = m[0] + Len(shown) /\ (\A i \in 1 .. Len(shown) : all[m[0] + i] = shown[i])
  BY <1>1 DEF Counted
<1>5. \A i \in 1 .. k : At(i, n, m, all, told)
  BY <1>1 DEF Counted
<1>6. \A i \in 0 .. k : n[i] <= n[k] /\ m[i] <= m[k]
  BY <1>1 DEF Counted
<1>7. n[k] = m[k] + Len(left) /\ \A i \in 1 .. Len(left) : all[m[k] + i] = left[i]
  BY <1>1 DEF Counted
<1>8. left[1] = e.call /\ \A i \in 1 .. Len(l) : i \in Nat /\ l[i] = left[i + 1] /\ i + 1 \in 1 .. Len(left)
  BY WhatIsLeft
<1> HIDE DEF k, t, l
<1> DEFINE n2 == [n EXCEPT ![k + 1] = n[k]]
           m2 == [m EXCEPT ![k + 1] = m[k] + 1]
<1>9. n[k] \in Nat /\ m[k] \in Nat /\ m[k] + 1 \in Nat
  BY <1>0, <1>2
<1>10. n2 \in Count /\ n2[k + 1] = n[k] /\ \A i \in Nat : i # k + 1 => n2[i] = n[i]
  BY <1>2, <1>9, OneMore
<1>11. m2 \in Count /\ m2[k + 1] = m[k] + 1 /\ \A i \in Nat : i # k + 1 => m2[i] = m[i]
  BY <1>2, <1>9, OneMore
<1> HIDE DEF n2, m2
<1>12. \A i \in 0 .. k : n2[i] = n[i] /\ m2[i] = m[i]
  BY <1>2, <1>10, <1>11, Places
<1>13. n2[0] = n[0] /\ m2[0] = m[0]
  BY <1>2, <1>12, Places
<1>14. ASSUME NEW i \in 1 .. k PROVE At(i, n2, m2, all, t)
  <2>1. n2[i] = n[i] /\ m2[i] = m[i] /\ n2[i - 1] = n[i - 1] /\ m2[i - 1] = m[i - 1] /\ t[i] = told[i]
    BY <1>2, <1>3, <1>12, Places
  <2>2. At(i, n, m, all, told)
    BY <1>5
  <2> QED
    BY <2>1, <2>2 DEF At
<1>15. At(k + 1, n2, m2, all, t)
  <2>1. n2[k] = n[k] /\ m2[k] = m[k] /\ (k + 1) - 1 = k
    BY <1>2, <1>12, Places
  <2>2. m[k] + 1 <= n[k]
    BY <1>2, <1>7, <1>9
  <2>3. all[m[k] + 1] = e.call
    <3>1. 1 \in 1 .. Len(left)
      BY <1>2
    <3> QED
      BY <1>7, <1>8, <3>1
  <2> QED
    BY <1>3, <1>10, <1>11, <2>1, <2>2, <2>3 DEF At
<1>16. \A i \in 1 .. (k + 1) : At(i, n2, m2, all, t)
  BY <1>2, <1>14, <1>15, Places
<1>17. \A i \in 0 .. (k + 1) : n2[i] <= n2[k + 1] /\ m2[i] <= m2[k + 1]
  <2>1. ASSUME NEW i \in 0 .. k PROVE n2[i] <= n2[k + 1] /\ m2[i] <= m2[k + 1]
    <3>1. n[i] <= n[k] /\ m[i] <= m[k] /\ n[i] \in Nat /\ m[i] \in Nat
      BY <1>0, <1>2, <1>6, Places
    <3>2. n2[i] = n[i] /\ m2[i] = m[i]
      BY <1>12
    <3> QED
      BY <1>9, <1>10, <1>11, <3>1, <3>2
  <2>2. n2[k + 1] <= n2[k + 1] /\ m2[k + 1] <= m2[k + 1]
    BY <1>9, <1>10, <1>11
  <2> QED
    BY <1>2, <2>1, <2>2, Places
<1>18. n2[k + 1] = m2[k + 1] + Len(l)
  BY <1>2, <1>7, <1>9, <1>10, <1>11
<1>19. ASSUME NEW i \in 1 .. Len(l) PROVE all[m2[k + 1] + i] = l[i]
  <2>1. i \in Nat /\ l[i] = left[i + 1] /\ i + 1 \in 1 .. Len(left)
    BY <1>8
  <2>2. all[m[k] + (i + 1)] = left[i + 1]
    BY <1>7, <2>1
  <2>3. m[k] + (i + 1) = m2[k + 1] + i
    <3>1. m[k] + (i + 1) = (m[k] + 1) + i
      BY <1>9, <2>1, Sums
    <3> QED
      BY <1>11, <3>1
  <2> QED
    BY <2>1, <2>2, <2>3
<1>20. Counted(n2, m2, all, t, shown, l)
  BY <1>2, <1>4, <1>13, <1>16, <1>17, <1>18, <1>19 DEF Counted
<1> QED
  BY <1>10, <1>11, <1>20 DEF Some, t, l

\* A count without its first number.
LEMMA OneLess ==
    ASSUME NEW f \in Count
    PROVE  /\ [i \in Nat |-> f[i + 1]] \in Count
           /\ \A i \in Nat : [j \in Nat |-> f[j + 1]][i] = f[i + 1]
BY DEF Count

\* What is told is heard, the first event first.
LEMMA HearAny ==
    ASSUME NEW told \in Seq(SessionEvent), NEW shown \in Seq(Call), NEW left \in Seq(Call),
           NEW n \in Count, NEW m \in Count, NEW all \in Listing,
           Counted(n, m, all, told, shown, left), told # <<>>,
           NEW s2 \in Seq(Call), n[1] = m[1] + Len(s2),
           \A i \in 1 .. Len(s2) : all[m[1] + i] = s2[i]
    PROVE  Some(Tail(told), s2, left)
<1> DEFINE k == Len(told)
           t == Tail(told)
           r == Len(t)
<1>1. /\ k \in Nat /\ r \in Nat /\ k = r + 1
      /\ \A i \in 1 .. r : i \in Nat /\ t[i] = told[i + 1] /\ i + 1 \in 1 .. k
  BY WhatIsLeft
<1>2. \A i \in 1 .. k : At(i, n, m, all, told)
  BY DEF Counted
<1>3. \A i \in 0 .. k : n[i] <= n[k] /\ m[i] <= m[k]
  BY DEF Counted
<1>4. n[k] = m[k] + Len(left) /\ \A i \in 1 .. Len(left) : all[m[k] + i] = left[i]
  BY DEF Counted
<1> DEFINE n2 == [i \in Nat |-> n[i + 1]]
           m2 == [i \in Nat |-> m[i + 1]]
<1>5. n2 \in Count /\ \A i \in Nat : n2[i] = n[i + 1]
  BY OneLess
<1>6. m2 \in Count /\ \A i \in Nat : m2[i] = m[i + 1]
  BY OneLess
<1> HIDE DEF k, t, r, n2, m2
<1>7. n2[0] = n[1] /\ m2[0] = m[1] /\ n2[r] = n[k] /\ m2[r] = m[k]
  <2>1. 0 \in Nat /\ 0 + 1 = 1 /\ r \in Nat /\ r + 1 = k
    BY <1>1
  <2> QED
    BY <1>5, <1>6, <2>1
<1>8. ASSUME NEW i \in 1 .. r PROVE At(i, n2, m2, all, t)
  <2>1. i \in Nat /\ i - 1 \in Nat /\ (i - 1) + 1 = i /\ (i + 1) - 1 = i
    BY <1>1
  <2>2. n2[i] = n[i + 1] /\ m2[i] = m[i + 1]
    BY <1>5, <1>6, <2>1
  <2>3. n2[i - 1] = n[i] /\ m2[i - 1] = m[i]
    BY <1>5, <1>6, <2>1
  <2>4. t[i] = told[i + 1] /\ At(i + 1, n, m, all, told)
    BY <1>1, <1>2
  <2> QED
    BY <2>1, <2>2, <2>3, <2>4 DEF At
<1>9. ASSUME NEW i \in 0 .. r PROVE n2[i] <= n2[r] /\ m2[i] <= m2[r]
  <2>1. i \in Nat /\ i + 1 \in 0 .. k
    BY <1>1
  <2>2. n2[i] = n[i + 1] /\ m2[i] = m[i + 1]
    BY <1>5, <1>6, <2>1
  <2> QED
    BY <1>3, <1>7, <2>1, <2>2
<1>10. Counted(n2, m2, all, t, s2, left)
  BY <1>4, <1>7, <1>8, <1>9 DEF Counted, r
<1> QED
  BY <1>5, <1>6, <1>10 DEF Some, t

\* An event that is of no tool is heard.
LEMMA HearOther ==
    ASSUME NEW told \in Seq(SessionEvent), NEW shown \in Seq(Call), NEW left \in Seq(Call),
           Some(told, shown, left), told # <<>>, Head(told).type \notin Tools
    PROVE  Some(Tail(told), shown, left)
<1>1. PICK n \in Count, m \in Count, all \in Listing :
            Counted(n, m, all, told, shown, left)
  BY DEF Some
<1>2. 1 \in 1 .. Len(told) /\ told[1] = Head(told)
  BY WhatIsLeft
<1>3. n[0] = m[0] + Len(shown) /\ (\A i \in 1 .. Len(shown) : all[m[0] + i] = shown[i])
  BY <1>1 DEF Counted
<1>4. At(1, n, m, all, told)
  BY <1>1, <1>2 DEF Counted
<1>5. n[1] = n[0] /\ m[1] = m[0]
  <2>1. 1 - 1 = 0
    OBVIOUS
  <2> QED
    BY <1>2, <1>4, <2>1 DEF At, Tools
<1> QED
  BY <1>1, <1>3, <1>5, HearAny

\* A call is heard: it is shown.
LEMMA HearCall ==
    ASSUME NEW told \in Seq(SessionEvent), NEW shown \in Seq(Call), NEW left \in Seq(Call),
           Some(told, shown, left), told # <<>>, NEW c \in Call,
           Head(told).type = "ToolCall", Head(told).call = c
    PROVE  Some(Tail(told), Append(shown, c), left)
<1>1. PICK n \in Count, m \in Count, all \in Listing :
            Counted(n, m, all, told, shown, left)
  BY DEF Some
<1>0. \A i \in Nat : n[i] \in Nat /\ m[i] \in Nat
  BY NumbersAll
<1>2. 1 \in 1 .. Len(told) /\ told[1] = Head(told)
  BY WhatIsLeft
<1>3. n[0] = m[0] + Len(shown) /\ (\A i \in 1 .. Len(shown) : all[m[0] + i] = shown[i])
  BY <1>1 DEF Counted
<1>4. At(1, n, m, all, told)
  BY <1>1, <1>2 DEF Counted
<1>5. n[1] = n[0] + 1 /\ m[1] = m[0] /\ all[n[1]] = c
  <2>1. 1 - 1 = 0
    OBVIOUS
  <2> QED
    BY <1>2, <1>4, <2>1 DEF At
<1> DEFINE s2 == Append(shown, c)
<1>6. /\ s2 \in Seq(Call) /\ Len(shown) \in Nat /\ Len(s2) = Len(shown) + 1
      /\ (\A i \in 1 .. Len(shown) : s2[i] = shown[i]) /\ s2[Len(shown) + 1] = c
  BY WhatIsAdded, AppendProperties
<1> HIDE DEF s2
<1>7. n[1] = m[1] + Len(s2)
  <2>1. m[0] \in Nat
    BY <1>0
  <2>2. (m[0] + Len(shown)) + 1 = m[0] + (Len(shown) + 1)
    BY <1>6, <2>1, Sums
  <2> QED
    BY <1>3, <1>5, <1>6, <2>2
<1>8. ASSUME NEW i \in 1 .. Len(s2) PROVE all[m[1] + i] = s2[i]
  <2>1. CASE i \in 1 .. Len(shown)
    BY <1>3, <1>5, <1>6, <2>1
  <2>2. CASE i = Len(shown) + 1
    <3>1. m[1] + i = n[1]
      BY <1>5, <1>6, <1>7, <2>2
    <3> QED
      BY <1>5, <1>6, <2>2, <3>1
  <2> QED
    BY <1>6, <2>1, <2>2
<1>9. Some(Tail(told), s2, left)
  <2>1. \A i \in 1 .. Len(s2) : all[m[1] + i] = s2[i]
    BY <1>8
  <2>2. told # <<>> /\ Counted(n, m, all, told, shown, left)
    BY <1>1
  <2>3. s2 \in Seq(Call)
    BY <1>6
  <2> HIDE <1>8
  <2> QED
    BY <1>7, <2>1, <2>2, <2>3, HearAny
<1> QED
  BY <1>9 DEF s2

\* A result is heard: it is that of the call shown first.
LEMMA HearResult ==
    ASSUME NEW told \in Seq(SessionEvent), NEW shown \in Seq(Call), NEW left \in Seq(Call),
           Some(told, shown, left), told # <<>>, Head(told).type = "ToolResult"
    PROVE  /\ shown # <<>>
           /\ Head(shown) = Head(told).call
           /\ Some(Tail(told), Tail(shown), left)
<1>1. PICK n \in Count, m \in Count, all \in Listing :
            Counted(n, m, all, told, shown, left)
  BY DEF Some
<1>0. \A i \in Nat : n[i] \in Nat /\ m[i] \in Nat
  BY NumbersAll
<1>2. 1 \in 1 .. Len(told) /\ told[1] = Head(told)
  BY WhatIsLeft
<1>3. n[0] = m[0] + Len(shown) /\ (\A i \in 1 .. Len(shown) : all[m[0] + i] = shown[i])
  BY <1>1 DEF Counted
<1>4. At(1, n, m, all, told)
  BY <1>1, <1>2 DEF Counted
<1>5. n[1] = n[0] /\ m[1] = m[0] + 1 /\ m[1] <= n[1] /\ all[m[1]] = Head(told).call
  <2>1. 1 - 1 = 0
    OBVIOUS
  <2> QED
    BY <1>2, <1>4, <2>1 DEF At
<1>6. Len(shown) \in Nat /\ Len(shown) > 0
  <2>1. Len(shown) \in Nat
    BY LenProperties
  <2> QED
    BY <1>0, <1>3, <1>5, <2>1
<1>7. shown # <<>>
  BY <1>6, EmptySeq
<1> DEFINE s2 == Tail(shown)
<1>8. /\ s2 \in Seq(Call) /\ Len(s2) = Len(shown) - 1 /\ shown[1] = Head(shown)
      /\ \A i \in 1 .. Len(s2) : i \in Nat /\ s2[i] = shown[i + 1] /\ i + 1 \in 1 .. Len(shown)
  BY <1>7, WhatIsLeft, HeadTailProperties
<1> HIDE DEF s2
<1>9. Head(shown) = Head(told).call
  <2>1. 1 \in 1 .. Len(shown)
    BY <1>6
  <2> QED
    BY <1>3, <1>5, <1>8, <2>1
<1>10. n[1] = m[1] + Len(s2)
  <2>1. m[0] \in Nat
    BY <1>0
  <2> QED
    BY <1>3, <1>5, <1>6, <1>8, <2>1
<1>11. ASSUME NEW i \in 1 .. Len(s2) PROVE all[m[1] + i] = s2[i]
  <2>1. i \in Nat /\ s2[i] = shown[i + 1] /\ i + 1 \in 1 .. Len(shown)
    BY <1>8
  <2>2. all[m[0] + (i + 1)] = shown[i + 1]
    BY <1>3, <2>1
  <2>3. m[0] \in Nat /\ m[0] + (i + 1) = (m[0] + 1) + i
    <3>1. m[0] \in Nat
      BY <1>0
    <3> QED
      BY <2>1, <3>1, Sums
  <2>4. m[0] + (i + 1) = m[1] + i
    BY <1>5, <2>3
  <2> QED
    BY <2>1, <2>2, <2>4
<1>12. Some(Tail(told), s2, left)
  BY <1>1, <1>8, <1>10, <1>11, HearAny
<1> QED
  BY <1>7, <1>9, <1>12 DEF s2

\* Nothing is told, shown or left.
LEMMA NothingToCount == Some(<<>>, <<>>, <<>>)
<1> DEFINE n == [i \in Nat |-> 0]
           all == [i \in Nat |-> NoCall]
<1>1. n \in Count /\ n[0] = 0
  BY DEF Count
<1>2. all \in Listing
  BY DEF Listing
<1> HIDE DEF n, all
<1>3. Counted(n, n, all, <<>>, <<>>, <<>>)
  <2>1. Len(<<>>) = 0
    BY EmptySeq
  <2>2. n[0] = n[0] + 0 /\ n[0] <= n[0] /\ \A i \in 0 .. 0 : i = 0
    BY <1>1
  <2> HIDE DEF n
  <2> QED
    BY <2>1, <2>2 DEF Counted
<1> QED
  BY <1>1, <1>2, <1>3 DEF Some

\* No answer has broken off.
Unbroken == breaks = 0

\* Of an answer that has ended, run_turn has all or will see the end.
Finished ==
    Unbroken /\ turn = "receiving" /\ worker = "gone" =>
        \/ stream = <<>> /\ calls = <<>>
        \/ stream # <<>> /\ stream[Len(stream)].type \in {"Done", "Error"}

\* What is told, what was shown and what is left to be run agree.
Matched == Unbroken => Some(session, pending, calls)

\* An answer that has ended is seen to its end.
LEMMA FinishedStep == Basis /\ Finished /\ [Next]_vars => Finished'
<1> SUFFICES ASSUME Basis, Finished, [Next]_vars PROVE Finished'
  OBVIOUS
<1>1. stream \in Seq(StreamEvent) /\ breaks \in Nat
  BY Facts DEF Basis
<1>2. ASSUME NEW type \in {"Done", "Error"}, Stream(Event(type, NoCall)) PROVE Finished'
  <2> DEFINE e == Event(type, NoCall)
  <2>1. e \in StreamEvent /\ e.type = type
    BY Names DEF Event, StreamType
  <2>2. stream' = Append(stream, e)
    BY <1>2 DEF Stream
  <2> HIDE DEF e
  <2>3. stream' \in Seq(StreamEvent) /\ Len(stream) \in Nat /\ Len(stream') = Len(stream) + 1
        /\ stream'[Len(stream) + 1] = e
    BY <1>1, <2>1, <2>2, WhatIsAdded
  <2>4. stream' # <<>>
    BY <2>3, EmptySeq
  <2>5. stream'[Len(stream')].type \in {"Done", "Error"}
    BY <2>1, <2>3
  <2> QED
    BY <2>4, <2>5 DEF Finished
<1>3. CASE WorkerChunk \/ WorkerBuffers \/ WorkerFinishes \/ WorkerDrains \/ Request
  BY <1>3 DEF Finished, WorkerChunk, WorkerBuffers, WorkerFinishes, WorkerDrains, AfterDrain, Request
<1>4. CASE WorkerEnds
  BY <1>2, <1>4 DEF WorkerEnds
<1>5. CASE WorkerRefused
  BY <1>2, <1>5 DEF WorkerRefused
<1>6. CASE WorkerBreaks
  <2>1. breaks' = breaks + 1 /\ breaks' # 0
    BY <1>1, <1>6 DEF WorkerBreaks
  <2> QED
    BY <2>1 DEF Finished, Unbroken
<1>7. CASE TurnChunk \/ TurnToolCall
  <2>1. /\ turn = "receiving" /\ stream # <<>> /\ stream' = Tail(stream)
        /\ Head(stream).type \notin {"Done", "Error"}
        /\ UNCHANGED <<worker, breaks>>
    BY <1>7 DEF TurnChunk, TurnToolCall, Take, workerVars
  <2>2. /\ Len(stream) \in Nat /\ Head(stream) = stream[1]
        /\ stream' = <<>> <=> Len(stream) = 1
        /\ stream' # <<>> => stream'[Len(stream')] = stream[Len(stream)]
    BY <1>1, <2>1, WhatIsLeft
  <2>3. Unbroken /\ worker = "gone" => stream[Len(stream)].type \in {"Done", "Error"}
    BY <2>1 DEF Finished
  <2>4. Unbroken /\ worker = "gone" => stream' # <<>>
    BY <2>1, <2>2, <2>3
  <2> QED
    BY <2>1, <2>2, <2>3, <2>4 DEF Finished, Unbroken
<1>8. CASE TurnDone \/ TurnError \/ Start
  <2>1. turn' # "receiving"
    BY <1>8 DEF TurnDone, TurnError, Start, turnVars
  <2> QED
    BY <2>1 DEF Finished
<1>9. CASE TurnExecutes
  <2>1. stream = <<>> /\ stream' = stream
    BY <1>9 DEF TurnExecutes, Basis, Stages
  <2>2. turn' = "receiving" => calls' = <<>>
    BY <1>9 DEF TurnExecutes, AfterTool
  <2> QED
    BY <2>1, <2>2 DEF Finished
<1>10. CASE UNCHANGED <<workerVars, stream, turnVars>>
  BY <1>10 DEF Finished, Unbroken, workerVars, turnVars
<1>11. CASE Refuse \/ RelayToken \/ RelayToolCall \/ RelayToolResult \/ RelayDone \/ RelayError
  BY <1>10, <1>11 DEF Refuse, RelayToken, RelayToolCall, RelayToolResult, RelayDone, RelayError
<1>12. CASE UNCHANGED vars
  BY <1>10, <1>12 DEF vars, workerVars, turnVars
<1> QED
  BY <1>3, <1>4, <1>5, <1>6, <1>7, <1>8, <1>9, <1>11, <1>12 DEF Next, WorkerStep, TurnStep, RelayStep

\* Calls and results are told and heard in step.
LEMMA MatchedStep == Basis /\ Finished /\ Matched /\ [Next]_vars => Matched'
<1> SUFFICES ASSUME Basis, Finished, Matched, [Next]_vars, Unbroken'
             PROVE  Some(session', pending', calls')
  BY DEF Matched, Some, Counted, At
<1>1. /\ session \in Seq(SessionEvent) /\ pending \in Seq(Call) /\ calls \in Seq(Call)
      /\ breaks \in Nat /\ stream \in Seq(StreamEvent)
  BY Facts DEF Basis
<1>2. CASE WorkerBreaks
  <2>1. breaks' = breaks + 1 /\ breaks' # 0
    BY <1>1, <1>2 DEF WorkerBreaks
  <2> QED
    BY <2>1 DEF Unbroken
<1>3. breaks' = breaks \/ WorkerBreaks
  BY DEF Next, WorkerStep, TurnStep, RelayStep, WorkerChunk, WorkerBuffers, WorkerFinishes,
         WorkerDrains, WorkerEnds, WorkerRefused, Request, TurnChunk, TurnToolCall, TurnDone,
         TurnError, TurnExecutes, Start, Refuse, RelayToken, RelayToolCall, RelayToolResult,
         RelayDone, RelayError, workerVars, vars
<1> SUFFICES ASSUME Unbroken, Some(session, pending, calls)
             PROVE  Some(session', pending', calls')
  BY <1>2, <1>3 DEF Unbroken, Matched
<1>4. CASE UNCHANGED <<session, pending, calls>>
  BY <1>4
<1>5. CASE WorkerChunk \/ WorkerBuffers \/ WorkerFinishes \/ WorkerDrains \/ WorkerEnds
           \/ WorkerRefused \/ Start \/ Refuse \/ UNCHANGED vars
  BY <1>4, <1>5 DEF WorkerChunk, WorkerBuffers, WorkerFinishes, WorkerDrains, WorkerEnds,
         WorkerRefused, Start, Refuse, turnVars, relayVars, vars
<1>6. CASE Request
  <2>1. calls = <<>>
    BY <1>6 DEF Request, Basis, Stages, Idle, Finished
  <2> QED
    BY <1>4, <1>6, <2>1 DEF Request, FreshCalls, relayVars
<1>7. ASSUME NEW type \in {"Token", "Done", "Error"}, Tell(Event(type, NoCall)),
             UNCHANGED <<pending, calls>>
      PROVE  Some(session', pending', calls')
  <2> DEFINE e == Event(type, NoCall)
  <2>1. e \in SessionEvent /\ e.type \notin Tools
    BY Names DEF Event, SessionType, Tools
  <2>2. session' = Append(session, e)
    BY <1>7 DEF Tell
  <2> HIDE DEF e
  <2>3. Some(Append(session, e), pending, calls)
    BY <1>1, <2>1, TellOther
  <2> QED
    BY <1>7, <2>2, <2>3
<1>8. CASE TurnChunk \/ TurnError
  BY <1>7, <1>8 DEF TurnChunk, TurnError, turnVars, relayVars
<1>9. CASE TurnDone
  BY <1>4, <1>7, <1>9 DEF TurnDone, relayVars
<1>10. CASE TurnToolCall
  <2> DEFINE e == Head(stream)
             c == e.call
  <2>1. stream # <<>> /\ e.type = "ToolCall" /\ session' = Append(session, e)
        /\ calls' = Append(calls, c) /\ pending' = pending
    BY <1>10 DEF TurnToolCall, Take, Tell, relayVars
  <2>2. e \in StreamEvent /\ c \in Call
    BY <1>1, <2>1, WhatIsLeft, Facts DEF Basis
  <2>3. e \in SessionEvent
    BY <2>1, <2>2 DEF StreamEvent, SessionEvent, SessionType
  <2> HIDE DEF e
  <2>4. Some(Append(session, e), pending, Append(calls, c))
    BY <1>1, <2>1, <2>2, <2>3, TellCall
  <2> QED
    BY <2>1, <2>4
<1>11. CASE TurnExecutes
  <2> DEFINE c == Head(calls)
             e == Event("ToolResult", c)
  <2>1. calls # <<>>
    BY <1>11 DEF TurnExecutes, Basis, Types
  <2>2. session' = Append(session, e) /\ calls' = Tail(calls) /\ pending' = pending
    BY <1>11 DEF TurnExecutes, Tell, relayVars
  <2>3. c \in Call
    BY <1>1, <2>1, WhatIsLeft
  <2>4. e \in SessionEvent /\ e.type = "ToolResult" /\ e.call = Head(calls)
    BY <2>3, Names DEF Event
  <2> HIDE DEF e
  <2>5. Some(Append(session, e), pending, Tail(calls))
    BY <1>1, <2>1, <2>4, TellResult
  <2> QED
    BY <2>2, <2>5
<1>12. CASE RelayToken \/ RelayDone \/ RelayError
  <2>1. /\ session # <<>> /\ session' = Tail(session) /\ Head(session).type \notin Tools
        /\ UNCHANGED <<pending, calls>>
    BY <1>12 DEF RelayToken, RelayDone, RelayError, Hear, Tools, turnVars
  <2>2. Some(Tail(session), pending, calls)
    BY <1>1, <2>1, HearOther
  <2> QED
    BY <2>1, <2>2
<1>13. CASE RelayToolCall
  <2> DEFINE c == Head(session).call
  <2>1. /\ session # <<>> /\ session' = Tail(session) /\ Head(session).type = "ToolCall"
        /\ pending' = Append(pending, c) /\ calls' = calls
    BY <1>13 DEF RelayToolCall, Hear, turnVars
  <2>2. c \in Call
    BY <1>1, <2>1, WhatIsLeft, Facts DEF Basis
  <2> HIDE DEF c
  <2>3. Head(session).call = c
    BY DEF c
  <2>4. Some(Tail(session), Append(pending, c), calls)
    BY <1>1, <2>1, <2>2, <2>3, HearCall
  <2> QED
    BY <2>1, <2>4
<1>14. CASE RelayToolResult
  <2>1. /\ session # <<>> /\ session' = Tail(session) /\ Head(session).type = "ToolResult"
        /\ calls' = calls
    BY <1>14 DEF RelayToolResult, Hear, turnVars
  <2>2. pending # <<>> /\ Some(Tail(session), Tail(pending), calls)
    BY <1>1, <2>1, HearResult
  <2>3. pending' = Tail(pending)
    BY <1>14, <2>2 DEF RelayToolResult
  <2> QED
    BY <2>1, <2>2, <2>3
<1> QED
  BY <1>2, <1>5, <1>6, <1>8, <1>9, <1>10, <1>11, <1>12, <1>13, <1>14
     DEF Next, WorkerStep, TurnStep, RelayStep

\* ResultsMatchCalls: as long as no answer has broken off, the client is shown each
\* result with the call it is the result of, though chat_sse only counts them off.
THEOREM ResultsMatchCallsHolds == Spec => []ResultsMatchCalls
<1>1. Init => Basis /\ Finished /\ Matched /\ ResultsMatchCalls
  <2> SUFFICES ASSUME Init PROVE Basis /\ Finished /\ Matched /\ ResultsMatchCalls
    OBVIOUS
  <2>1. session = <<>> /\ pending = <<>> /\ calls = <<>> /\ stream = <<>> /\ sse = <<>>
    BY DEF Init
  <2>2. DOMAIN sse = {}
    BY <2>1
  <2> QED
    BY <2>1, <2>2, BasisInit, NothingToCount DEF Finished, Matched, ResultsMatchCalls, Sent
<1>2. Basis /\ Finished /\ Matched /\ ResultsMatchCalls /\ [Next]_vars
      => (Basis /\ Finished /\ Matched /\ ResultsMatchCalls)'
  <2> SUFFICES ASSUME Basis, Finished, Matched, ResultsMatchCalls, [Next]_vars
               PROVE  ResultsMatchCalls'
    BY BasisStep, FinishedStep, MatchedStep
  <2>1. breaks' = 0 => breaks = 0
    <3>1. breaks' = breaks \/ breaks' = breaks + 1
      BY DEF Next, WorkerStep, TurnStep, RelayStep, WorkerChunk, WorkerBuffers, WorkerFinishes,
             WorkerDrains, WorkerEnds, WorkerBreaks, WorkerRefused, Request, TurnChunk,
             TurnToolCall, TurnDone, TurnError, TurnExecutes, Start, Refuse, RelayToken,
             RelayToolCall, RelayToolResult, RelayDone, RelayError, workerVars, vars
    <3>2. breaks \in Nat
      BY Facts DEF Basis
    <3> QED
      BY <3>1, <3>2
  <2>2. ASSUME NEW i \in DOMAIN sse', sse'[i].type = "TOOL_CALL_END", breaks = 0
        PROVE  sse'[i].call = sse'[i].result
    <3>1. CASE i \in DOMAIN sse
      BY <2>2, <3>1, WhatIsSent DEF ResultsMatchCalls, Sent
    <3>2. CASE NewlySent(sse'[i])
      <4>1. /\ session # <<>> /\ Head(session).type = "ToolResult"
            /\ sse'[i].call = Head(pending) /\ sse'[i].result = Head(session).call
        BY <2>2, <3>2 DEF NewlySent
      <4>2. session \in Seq(SessionEvent) /\ pending \in Seq(Call) /\ calls \in Seq(Call)
        BY Facts DEF Basis
      <4>3. Some(session, pending, calls)
        BY <2>2 DEF Matched, Unbroken
      <4>4. Head(pending) = Head(session).call
        BY <4>1, <4>2, <4>3, HearResult
      <4> QED
        BY <4>1, <4>4
    <3> QED
      BY <3>1, <3>2, WhatIsSent
  <2> QED
    BY <2>1, <2>2 DEF ResultsMatchCalls, Sent
<1> QED
  BY <1>1, <1>2, PTL DEF Spec
=============================================================================
