------------------------ MODULE ServerLifecycleProofs ------------------------
(***************************************************************************)
(* The safety properties of ServerLifecycle, for any number of proxies and *)
(* servers.                                                                *)
(***************************************************************************)
EXTENDS ServerLifecycle, TLAPS, SequenceTheorems

File == Socket \union {"pid"}

ServerRecord ==
    [at : {"none", "spawned", "unnamed", "binding stdin", "binding stdout", "binding stderr",
           "accepting", "serving", "dead"},
     backlog : [Socket -> Seq(Proxies)],
     connection : [Socket -> Proxies \union {Nothing}]]

ProxyRecord ==
    [at : Over \union {"none", "checking", "checked", "killing", "spawning", "waiting",
                       "connecting", "cut"},
     reconnecting : BOOLEAN,
     pid : Servers \union {Nothing},
     remove : Seq(File),
     streams : [Socket -> Servers \union {Nothing, HungUp}],
     up : SUBSET Servers]

\* A server has a connection exactly while it serves it; a proxy that connects
\* has a pid.
ServerFits(x) == x \in ServerRecord /\ (x.at = "serving" => x.connection \in [Socket -> Proxies])
                                    /\ (x.at # "serving" => x.connection = NoStreams)
ProxyFits(x) == x \in ProxyRecord /\ (x.at = "connecting" => x.pid \in Servers)

Types ==
    /\ files \in [File -> Servers \union {Nothing}]
    /\ server \in [Servers -> ServerRecord] /\ \A s \in Servers : ServerFits(server[s])
    /\ proxy \in [Proxies -> ProxyRecord] /\ \A p \in Proxies : ProxyFits(proxy[p])
    /\ crowded \in BOOLEAN

\* The processes that are not there, or have ended.
LEMMA BlankRecords ==
    /\ \A at \in {"none", "spawned", "dead"} : ServerFits(ServerAt(at))
    /\ \A at \in Over \union {"none"} : ProxyFits(ProxyAt(at))
<1>1. <<>> \in Seq(Proxies) /\ <<>> \in Seq(File)
  BY EmptySeq
<1>2. /\ NoStreams \in [Socket -> Proxies \union {Nothing}]
      /\ NoStreams \in [Socket -> Servers \union {Nothing, HungUp}]
  BY DEF NoStreams
<1> QED
  BY <1>1, <1>2 DEF ServerFits, ProxyFits, ServerAt, ProxyAt, ServerRecord, ProxyRecord, Over

\* The types hold in the beginning.
LEMMA TypesInit == Init => Types
<1> SUFFICES ASSUME Init PROVE Types
  OBVIOUS
<1>1. files \in [File -> Servers \union {Nothing}] /\ crowded \in BOOLEAN
  BY DEF Init, File
<1>2. \A s \in Servers : server[s] = ServerAt("none") /\ ServerFits(server[s])
  BY BlankRecords DEF Init
<1>3. \A p \in Proxies : proxy[p] = ProxyAt("none") /\ ProxyFits(proxy[p])
  BY BlankRecords DEF Init
<1>4. server \in [Servers -> ServerRecord]
  BY <1>2 DEF Init, ServerFits
<1>5. proxy \in [Proxies -> ProxyRecord]
  BY <1>3 DEF Init, ProxyFits
<1> QED
  BY <1>1, <1>2, <1>3, <1>4, <1>5 DEF Types

\* Every step of a server keeps the types.
LEMMA ServerTypesStep ==
    ASSUME Types, NEW s \in Servers, ServerStep(s) \/ DropConnection(s) \/ Die(s)
    PROVE  Types'
<1> USE DEF Advance, Exit
<1>1. server[s] \in ServerRecord /\ ServerFits(server[s]) /\ server \in [Servers -> ServerRecord]
  BY DEF Types
<1>2. ASSUME NEW x, ServerFits(x), server' = [server EXCEPT ![s] = x],
             files' \in [File -> Servers \union {Nothing}], UNCHANGED <<proxy, crowded>>
      PROVE  Types'
  <2>1. server' \in [Servers -> ServerRecord] /\ server'[s] = x
        /\ \A t \in Servers \ {s} : server'[t] = server[t]
    BY <1>1, <1>2 DEF ServerFits
  <2>2. \A t \in Servers : ServerFits(server'[t])
    BY <1>2, <2>1 DEF Types
  <2> QED
    BY <1>2, <2>1, <2>2 DEF Types, ServerFits, ProxyFits
<1>3. ASSUME NEW f \in File, NEW pid \in Servers \union {Nothing}
      PROVE  [files EXCEPT ![f] = pid] \in [File -> Servers \union {Nothing}]
  BY <1>3 DEF Types
<1>4. files \in [File -> Servers \union {Nothing}] /\ Socket \subseteq File /\ "pid" \in File
  BY DEF Types, File
<1>5. ASSUME NEW to \in {"unnamed", "binding stdin", "binding stdout", "binding stderr", "accepting"},
             server[s].at # "serving"
      PROVE  ServerFits([server[s] EXCEPT !.at = to])
  BY <1>1, <1>5 DEF ServerFits, ServerRecord
<1>6. CASE RemovePidFile(s)
  <2>1. server' = [server EXCEPT ![s] = [server[s] EXCEPT !.at = "unnamed"]] /\ server[s].at # "serving"
    BY <1>6, <1>1 DEF RemovePidFile
  <2> QED
    BY <1>2, <1>3, <1>4, <1>5, <1>6, <2>1 DEF RemovePidFile
<1>7. CASE WritePidFile(s)
  <2>1. /\ server' = [server EXCEPT ![s] = [server[s] EXCEPT !.at = "binding stdin"]]
        /\ server[s].at # "serving"
    BY <1>7, <1>1 DEF WritePidFile
  <2> QED
    BY <1>2, <1>3, <1>4, <1>5, <1>7, <2>1 DEF WritePidFile, OwnPid
<1>8. ASSUME NEW from \in {"binding stdin", "binding stdout", "binding stderr"},
             NEW to \in {"binding stdout", "binding stderr", "accepting"},
             NEW socket \in Socket, BindSocket(s, from, socket, to)
      PROVE  Types'
  <2>1. server[s].at # "serving" /\ UNCHANGED <<proxy, crowded>>
    BY <1>8 DEF BindSocket
  <2>2. CASE /\ server' = [server EXCEPT ![s].at = to]
             /\ files' = [files EXCEPT ![socket] = s]
    <3>1. server' = [server EXCEPT ![s] = [server[s] EXCEPT !.at = to]]
      BY <1>1, <2>2
    <3> QED
      BY <1>2, <1>3, <1>4, <1>5, <2>1, <2>2, <3>1
  <2>3. CASE Exit(s) /\ UNCHANGED files
    BY <1>2, <1>4, <2>1, <2>3, BlankRecords
  <2> QED
    BY <1>8, <2>2, <2>3 DEF BindSocket
<1>9. CASE Bind(s)
  BY <1>8, <1>9 DEF Bind, Socket
<1>10. CASE Accept(s)
  <2> DEFINE x == [at |-> "serving",
                   backlog |-> [k \in Socket |-> Tail(server[s].backlog[k])],
                   connection |-> [k \in Socket |-> Head(server[s].backlog[k])]]
  <2>1. server' = [server EXCEPT ![s] = x]
    BY <1>10 DEF Accept
  <2>2. \A k \in Socket : server[s].backlog[k] \in Seq(Proxies) /\ server[s].backlog[k] # <<>>
    BY <1>1, <1>10 DEF Accept, Complete, ServerRecord
  <2>3. \A k \in Socket : Head(server[s].backlog[k]) \in Proxies /\ Tail(server[s].backlog[k]) \in Seq(Proxies)
    BY <2>2, HeadTailProperties
  <2>4. ServerFits(x)
    BY <2>3 DEF ServerFits, ServerRecord
  <2> QED
    BY <1>2, <1>4, <1>10, <2>1, <2>4 DEF Accept
<1>11. CASE DropConnection(s)
  <2> DEFINE x == [server[s] EXCEPT !.at = "accepting", !.connection = NoStreams]
  <2>1. server' = [server EXCEPT ![s] = x]
    BY <1>1, <1>11 DEF DropConnection, Dropped
  <2>2. ServerFits(x)
    BY <1>1 DEF ServerFits, ServerRecord, NoStreams
  <2> HIDE DEF x
  <2>3. server' \in [Servers -> ServerRecord] /\ server'[s] = x
        /\ \A t \in Servers \ {s} : server'[t] = server[t]
    BY <1>1, <2>1, <2>2 DEF ServerFits
  <2>4. \A t \in Servers : ServerFits(server'[t])
    BY <2>2, <2>3 DEF Types
  <2>5. \A p \in Proxies : \E y \in [Socket -> Servers \union {Nothing, HungUp}] :
            proxy'[p] = [proxy[p] EXCEPT !.streams = y]
    <3> SUFFICES ASSUME NEW p \in Proxies
                 PROVE  \E y \in [Socket -> Servers \union {Nothing, HungUp}] :
                            proxy'[p] = [proxy[p] EXCEPT !.streams = y]
      OBVIOUS
    <3> DEFINE y == [k \in Socket |-> IF server[s].connection[k] = p /\ proxy[p].streams[k] = s
                                      THEN HungUp ELSE proxy[p].streams[k]]
    <3>1. proxy[p].streams \in [Socket -> Servers \union {Nothing, HungUp}]
      BY DEF Types, ProxyRecord
    <3>2. y \in [Socket -> Servers \union {Nothing, HungUp}]
      BY <3>1
    <3>3. proxy'[p] = [proxy[p] EXCEPT !.streams = y]
      BY <1>11 DEF DropConnection, Types, ProxyRecord
    <3> QED
      BY <3>2, <3>3
  <2>6. \A p \in Proxies : ProxyFits(proxy'[p])
    <3> SUFFICES ASSUME NEW p \in Proxies PROVE ProxyFits(proxy'[p])
      OBVIOUS
    <3> PICK y \in [Socket -> Servers \union {Nothing, HungUp}] : proxy'[p] = [proxy[p] EXCEPT !.streams = y]
      BY <2>5
    <3>1. proxy[p] \in ProxyRecord /\ ProxyFits(proxy[p])
      BY DEF Types
    <3> QED
      BY <3>1 DEF ProxyFits, ProxyRecord
  <2>7. proxy' \in [Proxies -> ProxyRecord]
    BY <1>11, <2>6 DEF DropConnection, ProxyFits
  <2> QED
    BY <1>4, <1>11, <2>3, <2>4, <2>6, <2>7 DEF Types, ServerFits, ProxyFits, DropConnection
<1>12. CASE IdleExit(s) \/ Die(s)
  <2>1. server' = [server EXCEPT ![s] = ServerAt("dead")] /\ UNCHANGED <<files, proxy, crowded>>
    BY <1>12 DEF IdleExit, Die
  <2> QED
    BY <1>2, <1>4, <2>1, BlankRecords
<1> QED
  BY <1>6, <1>7, <1>9, <1>10, <1>11, <1>12 DEF ServerStep

\* Every step of a proxy keeps the types.
LEMMA ProxyTypesStep ==
    ASSUME Types, NEW p \in Proxies, StartProxy(p) \/ ProxyStep(p) \/ KillProxy(p)
    PROVE  Types'
<1> USE DEF Go, End
<1>1. proxy[p] \in ProxyRecord /\ ProxyFits(proxy[p]) /\ proxy \in [Proxies -> ProxyRecord]
  BY DEF Types
<1>2. ASSUME NEW x, ProxyFits(x), proxy' = [proxy EXCEPT ![p] = x],
             files' \in [File -> Servers \union {Nothing}],
             server' \in [Servers -> ServerRecord] /\ \A s \in Servers : ServerFits(server'[s]),
             crowded' \in BOOLEAN
      PROVE  Types'
  <2>1. proxy' \in [Proxies -> ProxyRecord] /\ proxy'[p] = x
        /\ \A q \in Proxies \ {p} : proxy'[q] = proxy[q]
    BY <1>1, <1>2 DEF ProxyFits
  <2>2. \A q \in Proxies : ProxyFits(proxy'[q])
    BY <1>2, <2>1 DEF Types
  <2> QED
    BY <1>2, <2>1, <2>2 DEF Types, ServerFits, ProxyFits
<1>3. ASSUME UNCHANGED <<server, crowded>>
      PROVE  /\ server' \in [Servers -> ServerRecord] /\ \A s \in Servers : ServerFits(server'[s])
             /\ crowded' \in BOOLEAN
  BY <1>3 DEF Types
<1>4. files \in [File -> Servers \union {Nothing}] /\ Socket \subseteq File /\ "pid" \in File
  BY DEF Types, File
<1>5. ASSUME NEW how \in Over, End(p, how), UNCHANGED <<server, crowded>>,
             files' \in [File -> Servers \union {Nothing}]
      PROVE  Types'
  BY <1>2, <1>3, <1>5, BlankRecords
<1>6. CASE StartProxy(p)
  <2> PICK reconnecting \in BOOLEAN :
          proxy' = [proxy EXCEPT ![p].at = "checking", ![p].reconnecting = reconnecting]
    BY <1>6 DEF StartProxy
  <2> DEFINE x == [proxy[p] EXCEPT !.at = "checking", !.reconnecting = reconnecting]
  <2>1. proxy' = [proxy EXCEPT ![p] = x]
    BY <1>1
  <2>2. ProxyFits(x)
    BY <1>1 DEF ProxyFits, ProxyRecord
  <2>3. crowded' \in BOOLEAN
    BY <1>6 DEF StartProxy
  <2>4. UNCHANGED <<files, server>>
    BY <1>6 DEF StartProxy
  <2>5. server' \in [Servers -> ServerRecord] /\ \A s \in Servers : ServerFits(server'[s])
    BY <2>4 DEF Types
  <2> HIDE DEF x
  <2> QED
    BY <1>2, <1>4, <2>1, <2>2, <2>3, <2>4, <2>5
<1>7. CASE ReadPidFile(p)
  <2> DEFINE x == [proxy[p] EXCEPT !.at = "checked", !.pid = files["pid"], !.up = {s \in Servers : Up(s)}]
  <2>1. proxy' = [proxy EXCEPT ![p] = x]
    BY <1>1, <1>7 DEF ReadPidFile
  <2>2. ProxyFits(x)
    BY <1>1, <1>4 DEF ProxyFits, ProxyRecord
  <2> HIDE DEF x
  <2> QED
    BY <1>2, <1>3, <1>4, <1>7, <2>1, <2>2 DEF ReadPidFile
<1>8. CASE Found(p)
  <2> DEFINE to == IF proxy[p].reconnecting THEN "connecting" ELSE "killing"
             x == [proxy[p] EXCEPT !.at = to]
  <2>1. proxy' = [proxy EXCEPT ![p] = x]
    BY <1>1, <1>8 DEF Found
  <2>2. ProxyFits(x)
    BY <1>1, <1>8 DEF Found, Alive, ProxyFits, ProxyRecord
  <2> HIDE DEF x
  <2> QED
    BY <1>2, <1>3, <1>4, <1>8, <2>1, <2>2 DEF Found
<1>9. CASE NotFound(p)
  <2>1. UNCHANGED <<server, crowded>> /\ files' \in [File -> Servers \union {Nothing}]
    BY <1>4, <1>9 DEF NotFound
  <2>2. CASE GoOn(p)
    <3>1. CASE End(p, "not running")
      BY <1>5, <2>1, <3>1 DEF Over
    <3>2. CASE proxy' = [proxy EXCEPT ![p].at = "spawning", ![p].remove = Sockets]
      <4> DEFINE x == [proxy[p] EXCEPT !.at = "spawning", !.remove = Sockets]
      <4>1. proxy' = [proxy EXCEPT ![p] = x]
        BY <1>1, <3>2
      <4>2. Sockets \in Seq(File)
        BY DEF Sockets, File, Socket
      <4>3. ProxyFits(x)
        BY <1>1, <4>2 DEF ProxyFits, ProxyRecord
      <4> HIDE DEF x
      <4> QED
        BY <1>2, <1>3, <2>1, <4>1, <4>3
    <3> QED
      BY <2>2, <3>1, <3>2 DEF GoOn
  <2>3. CASE End(p, "failed")
    BY <1>5, <2>1, <2>3 DEF Over
  <2> QED
    BY <1>9, <2>2, <2>3 DEF NotFound
<1>10. CASE KillServer(p)
  <2> DEFINE x == [proxy[p] EXCEPT !.at = "spawning", !.remove = <<"pid">> \o Sockets \o Sockets]
  <2>1. proxy' = [proxy EXCEPT ![p] = x]
    BY <1>1, <1>10 DEF KillServer
  <2>2. <<"pid">> \o Sockets \o Sockets \in Seq(File)
    <3>1. <<"pid">> \in Seq(File) /\ Sockets \in Seq(File)
      BY DEF Sockets, File, Socket
    <3> QED
      BY <3>1, ConcatProperties
  <2>3. ProxyFits(x)
    BY <1>1, <2>2 DEF ProxyFits, ProxyRecord
  <2>4. server' \in [Servers -> ServerRecord] /\ \A s \in Servers : ServerFits(server'[s])
    <3>1. ServerFits(ServerAt("dead")) /\ ServerAt("dead") \in ServerRecord
      BY BlankRecords DEF ServerFits
    <3>2. server' = server \/ server' = [server EXCEPT ![proxy[p].pid] = ServerAt("dead")]
      BY <1>10 DEF KillServer, Killed
    <3>3. server \in [Servers -> ServerRecord] /\ \A s \in Servers : ServerFits(server[s])
      BY DEF Types
    <3> HIDE DEF ServerFits
    <3> QED
      BY <3>1, <3>2, <3>3
  <2>5. UNCHANGED <<files, crowded>>
    BY <1>10 DEF KillServer
  <2>6. crowded' \in BOOLEAN
    BY <2>5 DEF Types
  <2> HIDE DEF x
  <2> QED
    BY <1>2, <1>4, <2>1, <2>3, <2>4, <2>5, <2>6
<1>11. CASE RemoveFile(p)
  <2> DEFINE x == [proxy[p] EXCEPT !.remove = Tail(proxy[p].remove)]
  <2>1. proxy' = [proxy EXCEPT ![p] = x]
    BY <1>1, <1>11 DEF RemoveFile
  <2>2. proxy[p].remove \in Seq(File) /\ proxy[p].remove # <<>>
    BY <1>1, <1>11 DEF RemoveFile, ProxyRecord
  <2>3. Head(proxy[p].remove) \in File /\ Tail(proxy[p].remove) \in Seq(File)
    BY <2>2, HeadTailProperties
  <2>4. ProxyFits(x)
    BY <1>1, <2>3 DEF ProxyFits, ProxyRecord
  <2>5. files' \in [File -> Servers \union {Nothing}]
    BY <1>4, <1>11, <2>3 DEF RemoveFile
  <2> HIDE DEF x
  <2> QED
    BY <1>2, <1>3, <1>11, <2>1, <2>4, <2>5 DEF RemoveFile
<1>12. CASE Spawn(p)
  <2> DEFINE x == [proxy[p] EXCEPT !.at = "waiting"]
  <2>1. proxy' = [proxy EXCEPT ![p] = x]
    BY <1>1, <1>12 DEF Spawn
  <2>2. ProxyFits(x)
    BY <1>1 DEF ProxyFits, ProxyRecord
  <2>3. server' \in [Servers -> ServerRecord] /\ \A s \in Servers : ServerFits(server'[s])
    <3> PICK s \in Servers : Advance(s, "none", "spawned")
      BY <1>12 DEF Spawn
    <3>1. server[s] \in ServerRecord /\ ServerFits(server[s])
      BY DEF Types
    <3>2. ServerFits([server[s] EXCEPT !.at = "spawned"])
      BY <3>1 DEF Advance, ServerFits, ServerRecord
    <3>3. server' = [server EXCEPT ![s] = [server[s] EXCEPT !.at = "spawned"]]
      BY <3>1 DEF Advance
    <3>4. \A t \in Servers : server'[t] = IF t = s THEN [server[s] EXCEPT !.at = "spawned"] ELSE server[t]
      BY <3>3 DEF Types
    <3>5. \A t \in Servers : ServerFits(server'[t])
      <4> HIDE DEF ServerFits
      <4> QED
        BY <3>2, <3>4 DEF Types
    <3> QED
      BY <3>3, <3>5 DEF Types, ServerFits
  <2>4. UNCHANGED <<files, crowded>>
    BY <1>12 DEF Spawn
  <2>5. crowded' \in BOOLEAN
    BY <2>4 DEF Types
  <2> HIDE DEF x
  <2> QED
    BY <1>2, <1>4, <2>1, <2>2, <2>3, <2>4, <2>5
<1>13. CASE Ready(p)
  <2>1. UNCHANGED <<files, server, crowded>>
    BY <1>13 DEF Ready
  <2>2. CASE End(p, "failed")
    BY <1>4, <1>5, <2>1, <2>2 DEF Over
  <2>3. CASE SpawnedPid(p) # Nothing /\ proxy' = [proxy EXCEPT ![p].at = "connecting", ![p].pid = SpawnedPid(p)]
    <3> DEFINE x == [proxy[p] EXCEPT !.at = "connecting", !.pid = SpawnedPid(p)]
    <3>1. proxy' = [proxy EXCEPT ![p] = x]
      BY <1>1, <2>3
    <3>2. SpawnedPid(p) \in Servers
      BY <1>4, <2>3 DEF SpawnedPid
    <3>3. ProxyFits(x)
      BY <1>1, <3>2 DEF ProxyFits, ProxyRecord
    <3> HIDE DEF x
    <3> QED
      BY <1>2, <1>3, <1>4, <2>1, <3>1, <3>3
  <2> QED
    BY <1>13, <2>2, <2>3 DEF Ready
<1>14. ASSUME NEW k \in Socket, Connect(p, k) PROVE Types'
  <2> DEFINE x == [proxy[p] EXCEPT !.streams = [proxy[p].streams EXCEPT ![k] = files[k]]]
             s == files[k]
             queue == Append(server[s].backlog[k], p)
             y == [server[s] EXCEPT !.backlog = [server[s].backlog EXCEPT ![k] = queue]]
  <2>1. s \in Servers /\ server[s] \in ServerRecord /\ ServerFits(server[s])
    BY <1>14 DEF Connect, Alive, Types
  <2>2. proxy' = [proxy EXCEPT ![p] = x] /\ server' = [server EXCEPT ![s] = y]
    BY <1>1, <1>14, <2>1 DEF Connect
  <2>3. ProxyFits(x)
    BY <1>1, <2>1 DEF ProxyFits, ProxyRecord
  <2>4. ServerFits(y)
    <3>1. server[s].backlog \in [Socket -> Seq(Proxies)] /\ Append(server[s].backlog[k], p) \in Seq(Proxies)
      BY <2>1, AppendProperties DEF ServerRecord
    <3> QED
      BY <2>1, <3>1 DEF ServerFits, ServerRecord
  <2>5. UNCHANGED <<files, crowded>>
    BY <1>14 DEF Connect
  <2> HIDE DEF x, y
  <2>6. server' \in [Servers -> ServerRecord] /\ \A t \in Servers : ServerFits(server'[t])
    <3>1. y \in ServerRecord
      BY <2>4 DEF ServerFits
    <3>2. server \in [Servers -> ServerRecord] /\ \A t \in Servers : ServerFits(server[t])
      BY DEF Types
    <3> HIDE DEF s
    <3> QED
      BY <2>1, <2>2, <2>4, <3>1, <3>2
  <2>7. crowded' \in BOOLEAN
    BY <2>5 DEF Types
  <2> QED
    BY <1>2, <1>4, <2>2, <2>3, <2>5, <2>6, <2>7
<1>15. CASE Cut(p)
  <2> DEFINE x == [proxy[p] EXCEPT !.at = "cut"]
  <2>1. proxy' = [proxy EXCEPT ![p] = x]
    BY <1>1, <1>15 DEF Cut
  <2>2. ProxyFits(x)
    BY <1>1 DEF ProxyFits, ProxyRecord
  <2> HIDE DEF x
  <2> QED
    BY <1>2, <1>3, <1>4, <1>15, <2>1, <2>2 DEF Cut
<1>16. CASE SpawnTimeout(p) \/ Verify(p) \/ KillProxy(p)
  BY <1>4, <1>5, <1>16 DEF SpawnTimeout, Verify, KillProxy, Over
<1> QED
  BY <1>6, <1>7, <1>8, <1>9, <1>10, <1>11, <1>12, <1>13, <1>14, <1>15, <1>16 DEF ProxyStep

\* Every step keeps the types.
LEMMA TypesStep == Types /\ [Next]_vars => Types'
<1> SUFFICES ASSUME Types, [Next]_vars PROVE Types'
  OBVIOUS
<1>1. CASE UNCHANGED vars
  BY <1>1 DEF Types, vars, ServerFits, ProxyFits
<1> QED
  BY <1>1, ServerTypesStep, ProxyTypesStep DEF Next

\* The types hold in every state.
LEMMA TypesHold == Spec => []Types
  BY TypesInit, TypesStep, PTL DEF Spec

\* The files, the processes and what they hold have their types.
THEOREM TypeCorrect == Spec => []TypeOK
<1>1. Types => TypeOK
  <2> SUFFICES ASSUME Types PROVE TypeOK
    OBVIOUS
  <2>1. \A s \in Servers : server[s] \in ServerRecord /\ ServerFits(server[s])
    BY DEF Types
  <2>2. \A p \in Proxies : proxy[p] \in ProxyRecord /\ ProxyFits(proxy[p])
    BY DEF Types
  <2>3. ASSUME NEW s \in Servers
        PROVE  /\ server[s].at \in {"none", "spawned", "unnamed", "binding stdin", "binding stdout",
                                   "binding stderr", "accepting", "serving", "dead"}
               /\ \A k \in Socket : server[s].backlog[k] \in Seq(Proxies)
               /\ server[s].connection \in
                    IF server[s].at = "serving" THEN [Socket -> Proxies] ELSE {NoStreams}
    <3>1. server[s].backlog \in [Socket -> Seq(Proxies)]
      BY <2>1 DEF ServerRecord
    <3>2. \A k \in Socket : server[s].backlog[k] \in Seq(Proxies)
      BY <3>1
    <3>3. /\ server[s].at = "serving" => server[s].connection \in [Socket -> Proxies]
          /\ server[s].at # "serving" => server[s].connection = NoStreams
      BY <2>1 DEF ServerFits
    <3>4. server[s].at \in {"none", "spawned", "unnamed", "binding stdin", "binding stdout",
                            "binding stderr", "accepting", "serving", "dead"}
      BY <2>1 DEF ServerRecord
    <3> QED
      BY <3>2, <3>3, <3>4
  <2>4. ASSUME NEW p \in Proxies
        PROVE  /\ proxy[p].at \in Over \union {"none", "checking", "checked", "killing", "spawning",
                                               "waiting", "connecting", "cut"}
               /\ proxy[p].at = "connecting" => proxy[p].pid \in Servers
               /\ proxy[p].streams \in [Socket -> Servers \union {Nothing, HungUp}]
               /\ proxy[p].up \subseteq Servers
    BY <2>2 DEF ProxyFits, ProxyRecord
  <2>5. files \in [Socket \union {"pid"} -> Servers \union {Nothing}] /\ crowded \in BOOLEAN
    BY DEF Types, File
  <2> QED
    BY <2>3, <2>4, <2>5 DEF TypeOK
<1> QED
  BY <1>1, TypesHold, PTL

-----------------------------------------------------------------------------
(***************************************************************************)
(* A calm host, on which no proxy was started while another or a server    *)
(* was still starting.                                                     *)
(***************************************************************************)

\* The proxy is on its way to its server.
Busy(p) ==
    \/ proxy[p].at \in {"checking", "checked", "killing", "spawning", "waiting"}
    \/ proxy[p].at = "connecting" /\ \E k \in Socket : proxy[p].streams[k] = Nothing

OneIsBusy == \A p, q \in Proxies : Busy(p) /\ Busy(q) => p = q

StartIsAwaited ==
    (\E s \in Servers : Starting(s)) => \A p \in Proxies : Busy(p) => proxy[p].at = "waiting"

OneIsAlive == \A s, t \in Servers : Alive(s) /\ Alive(t) => s = t

\* A server finds no files and makes them one after the other.
FilesAreOf(s) ==
    /\ files["pid"] = IF server[s].at \in {"spawned", "unnamed"} THEN Nothing ELSE s
    /\ files["stdin"] = IF server[s].at \in {"spawned", "unnamed", "binding stdin"} THEN Nothing ELSE s
    /\ files["stdout"] = IF Up(s) \/ server[s].at = "binding stderr" THEN s ELSE Nothing
    /\ files["stderr"] = IF Up(s) THEN s ELSE Nothing

FilesAreOfTheServer == \A s \in Servers : Alive(s) => FilesAreOf(s)

\* The pid that was read is still the one in the file.
PidIsRight(p) ==
    proxy[p].at \in {"checked", "killing"} \/ (Busy(p) /\ proxy[p].at = "connecting")
        => files["pid"] = proxy[p].pid

\* The files that are there when the server is spawned are those to be removed.
WayIsFree(p) ==
    proxy[p].at = "spawning" =>
        /\ \A s \in Servers : ~ Alive(s)
        /\ \A f \in File : files[f] # Nothing =>
               \E i \in DOMAIN proxy[p].remove : proxy[p].remove[i] = f

\* A proxy has no streams before it connects, and then only to the server whose
\* pid it has.
StreamsAreRight(p) ==
    \A k \in Socket :
        /\ proxy[p].at = "connecting" => proxy[p].streams[k] \in {proxy[p].pid, Nothing, HungUp}
        /\ proxy[p].at \in {"none", "checking", "checked", "killing", "spawning", "waiting"} =>
               proxy[p].streams[k] = Nothing

ProxiesAreRight == \A p \in Proxies : PidIsRight(p) /\ WayIsFree(p) /\ StreamsAreRight(p)

Calm ==
    /\ OneIsBusy
    /\ StartIsAwaited
    /\ OneIsAlive
    /\ FilesAreOfTheServer
    /\ ProxiesAreRight

\* A proxy goes on, and the servers that live stand where they stood: the host
\* stays calm when the proxy's own part of the invariant holds.
LEMMA OneProxyMoves ==
    ASSUME Types, Calm, NEW p \in Proxies,
           \A q \in Proxies : q # p => proxy'[q] = proxy[q],
           \A s \in Servers : Alive(s)' => server'[s].at = server[s].at,
           Busy(p)' => Busy(p),
           Busy(p)' /\ (\E s \in Servers : Starting(s)) => proxy'[p].at = "waiting",
           files' = files \/ (Busy(p) /\ \A s \in Servers : ~ Alive(s)),
           PidIsRight(p)', WayIsFree(p)', StreamsAreRight(p)'
    PROVE  Calm'
<1>1. \A q \in Proxies : q # p => (Busy(q)' <=> Busy(q))
  BY DEF Busy
<1>2. OneIsBusy'
  BY <1>1 DEF Calm, OneIsBusy
<1>3. \A s \in Servers : (Alive(s)' => Alive(s) /\ (Up(s)' <=> Up(s))) /\ (Starting(s)' => Starting(s))
  BY DEF Alive, Starting, Up
<1>4. StartIsAwaited'
  BY <1>1, <1>3 DEF Calm, StartIsAwaited
<1>5. OneIsAlive'
  BY <1>3 DEF Calm, OneIsAlive
<1>6. FilesAreOfTheServer'
  <2> SUFFICES ASSUME NEW s \in Servers, Alive(s)' PROVE FilesAreOf(s)'
    BY DEF FilesAreOfTheServer
  <2>1. Alive(s) /\ files' = files
    BY <1>3
  <2>2. FilesAreOf(s)
    BY <2>1 DEF Calm, FilesAreOfTheServer
  <2> QED
    BY <2>1, <2>2 DEF FilesAreOf, Up
<1>7. ASSUME NEW q \in Proxies, q # p PROVE PidIsRight(q)' /\ WayIsFree(q)' /\ StreamsAreRight(q)'
  <2>1. PidIsRight(q) /\ WayIsFree(q) /\ StreamsAreRight(q)
    BY DEF Calm, ProxiesAreRight
  <2>2. Busy(q) => files' = files
    BY <1>7 DEF Calm, OneIsBusy
  <2>3. proxy[q].at \in {"checked", "killing", "spawning"} => Busy(q)
    BY DEF Busy
  <2>4. PidIsRight(q)'
    BY <1>1, <1>7, <2>1, <2>2, <2>3 DEF PidIsRight
  <2>5. WayIsFree(q)'
    BY <1>3, <1>7, <2>1, <2>2, <2>3 DEF WayIsFree
  <2>6. StreamsAreRight(q)'
    BY <1>7, <2>1 DEF StreamsAreRight
  <2> QED
    BY <2>4, <2>5, <2>6
<1>8. ProxiesAreRight'
  BY <1>7 DEF ProxiesAreRight
<1> QED
  BY <1>2, <1>4, <1>5, <1>6, <1>8 DEF Calm

\* A server goes on, and changes files only while it starts.
LEMMA OneServerMoves ==
    ASSUME Types, Calm, NEW s \in Servers,
           \A t \in Servers : t # s => server'[t] = server[t],
           UNCHANGED proxy,
           files' = files \/ Starting(s),
           Alive(s)' => Alive(s) /\ FilesAreOf(s)',
           Starting(s)' => Starting(s)
    PROVE  Calm'
<1>1. \A t \in Servers : (Alive(t)' => Alive(t)) /\ (Starting(t)' => Starting(t))
  BY DEF Alive, Starting, Up
<1>2. \A p \in Proxies : Busy(p)' <=> Busy(p)
  BY DEF Busy
<1>3. OneIsBusy' /\ StartIsAwaited'
  BY <1>1, <1>2 DEF Calm, OneIsBusy, StartIsAwaited
<1>4. OneIsAlive'
  BY <1>1 DEF Calm, OneIsAlive
<1>5. FilesAreOfTheServer'
  <2> SUFFICES ASSUME NEW t \in Servers, Alive(t)' PROVE FilesAreOf(t)'
    BY DEF FilesAreOfTheServer
  <2>1. CASE t = s
    BY <2>1
  <2>2. CASE t # s
    <3>1. Alive(t) /\ ~ Starting(s)
      BY <1>1, <2>2 DEF Calm, OneIsAlive, Starting
    <3>2. server'[t] = server[t] /\ files' = files
      BY <2>2, <3>1
    <3>3. FilesAreOf(t)
      BY <3>1 DEF Calm, FilesAreOfTheServer
    <3>4. FilesAreOf(t)' <=> FilesAreOf(t)
      BY <3>2 DEF FilesAreOf, Up
    <3> QED
      BY <3>3, <3>4
  <2> QED
    BY <2>1, <2>2
<1>6. ASSUME NEW p \in Proxies PROVE PidIsRight(p)' /\ WayIsFree(p)' /\ StreamsAreRight(p)'
  <2>1. PidIsRight(p) /\ WayIsFree(p) /\ StreamsAreRight(p)
    BY DEF Calm, ProxiesAreRight
  <2>2. Starting(s) => ~ Busy(p) \/ proxy[p].at = "waiting"
    BY DEF Calm, StartIsAwaited
  <2>3. proxy[p].at \in {"checked", "killing", "spawning"} => Busy(p)
    BY DEF Busy
  <2>4. PidIsRight(p)'
    BY <1>2, <2>1, <2>2, <2>3 DEF PidIsRight
  <2>5. WayIsFree(p)'
    BY <1>1, <2>1, <2>2, <2>3 DEF WayIsFree
  <2>6. StreamsAreRight(p)'
    BY <2>1 DEF StreamsAreRight
  <2> QED
    BY <2>4, <2>5, <2>6
<1>7. ProxiesAreRight'
  BY <1>6 DEF ProxiesAreRight
<1> QED
  BY <1>3, <1>4, <1>5, <1>7 DEF Calm

\* A calm host stays calm when a server goes on.
LEMMA ServerKeepsCalm ==
    ASSUME Types, Calm, NEW s \in Servers, ServerStep(s) \/ DropConnection(s) \/ Die(s)
    PROVE  Calm'
<1> USE DEF Advance, Exit
<1>1. server \in [Servers -> ServerRecord] /\ server[s] \in ServerRecord
  BY DEF Types
<1>2. files \in [File -> Servers \union {Nothing}] /\ File = {"stdin", "stdout", "stderr", "pid"}
  BY DEF Types, File, Socket
<1>3. Alive(s) => FilesAreOf(s)
  BY DEF Calm, FilesAreOfTheServer
\* It exits.
<1>4. ASSUME server' = [server EXCEPT ![s] = ServerAt("dead")], UNCHANGED <<files, proxy>>
      PROVE  Calm'
  <2>1. server'[s].at = "dead" /\ \A t \in Servers : t # s => server'[t] = server[t]
    BY <1>1, <1>4 DEF ServerAt
  <2>2. ~ Alive(s)' /\ ~ Starting(s)'
    BY <2>1 DEF Alive, Starting
  <2> QED
    BY <1>4, <2>1, <2>2, OneServerMoves
<1>5. ASSUME NEW to, server' = [server EXCEPT ![s].at = to]
      PROVE  server'[s].at = to /\ \A t \in Servers : t # s => server'[t] = server[t]
  BY <1>1, <1>5 DEF ServerRecord
<1>6. CASE RemovePidFile(s)
  <2>1. /\ server[s].at = "spawned" /\ server'[s].at = "unnamed"
        /\ \A t \in Servers : t # s => server'[t] = server[t]
        /\ files' = [files EXCEPT !["pid"] = Nothing] /\ UNCHANGED proxy
    BY <1>5, <1>6 DEF RemovePidFile
  <2>2. Alive(s) /\ Starting(s) /\ FilesAreOf(s)'
    BY <1>2, <1>3, <2>1 DEF Alive, Starting, Up, FilesAreOf
  <2> QED
    BY <2>1, <2>2, OneServerMoves
<1>7. CASE WritePidFile(s)
  <2>1. /\ server[s].at = "unnamed" /\ server'[s].at = "binding stdin"
        /\ \A t \in Servers : t # s => server'[t] = server[t]
        /\ files' = [files EXCEPT !["pid"] = s] /\ UNCHANGED proxy
    BY <1>5, <1>7 DEF WritePidFile, OwnPid
  <2>2. Alive(s) /\ Starting(s) /\ FilesAreOf(s)'
    BY <1>2, <1>3, <2>1 DEF Alive, Starting, Up, FilesAreOf
  <2> QED
    BY <2>1, <2>2, OneServerMoves
<1>8. ASSUME NEW from, NEW socket, NEW to, BindSocket(s, from, socket, to),
             \/ from = "binding stdin" /\ socket = "stdin" /\ to = "binding stdout"
             \/ from = "binding stdout" /\ socket = "stdout" /\ to = "binding stderr"
             \/ from = "binding stderr" /\ socket = "stderr" /\ to = "accepting"
      PROVE  Calm'
  <2>1. server[s].at = from /\ UNCHANGED proxy
    BY <1>8 DEF BindSocket
  <2>2. CASE server' = [server EXCEPT ![s].at = to] /\ files' = [files EXCEPT ![socket] = s]
    <3>1. server'[s].at = to /\ \A t \in Servers : t # s => server'[t] = server[t]
      BY <1>5, <2>2
    <3>2. Alive(s) /\ Starting(s)
      BY <1>8, <2>1 DEF Alive, Starting, Up
    <3>3. FilesAreOf(s)'
      BY <1>2, <1>3, <1>8, <2>1, <2>2, <3>1, <3>2 DEF Up, FilesAreOf
    <3> QED
      BY <2>1, <3>1, <3>2, <3>3, OneServerMoves
  <2>3. CASE Exit(s) /\ UNCHANGED files
    BY <1>4, <2>1, <2>3
  <2> QED
    BY <1>8, <2>2, <2>3 DEF BindSocket
<1>9. CASE Bind(s)
  BY <1>8, <1>9 DEF Bind
<1>10. CASE Accept(s)
  <2>1. /\ server[s].at = "accepting" /\ server'[s].at = "serving" /\ UNCHANGED <<files, proxy>>
        /\ \A t \in Servers : t # s => server'[t] = server[t]
    BY <1>1, <1>10 DEF Accept
  <2>2. Alive(s) /\ ~ Starting(s)' /\ FilesAreOf(s)'
    BY <1>3, <2>1 DEF Alive, Starting, Up, FilesAreOf
  <2> QED
    BY <2>1, <2>2, OneServerMoves
<1>11. CASE DropConnection(s)
  <2>1. /\ server[s].at = "serving" /\ server'[s].at = "accepting" /\ UNCHANGED files
        /\ \A t \in Servers : t # s => server'[t] = server[t]
    BY <1>1, <1>11 DEF DropConnection, Dropped, ServerRecord
  <2>2. \A p \in Proxies :
            /\ proxy'[p].at = proxy[p].at /\ proxy'[p].pid = proxy[p].pid
            /\ proxy'[p].remove = proxy[p].remove
            /\ \A k \in Socket : proxy'[p].streams[k] = proxy[p].streams[k]
                                 \/ (proxy[p].streams[k] = s /\ proxy'[p].streams[k] = HungUp)
    BY <1>11 DEF DropConnection, Types, ProxyRecord
  <2>3. s # Nothing /\ HungUp # Nothing
    BY NamesAssumption DEF Nothing, HungUp
  <2>4. \A p \in Proxies : Busy(p)' <=> Busy(p)
    BY <2>2, <2>3 DEF Busy
  <2>5. \A t \in Servers : (Alive(t)' <=> Alive(t)) /\ (Starting(t)' <=> Starting(t)) /\ (Up(t)' <=> Up(t))
    BY <2>1 DEF Alive, Starting, Up
  <2>6. OneIsBusy' /\ StartIsAwaited' /\ OneIsAlive'
    BY <2>2, <2>4, <2>5 DEF Calm, OneIsBusy, StartIsAwaited, OneIsAlive
  <2>7. FilesAreOfTheServer'
    <3>1. \A t \in Servers : FilesAreOf(t) => FilesAreOf(t)'
      BY <2>1, <2>5 DEF FilesAreOf
    <3> QED
      BY <2>5, <3>1 DEF Calm, FilesAreOfTheServer
  <2>8. ProxiesAreRight'
    <3> SUFFICES ASSUME NEW p \in Proxies PROVE PidIsRight(p)' /\ WayIsFree(p)' /\ StreamsAreRight(p)'
      BY DEF ProxiesAreRight
    <3>1. PidIsRight(p) /\ WayIsFree(p) /\ StreamsAreRight(p)
      BY DEF Calm, ProxiesAreRight
    <3>2. PidIsRight(p)'
      BY <2>1, <2>2, <2>4, <3>1 DEF PidIsRight
    <3>3. WayIsFree(p)'
      BY <2>1, <2>2, <2>5, <3>1 DEF WayIsFree
    <3>4. StreamsAreRight(p)'
      BY <2>2, <2>3, <3>1 DEF StreamsAreRight
    <3> QED
      BY <3>2, <3>3, <3>4
  <2> QED
    BY <2>6, <2>7, <2>8 DEF Calm
<1>12. CASE IdleExit(s) \/ Die(s)
  BY <1>4, <1>12 DEF IdleExit, Die
<1> QED
  BY <1>6, <1>7, <1>9, <1>10, <1>11, <1>12 DEF ServerStep

\* What is not first in a list is in the rest of it.
LEMMA Rest ==
    ASSUME NEW S, NEW q \in Seq(S), q # <<>>
    PROVE  \A i \in DOMAIN q : q[i] = Head(q) \/ \E j \in DOMAIN Tail(q) : Tail(q)[j] = q[i]
<1>1. Len(q) \in Nat /\ DOMAIN q = 1 .. Len(q) /\ Head(q) = q[1]
  BY LenProperties
<1>2. DOMAIN Tail(q) = 1 .. (Len(q) - 1) /\ \A j \in 1 .. (Len(q) - 1) : Tail(q)[j] = q[j + 1]
  BY <1>1, HeadTailProperties, LenProperties
<1>3. ASSUME NEW i \in DOMAIN q, i # 1 PROVE i - 1 \in DOMAIN Tail(q) /\ Tail(q)[i - 1] = q[i]
  BY <1>1, <1>2, <1>3
<1> QED
  BY <1>1, <1>3

\* What is in one of two lists is in both together.
LEMMA Joined ==
    ASSUME NEW S, NEW a \in Seq(S), NEW b \in Seq(S)
    PROVE  /\ a \o b \in Seq(S)
           /\ \A i \in DOMAIN a : i \in DOMAIN (a \o b) /\ (a \o b)[i] = a[i]
           /\ \A i \in DOMAIN b : Len(a) + i \in DOMAIN (a \o b) /\ (a \o b)[Len(a) + i] = b[i]
<1>1. /\ a \o b \in Seq(S) /\ Len(a) \in Nat /\ Len(b) \in Nat
      /\ DOMAIN a = 1 .. Len(a) /\ DOMAIN b = 1 .. Len(b)
      /\ DOMAIN (a \o b) = 1 .. (Len(a) + Len(b))
      /\ \A i \in 1 .. (Len(a) + Len(b)) : (a \o b)[i] = IF i <= Len(a) THEN a[i] ELSE b[i - Len(a)]
  BY ConcatProperties, LenProperties
<1>2. ASSUME NEW i \in DOMAIN a PROVE i \in DOMAIN (a \o b) /\ (a \o b)[i] = a[i]
  BY <1>1, <1>2
<1>3. ASSUME NEW i \in DOMAIN b
      PROVE  Len(a) + i \in DOMAIN (a \o b) /\ (a \o b)[Len(a) + i] = b[i]
  BY <1>1, <1>3
<1> QED
  BY <1>1, <1>2, <1>3

\* kill_running_server and spawn_server remove every file.
LEMMA AllIsListed ==
    /\ \A f \in Socket : \E i \in DOMAIN Sockets : Sockets[i] = f
    /\ \A f \in File : \E i \in DOMAIN (<<"pid">> \o Sockets \o Sockets) :
           (<<"pid">> \o Sockets \o Sockets)[i] = f
<1>1. Sockets \in Seq(File) /\ <<"pid">> \in Seq(File)
  BY DEF Sockets, File, Socket
<1>2. \A f \in Socket : \E i \in DOMAIN Sockets : Sockets[i] = f
  <2>1. /\ 1 \in DOMAIN Sockets /\ 2 \in DOMAIN Sockets /\ 3 \in DOMAIN Sockets
        /\ Sockets[1] = "stdin" /\ Sockets[2] = "stdout" /\ Sockets[3] = "stderr"
    BY DEF Sockets
  <2> QED
    BY <2>1 DEF Socket
<1>3. \E i \in DOMAIN <<"pid">> : <<"pid">>[i] = "pid"
  <2>1. 1 \in DOMAIN <<"pid">> /\ <<"pid">>[1] = "pid"
    OBVIOUS
  <2> QED
    BY <2>1
<1> DEFINE first == <<"pid">> \o Sockets
<1>4. first \in Seq(File) /\ \E i \in DOMAIN first : first[i] = "pid"
  <2> DEFINE pid == <<"pid">>
  <2>1. pid \in Seq(File) /\ \E i \in DOMAIN pid : pid[i] = "pid"
    BY <1>1, <1>3
  <2> HIDE DEF pid
  <2>2. pid \o Sockets \in Seq(File) /\ \E i \in DOMAIN (pid \o Sockets) : (pid \o Sockets)[i] = "pid"
    BY <1>1, <2>1, Joined
  <2> QED
    BY <2>2 DEF pid
<1> HIDE DEF first
<1>5. \A f \in File : (\E i \in DOMAIN first : first[i] = f) \/ (\E i \in DOMAIN Sockets : Sockets[i] = f)
  BY <1>2, <1>4 DEF File
<1>6. ASSUME NEW f \in File PROVE \E i \in DOMAIN (first \o Sockets) : (first \o Sockets)[i] = f
  <2>1. (\E i \in DOMAIN first : first[i] = f) \/ (\E i \in DOMAIN Sockets : Sockets[i] = f)
    BY <1>5
  <2>2. first \in Seq(File) /\ Sockets \in Seq(File)
    BY <1>1, <1>4
  <2> QED
    <3>1. /\ \A i \in DOMAIN first : i \in DOMAIN (first \o Sockets) /\ (first \o Sockets)[i] = first[i]
          /\ \A i \in DOMAIN Sockets : /\ Len(first) + i \in DOMAIN (first \o Sockets)
                                      /\ (first \o Sockets)[Len(first) + i] = Sockets[i]
      BY <2>2, Joined
    <3> QED
      BY <2>1, <3>1
<1> QED
  BY <1>2, <1>6 DEF first

\* A calm host stays calm when a proxy goes on, or one is started that finds no
\* other on its way.
LEMMA ProxyKeepsCalm ==
    ASSUME Types, Calm, NEW p \in Proxies, StartProxy(p) \/ ProxyStep(p) \/ KillProxy(p), ~ crowded'
    PROVE  Calm'
<1> USE DEF Go, End
<1>1. proxy \in [Proxies -> ProxyRecord] /\ proxy[p] \in ProxyRecord
  BY DEF Types
<1>2. PidIsRight(p) /\ WayIsFree(p) /\ StreamsAreRight(p)
  BY DEF Calm, ProxiesAreRight
<1>3. ASSUME NEW x, proxy' = [proxy EXCEPT ![p] = x]
      PROVE  proxy'[p] = x /\ \A q \in Proxies : q # p => proxy'[q] = proxy[q]
  BY <1>1, <1>3
\* The proxy is no more on its way, or as it was.
<1>4. ASSUME NEW x, proxy' = [proxy EXCEPT ![p] = x], UNCHANGED server,
             x.at \in Over \union {"cut"},
             files' = files \/ (Busy(p) /\ \A s \in Servers : ~ Alive(s))
      PROVE  Calm'
  <2>1. proxy'[p] = x /\ \A q \in Proxies : q # p => proxy'[q] = proxy[q]
    BY <1>3, <1>4
  <2>2. ~ Busy(p)' /\ PidIsRight(p)' /\ WayIsFree(p)' /\ StreamsAreRight(p)'
    BY <1>4, <2>1 DEF Busy, PidIsRight, WayIsFree, StreamsAreRight, Over
  <2> QED
    BY <1>4, <2>1, <2>2, OneProxyMoves
<1>5. ASSUME NEW how \in Over, End(p, how), UNCHANGED server,
             files' = files \/ (Busy(p) /\ \A s \in Servers : ~ Alive(s))
      PROVE  Calm'
  BY <1>4, <1>5 DEF ProxyAt
<1>6. proxy[p].at \in {"checking", "checked", "killing", "spawning"} =>
          Busy(p) /\ \A s \in Servers : ~ Starting(s)
  BY DEF Calm, StartIsAwaited, Busy
<1>7. CASE StartProxy(p)
  <2>1. /\ proxy[p].at = "none" /\ proxy'[p].at = "checking" /\ UNCHANGED <<files, server>>
        /\ proxy'[p].streams = proxy[p].streams
        /\ \A q \in Proxies : q # p => proxy'[q] = proxy[q]
    <3> PICK reconnecting \in BOOLEAN :
            proxy' = [proxy EXCEPT ![p].at = "checking", ![p].reconnecting = reconnecting]
      BY <1>7 DEF StartProxy
    <3>1. proxy' = [proxy EXCEPT ![p] = [proxy[p] EXCEPT !.at = "checking", !.reconnecting = reconnecting]]
      BY <1>1
    <3>2. proxy'[p].at = "checking" /\ proxy'[p].streams = proxy[p].streams
      BY <1>1, <1>3, <3>1 DEF ProxyRecord
    <3> QED
      BY <1>3, <1>7, <3>1, <3>2 DEF StartProxy
  <2>2. (\A s \in Servers : ~ Starting(s)) /\ \A q \in Proxies : ~ Running(q) \/ Connected(q)
    <3>1. crowded' = (crowded \/ (\E s \in Servers : Starting(s))
                              \/ (\E q \in Proxies : Running(q) /\ ~ Connected(q)))
      BY <1>7 DEF StartProxy
    <3> QED
      BY <3>1
  <2>3. \A q \in Proxies : ~ Busy(q)
    BY <2>2 DEF Running, Connected, Busy, Over
  <2>4. \A q \in Proxies : q # p => ~ Busy(q)'
    BY <2>1, <2>3 DEF Busy
  <2>5. \A s \in Servers : (Alive(s)' <=> Alive(s)) /\ ~ Starting(s)' /\ (Up(s)' <=> Up(s))
    BY <2>1, <2>2 DEF Alive, Starting, Up
  <2>6. OneIsBusy' /\ StartIsAwaited' /\ OneIsAlive'
    BY <2>4, <2>5 DEF Calm, OneIsBusy, StartIsAwaited, OneIsAlive
  <2>7. FilesAreOfTheServer'
    BY <2>1, <2>5 DEF Calm, FilesAreOfTheServer, FilesAreOf
  <2>8. ASSUME NEW q \in Proxies PROVE PidIsRight(q)' /\ WayIsFree(q)' /\ StreamsAreRight(q)'
    <3>1. PidIsRight(q) /\ WayIsFree(q) /\ StreamsAreRight(q)
      BY DEF Calm, ProxiesAreRight
    <3>2. CASE q = p
      BY <2>1, <3>1, <3>2 DEF PidIsRight, WayIsFree, StreamsAreRight
    <3>3. CASE q # p
      BY <2>1, <2>4, <2>5, <3>1, <3>3 DEF PidIsRight, WayIsFree, StreamsAreRight
    <3> QED
      BY <3>2, <3>3
  <2>9. ProxiesAreRight'
    BY <2>8 DEF ProxiesAreRight
  <2> QED
    BY <2>6, <2>7, <2>9 DEF Calm
<1>8. CASE ReadPidFile(p)
  <2> DEFINE x == [proxy[p] EXCEPT !.at = "checked", !.pid = files["pid"], !.up = {s \in Servers : Up(s)}]
  <2>1. proxy' = [proxy EXCEPT ![p] = x] /\ x.at = "checked" /\ x.pid = files["pid"]
        /\ x.streams = proxy[p].streams /\ proxy[p].at = "checking" /\ UNCHANGED <<files, server>>
    BY <1>1, <1>8 DEF ReadPidFile, ProxyRecord
  <2> HIDE DEF x
  <2>2. proxy'[p] = x /\ \A q \in Proxies : q # p => proxy'[q] = proxy[q]
    BY <1>3, <2>1
  <2>3. PidIsRight(p)' /\ WayIsFree(p)' /\ StreamsAreRight(p)'
    BY <1>2, <2>1, <2>2 DEF PidIsRight, WayIsFree, StreamsAreRight
  <2> QED
    BY <1>6, <2>1, <2>2, <2>3, OneProxyMoves
<1>9. CASE Found(p)
  <2> DEFINE to == IF proxy[p].reconnecting THEN "connecting" ELSE "killing"
             x == [proxy[p] EXCEPT !.at = to]
  <2>1. /\ proxy' = [proxy EXCEPT ![p] = x] /\ x.at = to /\ x.pid = proxy[p].pid
        /\ x.streams = proxy[p].streams
        /\ proxy[p].at = "checked" /\ UNCHANGED <<files, server>>
    BY <1>1, <1>9 DEF Found, ProxyRecord
  <2> HIDE DEF x
  <2>2. proxy'[p] = x /\ \A q \in Proxies : q # p => proxy'[q] = proxy[q]
    BY <1>3, <2>1
  <2>3. PidIsRight(p)' /\ WayIsFree(p)'
    BY <1>2, <2>1, <2>2 DEF PidIsRight, WayIsFree
  <2>4. StreamsAreRight(p)'
    BY <1>2, <2>1, <2>2 DEF StreamsAreRight
  <2> QED
    BY <1>6, <2>1, <2>2, <2>3, <2>4, OneProxyMoves
<1>10. proxy[p].at \in {"checked", "killing"} => \A s \in Servers : Alive(s) => s = proxy[p].pid
  <2> SUFFICES ASSUME proxy[p].at \in {"checked", "killing"}, NEW s \in Servers, Alive(s)
               PROVE  s = proxy[p].pid
    OBVIOUS
  <2>1. Up(s) /\ FilesAreOf(s)
    BY <1>6 DEF Calm, FilesAreOfTheServer, Starting
  <2>2. files["pid"] = s
    BY <2>1 DEF Up, FilesAreOf
  <2> QED
    BY <1>2, <2>2 DEF PidIsRight
<1>11. CASE NotFound(p)
  <2>1. /\ proxy[p].at = "checked" /\ ~ Alive(proxy[p].pid) /\ UNCHANGED server
        /\ files' = files \/ files' = [files EXCEPT !["pid"] = Nothing]
    BY <1>11 DEF NotFound
  <2>2. \A s \in Servers : ~ Alive(s)
    BY <1>10, <2>1
  <2>3. CASE End(p, "not running") \/ End(p, "failed")
    BY <1>5, <1>6, <2>1, <2>2, <2>3 DEF Over
  <2>4. CASE /\ proxy' = [proxy EXCEPT ![p].at = "spawning", ![p].remove = Sockets]
             /\ files'["pid"] = Nothing
    <3> DEFINE x == [proxy[p] EXCEPT !.at = "spawning", !.remove = Sockets]
    <3>1. /\ proxy' = [proxy EXCEPT ![p] = x] /\ x.at = "spawning" /\ x.remove = Sockets
          /\ x.streams = proxy[p].streams
      BY <1>1, <2>4 DEF ProxyRecord
    <3> HIDE DEF x
    <3>2. proxy'[p] = x /\ \A q \in Proxies : q # p => proxy'[q] = proxy[q]
      BY <1>3, <3>1
    <3>3. \A s \in Servers : ~ Alive(s)'
      BY <2>1, <2>2 DEF Alive
    <3>4. WayIsFree(p)'
      BY <2>4, <3>1, <3>2, <3>3, AllIsListed DEF WayIsFree, File
    <3>5. PidIsRight(p)' /\ StreamsAreRight(p)'
      BY <1>2, <2>1, <3>1, <3>2 DEF PidIsRight, StreamsAreRight, Busy
    <3> QED
      BY <1>6, <2>1, <2>2, <3>1, <3>2, <3>4, <3>5, OneProxyMoves
  <2>5. proxy[p].pid = files["pid"]
    BY <1>2, <2>1 DEF PidIsRight
  <2>6. files'["pid"] = Nothing \/ End(p, "failed")
    BY <1>11, <2>5 DEF NotFound, Types, File
  <2> QED
    BY <1>11, <2>3, <2>4, <2>6 DEF NotFound, GoOn
<1>12. CASE KillServer(p)
  <2> DEFINE x == [proxy[p] EXCEPT !.at = "spawning", !.remove = <<"pid">> \o Sockets \o Sockets]
  <2>1. /\ proxy' = [proxy EXCEPT ![p] = x] /\ x.at = "spawning"
        /\ x.remove = <<"pid">> \o Sockets \o Sockets /\ x.streams = proxy[p].streams
        /\ proxy[p].at = "killing" /\ UNCHANGED files
    BY <1>1, <1>12 DEF KillServer, ProxyRecord
  <2> HIDE DEF x
  <2>2. proxy'[p] = x /\ \A q \in Proxies : q # p => proxy'[q] = proxy[q]
    BY <1>3, <2>1
  <2>3. \A s \in Servers : ~ Alive(s)'
    <3> SUFFICES ASSUME NEW s \in Servers, Alive(s)' PROVE FALSE
      OBVIOUS
    <3>1. server \in [Servers -> ServerRecord] /\ server' = Killed(p)
      BY <1>12 DEF KillServer, Types
    <3>2. CASE Alive(proxy[p].pid)
      <4>1. s # proxy[p].pid /\ server'[s] = server[s]
        BY <3>1, <3>2 DEF Killed, ServerAt, Alive
      <4> QED
        BY <1>10, <2>1, <4>1 DEF Alive
    <3>3. CASE ~ Alive(proxy[p].pid)
      BY <1>10, <2>1, <3>1, <3>3 DEF Killed, Alive
    <3> QED
      BY <3>2, <3>3
  <2>4. WayIsFree(p)'
    BY <2>1, <2>2, <2>3, AllIsListed DEF WayIsFree
  <2>5. PidIsRight(p)' /\ StreamsAreRight(p)'
    BY <1>2, <2>1, <2>2 DEF PidIsRight, StreamsAreRight, Busy
  <2> QED
    BY <1>6, <2>1, <2>2, <2>3, <2>4, <2>5, OneProxyMoves
<1>13. CASE RemoveFile(p)
  <2> DEFINE rest == Tail(proxy[p].remove)
             x == [proxy[p] EXCEPT !.remove = rest]
  <2>1. /\ proxy' = [proxy EXCEPT ![p] = x] /\ x.at = "spawning" /\ x.remove = rest
        /\ x.streams = proxy[p].streams
        /\ proxy[p].at = "spawning" /\ proxy[p].remove # <<>> /\ UNCHANGED server
        /\ files' = [files EXCEPT ![Head(proxy[p].remove)] = Nothing]
    BY <1>1, <1>13 DEF RemoveFile, ProxyRecord
  <2> HIDE DEF x
  <2>2. proxy'[p] = x /\ \A q \in Proxies : q # p => proxy'[q] = proxy[q]
    BY <1>3, <2>1
  <2>3. (\A s \in Servers : ~ Alive(s)) /\ (\A s \in Servers : ~ Alive(s)')
    BY <1>2, <2>1 DEF WayIsFree, Alive
  <2>4. \A i \in DOMAIN proxy[p].remove :
            proxy[p].remove[i] = Head(proxy[p].remove) \/ \E j \in DOMAIN rest : rest[j] = proxy[p].remove[i]
    BY <1>1, <2>1, Rest DEF ProxyRecord
  <2>5. WayIsFree(p)'
    <3>1. \A f \in File : files'[f] # Nothing => f # Head(proxy[p].remove) /\ files[f] # Nothing
      BY <2>1 DEF Types
    <3> HIDE DEF rest
    <3>2. \A f \in File : files'[f] # Nothing => \E j \in DOMAIN rest : rest[j] = f
      BY <1>2, <2>1, <2>4, <3>1 DEF WayIsFree
    <3> QED
      BY <2>1, <2>2, <2>3, <3>2 DEF WayIsFree
  <2>6. PidIsRight(p)' /\ StreamsAreRight(p)'
    BY <1>2, <2>1, <2>2 DEF PidIsRight, StreamsAreRight, Busy
  <2> QED
    BY <1>6, <2>1, <2>2, <2>3, <2>5, <2>6, OneProxyMoves
<1>14. CASE Spawn(p)
  <2> DEFINE x == [proxy[p] EXCEPT !.at = "waiting"]
  <2>1. /\ proxy' = [proxy EXCEPT ![p] = x] /\ x.at = "waiting" /\ x.streams = proxy[p].streams
        /\ proxy[p].at = "spawning" /\ proxy[p].remove = <<>> /\ UNCHANGED files
    BY <1>1, <1>14 DEF Spawn, ProxyRecord
  <2> HIDE DEF x
  <2>2. proxy'[p] = x /\ \A q \in Proxies : q # p => proxy'[q] = proxy[q]
    BY <1>3, <2>1
  <2> PICK s \in Servers : Advance(s, "none", "spawned")
    BY <1>14 DEF Spawn
  <2>3. server'[s].at = "spawned" /\ \A t \in Servers : t # s => server'[t] = server[t]
    BY DEF Types, ServerRecord, Advance
  <2>4. (\A t \in Servers : ~ Alive(t)) /\ \A f \in File : files[f] = Nothing
    <3>1. \A i : i \notin DOMAIN proxy[p].remove
      BY <2>1
    <3> QED
      BY <1>2, <2>1, <3>1 DEF WayIsFree
  <2>5. \A t \in Servers : Alive(t)' => t = s
    BY <2>3, <2>4 DEF Alive
  <2>6. Busy(p) /\ \A q \in Proxies : Busy(q)' => q = p
    BY <1>6, <2>1, <2>2 DEF Calm, OneIsBusy, Busy
  <2>7. OneIsBusy' /\ StartIsAwaited' /\ OneIsAlive'
    BY <2>1, <2>2, <2>5, <2>6 DEF OneIsBusy, StartIsAwaited, OneIsAlive
  <2>8. FilesAreOfTheServer'
    <3>1. FilesAreOf(s)'
      BY <2>1, <2>3, <2>4 DEF FilesAreOf, Up, File, Socket
    <3> QED
      BY <2>5, <3>1 DEF FilesAreOfTheServer
  <2>9. ASSUME NEW q \in Proxies PROVE PidIsRight(q)' /\ WayIsFree(q)' /\ StreamsAreRight(q)'
    <3>1. PidIsRight(q) /\ WayIsFree(q) /\ StreamsAreRight(q)
      BY DEF Calm, ProxiesAreRight
    <3>2. CASE q = p
      BY <2>1, <2>2, <3>1, <3>2 DEF PidIsRight, WayIsFree, StreamsAreRight
    <3>3. CASE q # p
      <4>1. ~ Busy(q)' /\ proxy'[q] = proxy[q]
        BY <2>2, <2>6, <3>3
      <4> QED
        BY <2>1, <3>1, <4>1 DEF PidIsRight, WayIsFree, StreamsAreRight, Busy
    <3> QED
      BY <3>2, <3>3
  <2>10. ProxiesAreRight'
    BY <2>9 DEF ProxiesAreRight
  <2> QED
    BY <2>7, <2>8, <2>10 DEF Calm
<1>15. CASE Ready(p)
  <2>1. /\ proxy[p].at = "waiting" /\ \A k \in Socket : files[k] # Nothing
        /\ UNCHANGED <<files, server>>
    BY <1>15 DEF Ready
  <2>2. CASE End(p, "failed")
    BY <1>5, <2>1, <2>2 DEF Over
  <2>3. CASE proxy' = [proxy EXCEPT ![p].at = "connecting", ![p].pid = files["pid"]]
    <3> DEFINE x == [proxy[p] EXCEPT !.at = "connecting", !.pid = files["pid"]]
    <3>1. /\ proxy' = [proxy EXCEPT ![p] = x] /\ x.at = "connecting" /\ x.pid = files["pid"]
          /\ x.streams = proxy[p].streams
      BY <1>1, <2>3 DEF ProxyRecord
    <3> HIDE DEF x
    <3>2. proxy'[p] = x /\ \A q \in Proxies : q # p => proxy'[q] = proxy[q]
      BY <1>3, <3>1
    <3>3. \A s \in Servers : ~ Starting(s)
      <4> SUFFICES ASSUME NEW s \in Servers, Starting(s) PROVE FALSE
        OBVIOUS
      <4>1. files["stderr"] = Nothing
        BY DEF Calm, FilesAreOfTheServer, FilesAreOf, Starting
      <4> QED
        BY <2>1, <4>1 DEF Socket
    <3>4. PidIsRight(p)' /\ WayIsFree(p)' /\ StreamsAreRight(p)'
      BY <1>2, <2>1, <3>1, <3>2 DEF PidIsRight, WayIsFree, StreamsAreRight
    <3>5. Busy(p)
      BY <2>1 DEF Busy
    <3> QED
      BY <2>1, <3>2, <3>3, <3>4, <3>5, OneProxyMoves
  <2> QED
    BY <1>15, <2>2, <2>3 DEF Ready, SpawnedPid
<1>16. ASSUME NEW k \in Socket, Connect(p, k) PROVE Calm'
  <2> DEFINE s == files[k]
             x == [proxy[p] EXCEPT !.streams = [proxy[p].streams EXCEPT ![k] = s]]
  <2>1. /\ proxy[p].at = "connecting" /\ proxy[p].streams[k] = Nothing /\ Alive(s)
        /\ proxy' = [proxy EXCEPT ![p] = x] /\ UNCHANGED files
    BY <1>1, <1>16 DEF Connect
  <2>2. /\ x.at = "connecting" /\ x.pid = proxy[p].pid
        /\ \A l \in Socket : x.streams[l] = IF l = k THEN s ELSE proxy[p].streams[l]
    BY <1>1, <2>1 DEF ProxyRecord
  <2> HIDE DEF x
  <2>3. proxy'[p] = x /\ \A q \in Proxies : q # p => proxy'[q] = proxy[q]
    BY <1>3, <2>1
  <2>4. \A t \in Servers : server'[t].at = server[t].at
    BY <1>16 DEF Connect, Alive, Types, ServerRecord
  <2>5. Busy(p) /\ \A t \in Servers : ~ Starting(t)
    BY <2>1 DEF Calm, StartIsAwaited, Busy
  <2>6. s = proxy[p].pid
    <3>1. s \in Servers /\ Up(s) /\ FilesAreOf(s)
      BY <2>1, <2>5 DEF Calm, FilesAreOfTheServer, Starting, Alive
    <3>2. files["pid"] = s
      BY <3>1 DEF Up, FilesAreOf
    <3> QED
      BY <1>2, <2>1, <2>5, <3>2 DEF PidIsRight
  <2>7. StreamsAreRight(p)'
    BY <1>2, <2>1, <2>2, <2>3, <2>6 DEF StreamsAreRight
  <2>8. PidIsRight(p)' /\ WayIsFree(p)'
    BY <1>2, <2>1, <2>2, <2>3, <2>5 DEF PidIsRight, WayIsFree
  <2> QED
    BY <2>1, <2>3, <2>4, <2>5, <2>7, <2>8, OneProxyMoves
<1>17. CASE Cut(p)
  <2>1. /\ proxy' = [proxy EXCEPT ![p] = [proxy[p] EXCEPT !.at = "cut"]]
        /\ [proxy[p] EXCEPT !.at = "cut"].at = "cut" /\ UNCHANGED <<files, server>>
    BY <1>1, <1>17 DEF Cut, ProxyRecord
  <2> QED
    BY <1>4, <2>1
<1>18. CASE SpawnTimeout(p) \/ Verify(p) \/ KillProxy(p)
  BY <1>5, <1>18 DEF SpawnTimeout, Verify, KillProxy, Over
<1> QED
  BY <1>7, <1>8, <1>9, <1>11, <1>12, <1>13, <1>14, <1>15, <1>16, <1>17, <1>18 DEF ProxyStep

\* Every host that is calm has been so from the beginning.
LEMMA CalmStep == Types /\ (~ crowded => Calm) /\ [Next]_vars => (~ crowded => Calm)'
<1> SUFFICES ASSUME Types, ~ crowded => Calm, [Next]_vars, ~ crowded' PROVE Calm'
  OBVIOUS
<1>1. ASSUME NEW s \in Servers, ServerStep(s) \/ DropConnection(s) \/ Die(s) PROVE crowded' = crowded
  BY <1>1 DEF ServerStep, DropConnection, Die, RemovePidFile, WritePidFile, Bind, BindSocket, Accept,
     IdleExit
<1>2. ASSUME NEW p \in Proxies, ProxyStep(p) \/ KillProxy(p) PROVE crowded' = crowded
  BY <1>2 DEF ProxyStep, KillProxy, ReadPidFile, Found, NotFound, KillServer, RemoveFile, Spawn,
     Ready, SpawnTimeout, Connect, Cut, Verify
<1>3. ASSUME NEW p \in Proxies, StartProxy(p) PROVE ~ crowded
  <2>1. crowded' = (crowded \/ (\E s \in Servers : Starting(s))
                            \/ (\E q \in Proxies : Running(q) /\ ~ Connected(q)))
    BY <1>3 DEF StartProxy
  <2> QED
    BY <2>1
<1>4. CASE UNCHANGED vars
  <2>1. UNCHANGED crowded /\ Calm
    BY <1>4 DEF vars
  <2>2. /\ \A p \in Proxies : Busy(p)' <=> Busy(p)
        /\ \A s \in Servers :
            (Alive(s)' <=> Alive(s)) /\ (Starting(s)' <=> Starting(s)) /\ (Up(s)' <=> Up(s))
    BY <1>4 DEF vars, Busy, Starting, Alive, Up
  <2>3. OneIsBusy' /\ StartIsAwaited' /\ OneIsAlive'
    BY <1>4, <2>1, <2>2 DEF vars, Calm, OneIsBusy, StartIsAwaited, OneIsAlive
  <2>4. FilesAreOfTheServer'
    BY <1>4, <2>1, <2>2 DEF vars, Calm, FilesAreOfTheServer, FilesAreOf
  <2>5. ASSUME NEW p \in Proxies, PidIsRight(p), WayIsFree(p), StreamsAreRight(p)
        PROVE  PidIsRight(p)' /\ WayIsFree(p)' /\ StreamsAreRight(p)'
    BY <1>4, <2>2, <2>5 DEF vars, PidIsRight, WayIsFree, StreamsAreRight
  <2> QED
    BY <2>1, <2>3, <2>4, <2>5 DEF Calm, ProxiesAreRight
<1> QED
  BY <1>1, <1>2, <1>3, <1>4, ServerKeepsCalm, ProxyKeepsCalm DEF Next

\* On a host that is not crowded, the processes follow each other.
LEMMA CalmHolds == Spec => [](Types /\ (~ crowded => Calm))
<1>1. Init => (~ crowded => Calm)
  <2> SUFFICES ASSUME Init PROVE Calm
    OBVIOUS
  <2>1. /\ \A s \in Servers : server[s].at = "none"
        /\ \A p \in Proxies : proxy[p].at = "none" /\ \A k \in Socket : proxy[p].streams[k] = Nothing
    BY DEF Init, ServerAt, ProxyAt, NoStreams
  <2>2. /\ \A s \in Servers : ~ Alive(s) /\ ~ Starting(s)
        /\ \A p \in Proxies : ~ Busy(p)
    BY <2>1 DEF Alive, Starting, Busy
  <2> QED
    BY <2>1, <2>2 DEF Calm, OneIsBusy, StartIsAwaited, OneIsAlive, FilesAreOfTheServer,
       ProxiesAreRight, PidIsRight, WayIsFree, StreamsAreRight
<1> QED
  BY <1>1, TypesInit, TypesStep, CalmStep, PTL DEF Spec

\* On a host that is calm a new server never runs beside an old one, whatever died
\* on the way.
THEOREM OneServerHolds == Spec => []OneServer
<1>1. (~ crowded => Calm) => OneServer
  BY DEF Calm, OneIsAlive, OneServer
<1> QED
  BY <1>1, CalmHolds, PTL

\* And the three streams of a proxy lead to the server whose pid it has.
THEOREM StreamsLeadToOneServerHolds == Spec => []StreamsLeadToOneServer
<1>1. (~ crowded => Calm) => StreamsLeadToOneServer
  BY DEF Calm, ProxiesAreRight, StreamsAreRight, StreamsLeadToOneServer
<1> QED
  BY <1>1, CalmHolds, PTL

\* A client that reconnects to a calm host is told that its server is not running
\* only if it is not.
THEOREM CalmRefusalsAreTrueHolds == Spec => CalmRefusalsAreTrue
<1>1. Types /\ (~ crowded => Calm) /\ [Next]_vars => (~ crowded => ~ Overlooked)
  <2> SUFFICES ASSUME Types, Calm, [Next]_vars, NEW p \in Proxies,
                      proxy[p].at = "checked", proxy'[p].at = "not running",
                      NEW s \in Servers, Up(s)
               PROVE  FALSE
    BY DEF Overlooked, Types, ProxyRecord
  <2>1. proxy \in [Proxies -> ProxyRecord]
    BY DEF Types
  <2>2. Alive(proxy[p].pid)
    <3>1. Alive(s)
      BY DEF Up, Alive
    <3>2. files["pid"] = s
      BY <3>1 DEF Calm, FilesAreOfTheServer, FilesAreOf, Up
    <3>3. files["pid"] = proxy[p].pid
      BY DEF Calm, ProxiesAreRight, PidIsRight
    <3> QED
      BY <3>1, <3>2, <3>3
  <2> USE DEF Go, End
  <2>4. ASSUME NEW t \in Servers, ServerStep(t) \/ Die(t) PROVE UNCHANGED proxy
    BY <2>4 DEF ServerStep, Die, RemovePidFile, WritePidFile, Bind, BindSocket, Accept, IdleExit
  <2>5. ASSUME NEW t \in Servers, DropConnection(t) PROVE proxy'[p].at = proxy[p].at
    BY <2>1, <2>5 DEF DropConnection, ProxyRecord
  <2>6. ASSUME NEW q \in Proxies, q # p, StartProxy(q) \/ ProxyStep(q) \/ KillProxy(q)
        PROVE  proxy'[p] = proxy[p]
    <3>1. ASSUME NEW k \in Socket, Connect(q, k) PROVE proxy'[p] = proxy[p]
      BY <2>1, <2>6, <3>1 DEF Connect
    <3>2. CASE StartProxy(q) \/ ReadPidFile(q) \/ Found(q) \/ Spawn(q) \/ Cut(q)
      BY <2>1, <2>6, <3>2 DEF StartProxy, ReadPidFile, Found, Spawn, Cut
    <3>3. CASE NotFound(q) \/ KillServer(q) \/ RemoveFile(q) \/ Ready(q)
      BY <2>1, <2>6, <3>3 DEF NotFound, GoOn, KillServer, RemoveFile, Ready
    <3>4. CASE SpawnTimeout(q) \/ Verify(q) \/ KillProxy(q)
      BY <2>1, <2>6, <3>4 DEF SpawnTimeout, Verify, KillProxy
    <3> QED
      BY <2>6, <3>1, <3>2, <3>3, <3>4 DEF ProxyStep
  <2>7. CASE StartProxy(p) \/ ProxyStep(p)
    <3>1. Found(p) \/ NotFound(p)
      BY <2>7 DEF StartProxy, ProxyStep, ReadPidFile, KillServer, RemoveFile, Spawn, Ready,
         SpawnTimeout, Connect, Cut, Verify
    <3> QED
      BY <2>1, <2>2, <3>1 DEF Found, NotFound, ProxyRecord
  <2>8. CASE KillProxy(p)
    BY <2>1, <2>8 DEF KillProxy, ProxyAt
  <2>9. CASE UNCHANGED vars
    BY <2>9 DEF vars
  <2> QED
    BY <2>4, <2>5, <2>6, <2>7, <2>8, <2>9 DEF Next
<1> QED
  BY <1>1, CalmHolds, PTL DEF Spec, CalmRefusalsAreTrue
=============================================================================
