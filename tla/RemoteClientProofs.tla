------------------------- MODULE RemoteClientProofs -------------------------
(***************************************************************************)
(* The safety properties of RemoteClient, for any number of connections,   *)
(* attempts and missed heartbeats.                                         *)
(*                                                                         *)
(* The argument: whatever of a connection is alive (its proxy, its monitor,*)
(* its heartbeat) is held by exactly one owner, which is the state, a      *)
(* reconnect task, shutdown_processes or RemoteClient::new; and at most one*)
(* of these owners exists at a time (HeldOnce).                            *)
(***************************************************************************)
EXTENDS RemoteClient, TLAPS

\* What reconnect assigns has its type.
LEMMA TryAgainTypes ==
    ASSUME TypeOK, NEW n \in Nat, NEW old,
           old \subseteq [pc : {"killing", "connecting", "resyncing", "connected", "failed"},
                         conn : Connection \union {NoConnection}, attempts : Nat],
           TryAgain(n, old)
    PROVE  /\ state' \in {"ReconnectExhausted", "Reconnecting"}
           /\ missed' = 0 /\ current' = NoConnection
           /\ tasks' \subseteq [pc : {"killing", "connecting", "resyncing", "connected", "failed"},
                         conn : Connection \union {NoConnection}, attempts : Nat]
           /\ tries' \in Nat
           /\ disconnects' \in Nat
BY DEF TypeOK, TryAgain, SetDisconnected, SetField

\* Dropping tasks keeps the types of what is dropped.
LEMMA DropTypes ==
    ASSUME TypeOK, NEW M, NEW H, DropTasks(M, H)
    PROVE  /\ io' \in [Connection -> {"none", "running", "ended", "notRunning", "gone"}]
           /\ monitor' \in [Connection -> {"none", "waiting", "gone"}]
           /\ heartbeat' \in [Connection -> {"none", "armed", "unarmed", "pinging", "gone"}]
BY DEF TypeOK, DropTasks

\* handle_heartbeat_result keeps the types.
LEMMA HandleTypes ==
    ASSUME TypeOK, NEW c \in Connection, NEW n \in Nat,
           HandleHeartbeatResult(c, n), UNCHANGED <<new, environment, closing, shut>>
    PROVE  TypeOK'
<1>1. heartbeat_missed \in Nat
  BY DEF TypeOK, heartbeat_missed
<1>2. CASE state = "None"
  BY <1>2 DEF TypeOK, HandleHeartbeatResult, field, environment
<1>3. CASE state # "None" /\ n < MAX_MISSED_HEARTBEATS
  BY <1>1, <1>3, BoundsAssumption DEF TypeOK, HandleHeartbeatResult, SetField, field, environment
<1>4. CASE state # "None" /\ n >= MAX_MISSED_HEARTBEATS
  <2>1. DropTasks(Owned, Owned \union {c})
    BY <1>4, BoundsAssumption DEF HandleHeartbeatResult
  <2>2. \/ TryAgain(0, tasks)
        \/ UNCHANGED <<field, tasks, tries, disconnects>>
    BY <1>4, BoundsAssumption DEF HandleHeartbeatResult
  <2> QED
    BY <1>4, <2>1, <2>2, BoundsAssumption, DropTypes, TryAgainTypes
       DEF TypeOK, HandleHeartbeatResult, field, environment
<1> QED
  BY <1>2, <1>3, <1>4, BoundsAssumption

\* Every variable keeps its type, whatever the bounds: TypeOK is inductive.
THEOREM TypeCorrect == Spec => []TypeOK
<1>1. Init => TypeOK
  <2> SUFFICES ASSUME Init PROVE TypeOK
    OBVIOUS
  <2>1. 1 \in Connection
    BY BoundsAssumption DEF Connection
  <2>2. tasks \subseteq [pc : {"killing", "connecting", "resyncing", "connected", "failed"},
                         conn : Connection \union {NoConnection}, attempts : Nat]
    BY DEF Init
  <2> QED
    BY <2>1, <2>2 DEF Init, TypeOK
<1>2. TypeOK /\ [Next]_vars => TypeOK'
  <2> SUFFICES ASSUME TypeOK, [Next]_vars PROVE TypeOK'
    OBVIOUS
  <2> USE DEF TypeOK
  <2>1. CASE NewStarted
    BY <2>1 DEF NewStarted, field, environment
  <2>2. CASE NewConnected
    BY <2>2, BoundsAssumption DEF NewConnected, SetField, environment, Connection
  <2>3. CASE NewFailed
    BY <2>3, DropTypes DEF NewFailed, SetField, Drop, environment
  <2>4. ASSUME NEW c \in Connection, MonitorReconnects(c) PROVE TypeOK'
    BY <2>4, DropTypes, TryAgainTypes DEF MonitorReconnects, field, environment
  <2>5. ASSUME NEW c \in Connection, MonitorNotRunning(c) PROVE TypeOK'
    BY <2>5, DropTypes DEF MonitorNotRunning, SetDisconnected, SetField, environment
  <2>6. ASSUME NEW c \in Connection, HeartbeatActivity(c) PROVE TypeOK'
    <3>1. CASE Recovers(c)
      BY <2>6, <3>1, HandleTypes DEF HeartbeatActivity, Recovers
    <3>2. CASE ~ Recovers(c)
      BY <2>6, <3>2 DEF HeartbeatActivity, field, environment
    <3> QED
      BY <3>1, <3>2
  <2>7. ASSUME NEW c \in Connection, HeartbeatStops(c) PROVE TypeOK'
    BY <2>7 DEF HeartbeatStops, field, environment
  <2>8. ASSUME NEW c \in Connection, HeartbeatTimer(c) PROVE TypeOK'
    BY <2>8 DEF HeartbeatTimer, field, environment
  <2>9. ASSUME NEW c \in Connection, HeartbeatPong(c) PROVE TypeOK'
    <3>1. CASE Recovers(c)
      BY <2>9, <3>1, HandleTypes DEF HeartbeatPong, Recovers
    <3>2. CASE ~ Recovers(c)
      BY <2>9, <3>2 DEF HeartbeatPong, field, environment
    <3> QED
      BY <3>1, <3>2
  <2>10. ASSUME NEW c \in Connection, HeartbeatMiss(c) PROVE TypeOK'
    <3>1. hbMissed[c] + 1 \in Nat
      OBVIOUS
    <3> QED
      BY <2>10, <3>1, HandleTypes DEF HeartbeatMiss
  <2>11. ASSUME NEW t \in tasks, TaskKills(t) PROVE TypeOK'
    BY <2>11 DEF TaskKills, Advance, field, connections, environment
  <2>12. ASSUME NEW t \in tasks, TaskConnects(t) PROVE TypeOK'
    <3>1. made + 1 \in Connection
      BY <2>12, BoundsAssumption DEF TaskConnects, Connection
    <3> QED
      BY <2>12, <3>1 DEF TaskConnects, Advance, field
  <2>13. ASSUME NEW t \in tasks, TaskResynced(t) PROVE TypeOK'
    BY <2>13 DEF TaskResynced, Advance, field, environment
  <2>14. ASSUME NEW t \in tasks, TaskFails(t) PROVE TypeOK'
    BY <2>14, DropTypes DEF TaskFails, Advance, Drop, field, environment
  <2>15. ASSUME NEW t \in tasks, TakeConnected(t) PROVE TypeOK'
    BY <2>15, DropTypes DEF TakeConnected, Drop, SetField, field, connections, environment
  <2>16. ASSUME NEW t \in tasks, TakeFailed(t) PROVE TypeOK'
    BY <2>16, TryAgainTypes DEF TakeFailed, field, connections, environment
  <2>17. CASE Shutdown
    BY <2>17, DropTypes DEF Shutdown, Drop, SetField, connections, environment
  <2>18. CASE ShutdownEnds
    BY <2>18, DropTypes DEF ShutdownEnds, Drop, field, environment
  <2>19. ASSUME NEW n \in 0 .. MAX_RECONNECT_ATTEMPTS, ForceHeartbeatTimeout(n) PROVE TypeOK'
    BY <2>19, DropTypes, TryAgainTypes DEF ForceHeartbeatTimeout, Drop, environment
  <2>20. CASE ForceHeartbeatTimeoutIgnored
    BY <2>20, DropTypes DEF ForceHeartbeatTimeoutIgnored, Drop, SetField, environment
  <2>21. ASSUME NEW c \in Connection, EnvironmentStep(c) PROVE TypeOK'
    BY <2>21 DEF EnvironmentStep, Answer, ProxyEnds, ProxyFindsNoServer, NetworkPartition,
       field, connections, environment
  <2>22. CASE UNCHANGED vars
    BY <2>22 DEF vars
  <2> QED
    BY <2>1, <2>2, <2>3, <2>4, <2>5, <2>6, <2>7, <2>8, <2>9, <2>10, <2>11, <2>12, <2>13, <2>14,
       <2>15, <2>16, <2>17, <2>18, <2>19, <2>20, <2>21, <2>22
       DEF Next, MonitorStep, HeartbeatStep, TaskStep, TakeStep
<1> QED
  BY <1>1, <1>2, PTL DEF Spec

Beats(c) == heartbeat[c] \in {"armed", "unarmed", "pinging"}
Alive(c) == io[c] = "running" \/ monitor[c] = "waiting" \/ Beats(c)

\* The owners of a connection's tasks.
Held(c) ==
    \/ Owns /\ c = current
    \/ \E t \in tasks : c = t.conn
    \/ c = closing
    \/ new \in {"waiting", "pinging"} /\ c = 1

AliveIsHeld == \A c \in Connection : Alive(c) => Held(c)

\* Before RemoteClient::new is done nothing but it acts.
NewIsAlone ==
    new # "done" =>
        /\ state \in {"Connecting", "ServerNotRunning", "None"}
        /\ tasks = {} /\ tries = 0 /\ disconnects = 0
        /\ closing = NoConnection
        /\ \A c \in Connection : ~ Beats(c) /\ hbMissed[c] = 0

\* While the state owns a connection no reconnect is being counted.
OwnsAlone == Owns => tries = 0 /\ current \in Connection

\* While shutdown_processes holds a connection nothing else does.
ClosingAlone ==
    closing # NoConnection =>
        shut /\ tasks = {} /\ state \in {"None", "ServerNotRunning"}

\* A reconnect task counts its attempts within the limit and has a connection once
\* it is made; the heartbeat of that connection does nothing yet.
TasksAreSound ==
    \A t \in tasks :
        /\ t.attempts <= MAX_RECONNECT_ATTEMPTS
        /\ tries <= t.attempts
        /\ t.pc \in {"killing", "connecting", "failed"} <=> t.conn = NoConnection
        /\ t.conn # NoConnection =>
               hbMissed[t.conn] = 0 /\ heartbeat[t.conn] # "pinging"

\* Connections not yet made.
Unmade ==
    /\ \A c \in Connection : c > made =>
           /\ io[c] = "none" /\ monitor[c] = "none"
           /\ heartbeat[c] = "none" /\ hbMissed[c] = 0
    /\ Owns => current <= made
    /\ closing <= made
    /\ \A t \in tasks : t.conn <= made

\* After Disconnected nothing is left that could say so again.
DisconnectedIsLast ==
    /\ disconnects <= 1
    /\ disconnects = 1 =>
           /\ state \in {"None", "ReconnectExhausted", "ServerNotRunning"}
           /\ \A c \in Connection : monitor[c] # "waiting"
           /\ \A t \in tasks : t.conn # NoConnection \/ t.pc = "failed"

IInv ==
    /\ OneReconnectTask
    /\ MissCountsAgree
    /\ AttemptsAreBounded
    /\ NewIsAlone
    /\ OwnsAlone
    /\ ClosingAlone
    /\ TasksAreSound
    /\ Unmade
    /\ AliveIsHeld
    /\ DisconnectedIsLast

\* At most one connection has an owner.
LEMMA HeldOnce ==
    ASSUME TypeOK, IInv, NEW c \in Connection, NEW d \in Connection, Held(c), Held(d)
    PROVE  c = d
BY DEF TypeOK, IInv, OneReconnectTask, NewIsAlone, ClosingAlone, Held, Owns, NoConnection,
   Connection

\* RemoteClient::new owns the first connection to begin with.
LEMMA Initially == Init => IInv
<1> SUFFICES ASSUME Init PROVE IInv
  OBVIOUS
<1>1. 1 \in Connection
  BY BoundsAssumption DEF Connection
<1> QED
  BY <1>1, BoundsAssumption
     DEF Init, IInv, OneReconnectTask, MissCountsAgree, AttemptsAreBounded, NewIsAlone,
         OwnsAlone, ClosingAlone, TasksAreSound, Unmade, AliveIsHeld, DisconnectedIsLast,
         Owns, Held, Alive, Beats, NoConnection, Connection

\* reconnect from a state that owns a connection: its tasks are dropped before a
\* reconnect task exists.
LEMMA TryingAgainKeepsIInv ==
    ASSUME TypeOK, TypeOK', IInv, Owns, NEW n \in Nat, NEW M, NEW H,
           current \in M, current \in H,
           \A d \in M \union H : d <= made, DropTasks(M, H), TryAgain(n, tasks),
           \A d \in Connection : d # current => hbMissed'[d] = hbMissed[d],
           UNCHANGED <<new, made, closing, shut>>
    PROVE  IInv'
<1>1. tasks = {} /\ tries = 0 /\ closing = NoConnection /\ new = "done"
  BY DEF TypeOK, IInv, OneReconnectTask, NewIsAlone, OwnsAlone, ClosingAlone, Owns
<1>2. \A d \in Connection : ~ Alive(d)'
  BY <1>1 DEF TypeOK, IInv, AliveIsHeld, Held, Alive, Beats, DropTasks, Connection, NoConnection
<1>3. OneReconnectTask' /\ AttemptsAreBounded' /\ OwnsAlone' /\ ClosingAlone'
  <2>1. CASE Exhausted(n)
    BY <1>1, <2>1 DEF IInv, OneReconnectTask, AttemptsAreBounded, OwnsAlone, ClosingAlone,
       TryAgain, SetDisconnected, SetField, Owns
  <2>2. CASE ~ Exhausted(n)
    <3>1. tasks' = {[pc |-> "killing", conn |-> NoConnection, attempts |-> n + 1]}
      BY <1>1, <2>2 DEF TryAgain
    <3>2. state' = "Reconnecting" /\ tries' = 1
      BY <1>1, <2>2 DEF TryAgain, SetField
    <3> QED
      BY <1>1, <2>2, <3>1, <3>2, BoundsAssumption DEF OneReconnectTask, AttemptsAreBounded,
         OwnsAlone, ClosingAlone, Exhausted, Owns
  <2> QED
    BY <2>1, <2>2
<1>4. NewIsAlone'
  BY <1>1, <1>2, BoundsAssumption DEF TypeOK, IInv, NewIsAlone, Owns, Beats, NoConnection,
     TryAgain, Exhausted, SetDisconnected, SetField, DropTasks
<1>5. MissCountsAgree'
  BY <1>1, <1>2, BoundsAssumption DEF TypeOK, IInv, MissCountsAgree, Owns, TryAgain,
     Exhausted, SetDisconnected, SetField, DropTasks
<1>6. TasksAreSound'
  BY <1>1, <1>2, BoundsAssumption DEF TypeOK, IInv, TasksAreSound, NoConnection, TryAgain,
     Exhausted, SetDisconnected, SetField, DropTasks
<1>7. Unmade'
  BY <1>1, <1>2, BoundsAssumption DEF TypeOK, IInv, Unmade, Owns, Connection, NoConnection,
     TryAgain, Exhausted, SetDisconnected, SetField, DropTasks
<1>8. AliveIsHeld'
  BY <1>1, <1>2, BoundsAssumption DEF TypeOK, IInv, AliveIsHeld, Alive, Beats, Held, Owns,
     Connection, NoConnection, TryAgain, Exhausted, SetDisconnected, SetField, DropTasks
<1>9. DisconnectedIsLast'
  <2>1. disconnects = 0 /\ disconnects' \in {0, 1}
    BY DEF TypeOK, IInv, DisconnectedIsLast, TryAgain, SetDisconnected, Owns
  <2>2. \A d \in Connection : monitor'[d] # "waiting"
    BY <1>2 DEF Alive
  <2>3. disconnects' = 1 => state' = "ReconnectExhausted" /\ tasks' = {}
    BY <1>1, <2>1 DEF TryAgain, SetDisconnected, SetField
  <2> QED
    BY <2>1, <2>2, <2>3 DEF DisconnectedIsLast
<1> QED
  BY <1>3, <1>4, <1>5, <1>6, <1>7, <1>8, <1>9 DEF IInv

\* handle_heartbeat_result, called by a heartbeat that is alive: it is the heartbeat
\* of the current connection, or its result is not used.
LEMMA HandlingKeepsIInv ==
    ASSUME TypeOK, TypeOK', IInv, NEW c \in Connection, NEW n \in Nat,
           Beats(c), n = 0 \/ (heartbeat[c] = "pinging" /\ n = hbMissed[c] + 1),
           HandleHeartbeatResult(c, n), UNCHANGED <<new, made, closing, shut>>
    PROVE  IInv'
<1> USE BoundsAssumption
<1>1. Held(c)
  BY DEF IInv, AliveIsHeld, Alive
<1>2. Owns => c = current
  BY <1>1, HeldOnce DEF Held, OwnsAlone, IInv, TypeOK
<1>3. c <= made
  BY DEF TypeOK, IInv, Unmade, Beats, Connection
<1>4. n # 0 => \A t \in tasks : t.conn # c
  <2> SUFFICES ASSUME n # 0, NEW t \in tasks, t.conn = c PROVE FALSE
    OBVIOUS
  <2>1. c # NoConnection
    BY DEF Connection, NoConnection
  <2> QED
    BY <2>1 DEF IInv, TasksAreSound
<1>5. CASE Owns /\ n >= MAX_MISSED_HEARTBEATS
  <2>1. DropTasks(Owned, Owned \union {c}) /\ TryAgain(0, tasks)
    BY <1>5 DEF HandleHeartbeatResult, CanReconnect, Owns
  <2>2. hbMissed' = [hbMissed EXCEPT ![c] = n]
    BY DEF HandleHeartbeatResult
  <2> QED
    BY <1>2, <1>3, <1>5, <2>1, <2>2, TryingAgainKeepsIInv DEF Owned, TypeOK
<1>6. CASE Owns /\ n < MAX_MISSED_HEARTBEATS
  <2>1. OneReconnectTask' /\ AttemptsAreBounded' /\ OwnsAlone' /\ ClosingAlone'
    BY <1>1, <1>2, <1>3, <1>6 DEF TypeOK, IInv, OneReconnectTask, AttemptsAreBounded,
       OwnsAlone, ClosingAlone, Owns, NoConnection, HandleHeartbeatResult, heartbeat_missed,
       SetField
  <2>2. NewIsAlone'
    BY <1>1, <1>2, <1>3, <1>6 DEF TypeOK, IInv, NewIsAlone, Owns, Beats, NoConnection,
       HandleHeartbeatResult, heartbeat_missed, SetField
  <2>3. MissCountsAgree'
    BY <1>1, <1>2, <1>3, <1>6 DEF TypeOK, IInv, MissCountsAgree, Owns,
       HandleHeartbeatResult, heartbeat_missed, SetField
  <2>4. TasksAreSound'
    BY <1>1, <1>2, <1>3, <1>6 DEF TypeOK, IInv, TasksAreSound, NoConnection,
       HandleHeartbeatResult, heartbeat_missed, SetField
  <2>5. Unmade'
    BY <1>1, <1>2, <1>3, <1>6 DEF TypeOK, IInv, Unmade, Owns, Connection, NoConnection,
       HandleHeartbeatResult, heartbeat_missed, SetField
  <2>6. AliveIsHeld'
    BY <1>1, <1>2, <1>3, <1>6 DEF TypeOK, IInv, AliveIsHeld, Alive, Beats, Held, Owns,
       Connection, NoConnection, HandleHeartbeatResult, heartbeat_missed, SetField
  <2>7. DisconnectedIsLast'
    BY <1>1, <1>2, <1>3, <1>6 DEF TypeOK, IInv, DisconnectedIsLast, Owns, NoConnection,
       HandleHeartbeatResult, heartbeat_missed, SetField
  <2> QED
    BY <2>1, <2>2, <2>3, <2>4, <2>5, <2>6, <2>7 DEF IInv
<1>7. CASE ~ Owns
  <2>1. OneReconnectTask' /\ AttemptsAreBounded' /\ OwnsAlone' /\ ClosingAlone'
    BY <1>1, <1>3, <1>4, <1>7 DEF TypeOK, IInv, OneReconnectTask, AttemptsAreBounded,
       OwnsAlone, ClosingAlone, Owns, NoConnection, HandleHeartbeatResult, CanReconnect,
       Owned, DropTasks, field
  <2>2. NewIsAlone'
    BY <1>1, <1>3, <1>4, <1>7 DEF TypeOK, IInv, NewIsAlone, Owns, Beats, NoConnection,
       HandleHeartbeatResult, CanReconnect, Owned, DropTasks, field
  <2>3. MissCountsAgree'
    BY <1>1, <1>3, <1>4, <1>7 DEF TypeOK, IInv, MissCountsAgree, Owns,
       HandleHeartbeatResult, CanReconnect, Owned, DropTasks, field
  <2>4. TasksAreSound'
    BY <1>1, <1>3, <1>4, <1>7 DEF TypeOK, IInv, TasksAreSound, NoConnection,
       HandleHeartbeatResult, CanReconnect, Owned, DropTasks, field
  <2>5. Unmade'
    BY <1>1, <1>3, <1>4, <1>7 DEF TypeOK, IInv, Unmade, Owns, Connection, NoConnection,
       HandleHeartbeatResult, CanReconnect, Owned, DropTasks, field
  <2>6. AliveIsHeld'
    BY <1>1, <1>3, <1>4, <1>7 DEF TypeOK, IInv, AliveIsHeld, Alive, Beats, Held, Owns,
       Connection, NoConnection, HandleHeartbeatResult, CanReconnect, Owned, DropTasks,
       field
  <2>7. DisconnectedIsLast'
    BY <1>1, <1>3, <1>4, <1>7 DEF TypeOK, IInv, DisconnectedIsLast, Owns, NoConnection,
       HandleHeartbeatResult, CanReconnect, Owned, DropTasks, field
  <2> QED
    BY <2>1, <2>2, <2>3, <2>4, <2>5, <2>6, <2>7 DEF IInv
<1> QED
  BY <1>5, <1>6, <1>7

\* A missed heartbeat is counted on both sides.
LEMMA HeartbeatMissStep ==
    ASSUME TypeOK, TypeOK', IInv, NEW c \in Connection, HeartbeatMiss(c)
    PROVE  IInv'
<1>1. hbMissed[c] + 1 \in Nat
  BY DEF TypeOK
<1> QED
  BY <1>1, HandlingKeepsIInv DEF HeartbeatMiss, Beats, environment

\* force_heartbeat_timeout is a reconnect that counts some attempts as made.
LEMMA ForceHeartbeatTimeoutStep ==
    ASSUME TypeOK, TypeOK', IInv, NEW n \in 0 .. MAX_RECONNECT_ATTEMPTS, ForceHeartbeatTimeout(n)
    PROVE  IInv'
<1>1. Owns /\ current <= made
  BY DEF ForceHeartbeatTimeout, Owns, IInv, Unmade
<1> QED
  BY <1>1, BoundsAssumption, TryingAgainKeepsIInv DEF ForceHeartbeatTimeout, Drop, Owned,
     environment


\* RemoteClient::new begins to monitor a proxy it already holds.
LEMMA NewStartedStep ==
    ASSUME TypeOK, TypeOK', IInv, NewStarted
    PROVE  IInv'
<1>1. OneReconnectTask' /\ AttemptsAreBounded' /\ OwnsAlone' /\ ClosingAlone'
  BY DEF TypeOK, IInv, OneReconnectTask, AttemptsAreBounded, OwnsAlone, ClosingAlone, Owns,
     NoConnection, NewStarted, field, environment
<1>2. NewIsAlone'
  BY DEF TypeOK, IInv, NewIsAlone, Beats, NoConnection, NewStarted, field, environment
<1>3. MissCountsAgree'
  BY DEF TypeOK, IInv, MissCountsAgree, NewStarted, field, environment
<1>4. TasksAreSound'
  BY DEF TypeOK, IInv, TasksAreSound, NoConnection, NewStarted, field, environment
<1>5. Unmade'
  BY BoundsAssumption DEF TypeOK, IInv, Unmade, Owns, Connection, NoConnection, NewStarted,
     field, environment
<1>6. AliveIsHeld'
  BY BoundsAssumption DEF TypeOK, IInv, AliveIsHeld, Alive, Beats, Held, Owns, Connection,
     NoConnection, NewStarted, field, environment
<1>7. DisconnectedIsLast'
  BY DEF TypeOK, IInv, DisconnectedIsLast, NewIsAlone, NoConnection, NewStarted, field,
     environment
<1> QED
  BY <1>1, <1>2, <1>3, <1>4, <1>5, <1>6, <1>7 DEF IInv

\* The tasks of connection 1 pass from RemoteClient::new to the state.
LEMMA NewConnectedStep ==
    ASSUME TypeOK, TypeOK', IInv, NewConnected
    PROVE  IInv'
<1>1. OneReconnectTask' /\ AttemptsAreBounded' /\ OwnsAlone' /\ ClosingAlone'
  BY BoundsAssumption DEF TypeOK, IInv, OneReconnectTask, AttemptsAreBounded, OwnsAlone,
     ClosingAlone, NewIsAlone, Connection, Owns, NoConnection, NewConnected, SetField,
     environment
<1>2. NewIsAlone'
  BY DEF TypeOK, IInv, NewIsAlone, Beats, NoConnection, NewConnected, SetField, environment
<1>3. MissCountsAgree'
  BY BoundsAssumption DEF TypeOK, IInv, MissCountsAgree, NewIsAlone, Connection,
     NewConnected, SetField, environment
<1>4. TasksAreSound'
  BY DEF TypeOK, IInv, TasksAreSound, NoConnection, NewConnected, SetField, environment
<1>5. Unmade'
  BY BoundsAssumption DEF TypeOK, IInv, Unmade, Owns, Connection, NoConnection,
     NewConnected, SetField, environment
<1>6. AliveIsHeld'
  BY BoundsAssumption DEF TypeOK, IInv, AliveIsHeld, NewIsAlone, Alive, Beats, Held, Owns,
     Connection, NoConnection, NewConnected, SetField, environment
<1>7. DisconnectedIsLast'
  BY DEF TypeOK, IInv, DisconnectedIsLast, NewIsAlone, NoConnection, NewConnected, SetField,
     environment
<1> QED
  BY <1>1, <1>2, <1>3, <1>4, <1>5, <1>6, <1>7 DEF IInv

\* RemoteClient::new drops all it holds.
LEMMA NewFailedStep ==
    ASSUME TypeOK, TypeOK', IInv, NewFailed
    PROVE  IInv'
<1>1. OneReconnectTask' /\ AttemptsAreBounded' /\ OwnsAlone' /\ ClosingAlone'
  BY DEF TypeOK, IInv, OneReconnectTask, AttemptsAreBounded, OwnsAlone, ClosingAlone, Owns,
     NoConnection, NewFailed, SetField, Drop, DropTasks, environment
<1>2. NewIsAlone'
  BY DEF TypeOK, IInv, NewIsAlone, Beats, NoConnection, NewFailed, SetField, Drop,
     DropTasks, environment
<1>3. MissCountsAgree'
  BY DEF TypeOK, IInv, MissCountsAgree, NewFailed, SetField, Drop, DropTasks, environment
<1>4. TasksAreSound'
  BY DEF TypeOK, IInv, TasksAreSound, NoConnection, NewFailed, SetField, Drop, DropTasks,
     environment
<1>5. Unmade'
  BY BoundsAssumption DEF TypeOK, IInv, Unmade, Owns, Connection, NoConnection, NewFailed,
     SetField, Drop, DropTasks, environment
<1>6. AliveIsHeld'
  BY BoundsAssumption DEF TypeOK, IInv, AliveIsHeld, NewIsAlone, Alive, Beats, Held, Owns,
     Connection, NoConnection, NewFailed, SetField, Drop, DropTasks, environment
<1>7. DisconnectedIsLast'
  BY DEF TypeOK, IInv, DisconnectedIsLast, NoConnection, NewFailed, SetField, Drop,
     DropTasks, environment
<1> QED
  BY <1>1, <1>2, <1>3, <1>4, <1>5, <1>6, <1>7 DEF IInv

\* A monitor that reconnects belongs to the state, or changes nothing else.
LEMMA MonitorReconnectsStep ==
    ASSUME TypeOK, TypeOK', IInv, NEW c \in Connection, MonitorReconnects(c)
    PROVE  IInv'
<1>1. CASE Owns
  <2>1. c <= made /\ current <= made
    BY <1>1 DEF MonitorReconnects, TypeOK, IInv, Unmade, Connection
  <2> QED
    BY <1>1, <2>1, TryingAgainKeepsIInv DEF MonitorReconnects, CanReconnect, Owned, environment
<1>2. CASE ~ Owns
  <2>1. OneReconnectTask' /\ AttemptsAreBounded' /\ OwnsAlone' /\ ClosingAlone'
    BY <1>2 DEF TypeOK, IInv, OneReconnectTask, AttemptsAreBounded, OwnsAlone, ClosingAlone,
       Owns, NoConnection, MonitorReconnects, CanReconnect, Owned, DropTasks, field,
       environment
  <2>2. NewIsAlone'
    BY <1>2 DEF TypeOK, IInv, NewIsAlone, Beats, NoConnection, MonitorReconnects,
       CanReconnect, Owned, DropTasks, field, environment
  <2>3. MissCountsAgree'
    BY <1>2 DEF TypeOK, IInv, MissCountsAgree, MonitorReconnects, CanReconnect, Owned,
       DropTasks, field, environment
  <2>4. TasksAreSound'
    BY <1>2 DEF TypeOK, IInv, TasksAreSound, NoConnection, MonitorReconnects, CanReconnect,
       Owned, DropTasks, field, environment
  <2>5. Unmade'
    BY <1>2, BoundsAssumption DEF TypeOK, IInv, Unmade, Owns, Connection, NoConnection,
       MonitorReconnects, CanReconnect, Owned, DropTasks, field, environment
  <2>6. AliveIsHeld'
    BY <1>2, BoundsAssumption DEF TypeOK, IInv, AliveIsHeld, Alive, Beats, Held, Owns,
       Connection, NoConnection, MonitorReconnects, CanReconnect, Owned, DropTasks, field,
       environment
  <2>7. DisconnectedIsLast'
    BY <1>2 DEF TypeOK, IInv, DisconnectedIsLast, NoConnection, MonitorReconnects,
       CanReconnect, Owned, DropTasks, field, environment
  <2> QED
    BY <2>1, <2>2, <2>3, <2>4, <2>5, <2>6, <2>7 DEF IInv
<1> QED
  BY <1>1, <1>2

\* The monitor that reports ServerNotRunning was the last one.
LEMMA MonitorNotRunningStep ==
    ASSUME TypeOK, TypeOK', IInv, NEW c \in Connection, MonitorNotRunning(c)
    PROVE  IInv'
<1>1. OneReconnectTask' /\ AttemptsAreBounded' /\ OwnsAlone' /\ ClosingAlone'
  BY DEF TypeOK, IInv, OneReconnectTask, AttemptsAreBounded, OwnsAlone, ClosingAlone, Owns,
     NoConnection, MonitorNotRunning, Owned, DropTasks, SetDisconnected, SetField,
     environment
<1>2. NewIsAlone'
  BY DEF TypeOK, IInv, NewIsAlone, Beats, NoConnection, MonitorNotRunning, Owned, DropTasks,
     SetDisconnected, SetField, environment
<1>3. MissCountsAgree'
  BY DEF TypeOK, IInv, MissCountsAgree, MonitorNotRunning, Owned, DropTasks,
     SetDisconnected, SetField, environment
<1>4. TasksAreSound'
  BY DEF TypeOK, IInv, TasksAreSound, NoConnection, MonitorNotRunning, Owned, DropTasks,
     SetDisconnected, SetField, environment
<1>5. Unmade'
  BY BoundsAssumption DEF TypeOK, IInv, Unmade, Owns, Connection, NoConnection,
     MonitorNotRunning, Owned, DropTasks, SetDisconnected, SetField, environment
<1>6. AliveIsHeld'
  BY BoundsAssumption DEF TypeOK, IInv, AliveIsHeld, Alive, Beats, Held, Owns, Connection,
     NoConnection, MonitorNotRunning, Owned, DropTasks, SetDisconnected, SetField,
     environment
<1>7. DisconnectedIsLast'
  <2>1. Alive(c) /\ Held(c)
    BY DEF MonitorNotRunning, IInv, AliveIsHeld, Alive
  <2>2. \A d \in Connection : Alive(d) => d = c
    BY <2>1, HeldOnce DEF IInv, AliveIsHeld
  <2>3. \A d \in Connection : monitor'[d] # "waiting"
    BY <2>2 DEF TypeOK, MonitorNotRunning, DropTasks, Alive
  <2>4. \A t \in tasks : t.conn = c
    BY <2>1 DEF TypeOK, IInv, Held, OneReconnectTask, NewIsAlone, ClosingAlone, Owns,
       NoConnection, Connection
  <2>5. disconnects = 0
    BY DEF TypeOK, IInv, DisconnectedIsLast, MonitorNotRunning
  <2> QED
    BY <2>3, <2>4, <2>5 DEF DisconnectedIsLast, MonitorNotRunning, SetDisconnected, SetField,
       NoConnection, Connection
<1> QED
  BY <1>1, <1>2, <1>3, <1>4, <1>5, <1>6, <1>7 DEF IInv

\* Activity leaves the owner of the heartbeat as it is.
LEMMA HeartbeatActivityStep ==
    ASSUME TypeOK, TypeOK', IInv, NEW c \in Connection, HeartbeatActivity(c)
    PROVE  IInv'
<1>1. CASE Recovers(c)
  <2>1. Beats(c)
    BY DEF HeartbeatActivity, Listening, Beats
  <2>2. HandleHeartbeatResult(c, 0) /\ UNCHANGED <<new, made, closing, shut>>
    BY <1>1 DEF HeartbeatActivity, Recovers, environment
  <2> QED
    BY <2>1, <2>2, HandlingKeepsIInv
<1>2. CASE ~ Recovers(c)
  <2>1. OneReconnectTask' /\ AttemptsAreBounded' /\ OwnsAlone' /\ ClosingAlone'
    BY <1>2 DEF TypeOK, IInv, OneReconnectTask, AttemptsAreBounded, OwnsAlone, ClosingAlone,
       Owns, NoConnection, HeartbeatActivity, Listening, field, environment
  <2>2. NewIsAlone'
    BY <1>2 DEF TypeOK, IInv, NewIsAlone, Beats, NoConnection, HeartbeatActivity, Listening,
       field, environment
  <2>3. MissCountsAgree'
    BY <1>2 DEF TypeOK, IInv, MissCountsAgree, HeartbeatActivity, Listening, field,
       environment
  <2>4. TasksAreSound'
    BY <1>2 DEF TypeOK, IInv, TasksAreSound, NoConnection, HeartbeatActivity, Listening,
       field, environment
  <2>5. Unmade'
    BY <1>2, BoundsAssumption DEF TypeOK, IInv, Unmade, Owns, Connection, NoConnection,
       HeartbeatActivity, Listening, field, environment
  <2>6. AliveIsHeld'
    BY <1>2, BoundsAssumption DEF TypeOK, IInv, AliveIsHeld, Alive, Beats, Held, Owns,
       Connection, NoConnection, HeartbeatActivity, Listening, field, environment
  <2>7. DisconnectedIsLast'
    BY <1>2 DEF TypeOK, IInv, DisconnectedIsLast, NoConnection, HeartbeatActivity,
       Listening, field, environment
  <2> QED
    BY <2>1, <2>2, <2>3, <2>4, <2>5, <2>6, <2>7 DEF IInv
<1> QED
  BY <1>1, <1>2

\* A heartbeat that stops needs no owner any more.
LEMMA HeartbeatStopsStep ==
    ASSUME TypeOK, TypeOK', IInv, NEW c \in Connection, HeartbeatStops(c)
    PROVE  IInv'
<1>1. OneReconnectTask' /\ AttemptsAreBounded' /\ OwnsAlone' /\ ClosingAlone'
  BY DEF TypeOK, IInv, OneReconnectTask, AttemptsAreBounded, OwnsAlone, ClosingAlone, Owns,
     NoConnection, HeartbeatStops, Listening, field, environment
<1>2. NewIsAlone'
  BY DEF TypeOK, IInv, NewIsAlone, Beats, NoConnection, HeartbeatStops, Listening, field,
     environment
<1>3. MissCountsAgree'
  BY DEF TypeOK, IInv, MissCountsAgree, HeartbeatStops, Listening, field, environment
<1>4. TasksAreSound'
  BY DEF TypeOK, IInv, TasksAreSound, NoConnection, HeartbeatStops, Listening, field,
     environment
<1>5. Unmade'
  BY BoundsAssumption DEF TypeOK, IInv, Unmade, Owns, Connection, NoConnection,
     HeartbeatStops, Listening, field, environment
<1>6. AliveIsHeld'
  BY BoundsAssumption DEF TypeOK, IInv, AliveIsHeld, Alive, Beats, Held, Owns, Connection,
     NoConnection, HeartbeatStops, Listening, field, environment
<1>7. DisconnectedIsLast'
  BY DEF TypeOK, IInv, DisconnectedIsLast, NoConnection, HeartbeatStops, Listening, field,
     environment
<1> QED
  BY <1>1, <1>2, <1>3, <1>4, <1>5, <1>6, <1>7 DEF IInv

\* No ping is out for a connection that a reconnect task still holds.
LEMMA HeartbeatTimerStep ==
    ASSUME TypeOK, TypeOK', IInv, NEW c \in Connection, HeartbeatTimer(c)
    PROVE  IInv'
<1>1. OneReconnectTask' /\ AttemptsAreBounded' /\ OwnsAlone' /\ ClosingAlone'
  BY DEF TypeOK, IInv, OneReconnectTask, AttemptsAreBounded, OwnsAlone, ClosingAlone, Owns,
     NoConnection, HeartbeatTimer, field, environment
<1>2. NewIsAlone'
  BY DEF TypeOK, IInv, NewIsAlone, Beats, NoConnection, HeartbeatTimer, field, environment
<1>3. MissCountsAgree'
  BY DEF TypeOK, IInv, MissCountsAgree, HeartbeatTimer, field, environment
<1>4. TasksAreSound'
  BY DEF TypeOK, IInv, TasksAreSound, NoConnection, HeartbeatTimer, field, environment
<1>5. Unmade'
  BY BoundsAssumption DEF TypeOK, IInv, Unmade, Owns, Connection, NoConnection,
     HeartbeatTimer, field, environment
<1>6. AliveIsHeld'
  BY BoundsAssumption DEF TypeOK, IInv, AliveIsHeld, Alive, Beats, Held, Owns, Connection,
     NoConnection, HeartbeatTimer, field, environment
<1>7. DisconnectedIsLast'
  BY DEF TypeOK, IInv, DisconnectedIsLast, NoConnection, HeartbeatTimer, field, environment
<1> QED
  BY <1>1, <1>2, <1>3, <1>4, <1>5, <1>6, <1>7 DEF IInv

\* The answer to a ping leaves the owner of the heartbeat as it is.
LEMMA HeartbeatPongStep ==
    ASSUME TypeOK, TypeOK', IInv, NEW c \in Connection, HeartbeatPong(c)
    PROVE  IInv'
<1>1. CASE Recovers(c)
  <2>1. Beats(c)
    BY DEF HeartbeatPong, Listening, Beats
  <2>2. HandleHeartbeatResult(c, 0) /\ UNCHANGED <<new, made, closing, shut>>
    BY <1>1 DEF HeartbeatPong, Recovers, environment
  <2> QED
    BY <2>1, <2>2, HandlingKeepsIInv
<1>2. CASE ~ Recovers(c)
  <2>1. OneReconnectTask' /\ AttemptsAreBounded' /\ OwnsAlone' /\ ClosingAlone'
    BY <1>2 DEF TypeOK, IInv, OneReconnectTask, AttemptsAreBounded, OwnsAlone, ClosingAlone,
       Owns, NoConnection, HeartbeatPong, field, environment
  <2>2. NewIsAlone'
    BY <1>2 DEF TypeOK, IInv, NewIsAlone, Beats, NoConnection, HeartbeatPong, field,
       environment
  <2>3. MissCountsAgree'
    BY <1>2 DEF TypeOK, IInv, MissCountsAgree, HeartbeatPong, field, environment
  <2>4. TasksAreSound'
    BY <1>2 DEF TypeOK, IInv, TasksAreSound, NoConnection, HeartbeatPong, field, environment
  <2>5. Unmade'
    BY <1>2, BoundsAssumption DEF TypeOK, IInv, Unmade, Owns, Connection, NoConnection,
       HeartbeatPong, field, environment
  <2>6. AliveIsHeld'
    BY <1>2, BoundsAssumption DEF TypeOK, IInv, AliveIsHeld, Alive, Beats, Held, Owns,
       Connection, NoConnection, HeartbeatPong, field, environment
  <2>7. DisconnectedIsLast'
    BY <1>2 DEF TypeOK, IInv, DisconnectedIsLast, NoConnection, HeartbeatPong, field,
       environment
  <2> QED
    BY <2>1, <2>2, <2>3, <2>4, <2>5, <2>6, <2>7 DEF IInv
<1> QED
  BY <1>1, <1>2

\* The reconnect task stays the only one.
LEMMA TaskKillsStep ==
    ASSUME TypeOK, TypeOK', IInv, NEW t \in tasks, TaskKills(t)
    PROVE  IInv'
<1>1. tasks = {t}
  BY DEF IInv, OneReconnectTask
<1>2. OneReconnectTask' /\ AttemptsAreBounded' /\ OwnsAlone' /\ ClosingAlone'
  BY <1>1 DEF TypeOK, IInv, OneReconnectTask, AttemptsAreBounded, OwnsAlone, ClosingAlone,
     Owns, NoConnection, TaskKills, Advance, field, connections, environment
<1>3. NewIsAlone'
  BY <1>1 DEF TypeOK, IInv, NewIsAlone, Beats, NoConnection, TaskKills, Advance, field,
     connections, environment
<1>4. MissCountsAgree'
  BY <1>1 DEF TypeOK, IInv, MissCountsAgree, TaskKills, Advance, field, connections,
     environment
<1>5. TasksAreSound'
  BY <1>1 DEF TypeOK, IInv, TasksAreSound, NoConnection, TaskKills, Advance, field,
     connections, environment
<1>6. Unmade'
  BY <1>1, BoundsAssumption DEF TypeOK, IInv, Unmade, Owns, Connection, NoConnection,
     TaskKills, Advance, field, connections, environment
<1>7. AliveIsHeld'
  BY <1>1, BoundsAssumption DEF TypeOK, IInv, AliveIsHeld, TasksAreSound, Alive, Beats,
     Held, Owns, Connection, NoConnection, TaskKills, Advance, field, connections,
     environment
<1>8. DisconnectedIsLast'
  BY <1>1 DEF TypeOK, IInv, DisconnectedIsLast, NoConnection, TaskKills, Advance, field,
     connections, environment
<1> QED
  BY <1>2, <1>3, <1>4, <1>5, <1>6, <1>7, <1>8 DEF IInv

\* When the task connects, nothing of an earlier connection is alive.
LEMMA TaskConnectsStep ==
    ASSUME TypeOK, TypeOK', IInv, NEW t \in tasks, TaskConnects(t)
    PROVE  IInv'
<1>1. tasks = {t}
  BY DEF IInv, OneReconnectTask
<1>2. OneReconnectTask' /\ AttemptsAreBounded' /\ OwnsAlone' /\ ClosingAlone'
  BY <1>1 DEF TypeOK, IInv, OneReconnectTask, AttemptsAreBounded, OwnsAlone, ClosingAlone,
     Owns, NoConnection, TaskConnects, Advance, field
<1>3. NewIsAlone'
  BY <1>1 DEF TypeOK, IInv, NewIsAlone, Beats, NoConnection, TaskConnects, Advance, field
<1>4. MissCountsAgree'
  BY <1>1 DEF TypeOK, IInv, MissCountsAgree, TaskConnects, Advance, field
<1>5. TasksAreSound'
  BY <1>1, BoundsAssumption DEF TypeOK, IInv, TasksAreSound, Unmade, Connection,
     NoConnection, TaskConnects, Advance, field
<1>6. Unmade'
  BY <1>1, BoundsAssumption DEF TypeOK, IInv, Unmade, Owns, Connection, NoConnection,
     TaskConnects, Advance, field
<1>7. AliveIsHeld'
  <2>1. \A d \in Connection : ~ Alive(d)
    BY <1>1 DEF TypeOK, IInv, AliveIsHeld, Held, OneReconnectTask, NewIsAlone, ClosingAlone,
       TasksAreSound, TaskConnects, Owns, NoConnection, Connection
  <2>2. \A d \in Connection : Alive(d)' => d = made + 1
    BY <2>1 DEF TypeOK, TaskConnects, Alive, Beats
  <2>3. \E s \in tasks' : s.conn = made + 1
    <3>1. [pc |-> "resyncing", conn |-> made + 1, attempts |-> t.attempts] \in tasks'
      BY DEF TaskConnects, Advance
    <3> QED
      BY <3>1
  <2> QED
    BY <2>2, <2>3 DEF AliveIsHeld, Held
<1>8. DisconnectedIsLast'
  BY <1>1 DEF TypeOK, IInv, DisconnectedIsLast, TasksAreSound, NoConnection, TaskConnects,
     Advance, field
<1> QED
  BY <1>2, <1>3, <1>4, <1>5, <1>6, <1>7, <1>8 DEF IInv

\* The heartbeat of the new connection belongs to the task.
LEMMA TaskResyncedStep ==
    ASSUME TypeOK, TypeOK', IInv, NEW t \in tasks, TaskResynced(t)
    PROVE  IInv'
<1>1. tasks = {t}
  BY DEF IInv, OneReconnectTask
<1>2. OneReconnectTask' /\ AttemptsAreBounded' /\ OwnsAlone' /\ ClosingAlone'
  BY <1>1 DEF TypeOK, IInv, OneReconnectTask, AttemptsAreBounded, OwnsAlone, ClosingAlone,
     Owns, NoConnection, TaskResynced, Advance, field, environment
<1>3. NewIsAlone'
  BY <1>1 DEF TypeOK, IInv, NewIsAlone, Beats, NoConnection, TaskResynced, Advance, field,
     environment
<1>4. MissCountsAgree'
  BY <1>1 DEF TypeOK, IInv, MissCountsAgree, TaskResynced, Advance, field, environment
<1>5. TasksAreSound'
  BY <1>1 DEF TypeOK, IInv, TasksAreSound, NoConnection, TaskResynced, Advance, field,
     environment
<1>6. Unmade'
  BY <1>1, BoundsAssumption DEF TypeOK, IInv, Unmade, Owns, Connection, NoConnection,
     TaskResynced, Advance, field, environment
<1>7. AliveIsHeld'
  <2>1. \E s \in tasks' : s.conn = t.conn
    <3>1. [pc |-> "connected", conn |-> t.conn, attempts |-> t.attempts] \in tasks'
      BY DEF TaskResynced, Advance
    <3> QED
      BY <3>1
  <2>2. \A d \in Connection : Held(d) => Held(d)'
    BY <1>1, <2>1 DEF TaskResynced, Held, Owns, field
  <2>3. \A d \in Connection : Alive(d)' => Alive(d) \/ d = t.conn
    BY DEF TypeOK, TaskResynced, Alive, Beats
  <2> QED
    BY <2>1, <2>2, <2>3 DEF IInv, AliveIsHeld, Held
<1>8. DisconnectedIsLast'
  BY <1>1 DEF TypeOK, IInv, DisconnectedIsLast, NoConnection, TaskResynced, Advance, field,
     environment
<1> QED
  BY <1>2, <1>3, <1>4, <1>5, <1>6, <1>7, <1>8 DEF IInv

\* A failed task lets go of its connection.
LEMMA TaskFailsStep ==
    ASSUME TypeOK, TypeOK', IInv, NEW t \in tasks, TaskFails(t)
    PROVE  IInv'
<1>1. tasks = {t}
  BY DEF IInv, OneReconnectTask
<1>2. OneReconnectTask' /\ AttemptsAreBounded' /\ OwnsAlone' /\ ClosingAlone'
  BY <1>1 DEF TypeOK, IInv, OneReconnectTask, AttemptsAreBounded, OwnsAlone, ClosingAlone,
     Owns, NoConnection, TaskFails, Advance, Drop, DropTasks, field, environment
<1>3. NewIsAlone'
  BY <1>1 DEF TypeOK, IInv, NewIsAlone, Beats, NoConnection, TaskFails, Advance, Drop,
     DropTasks, field, environment
<1>4. MissCountsAgree'
  BY <1>1 DEF TypeOK, IInv, MissCountsAgree, TaskFails, Advance, Drop, DropTasks, field,
     environment
<1>5. TasksAreSound'
  BY <1>1 DEF TypeOK, IInv, TasksAreSound, NoConnection, TaskFails, Advance, Drop,
     DropTasks, field, environment
<1>6. Unmade'
  BY <1>1, BoundsAssumption DEF TypeOK, IInv, Unmade, Owns, Connection, NoConnection,
     TaskFails, Advance, Drop, DropTasks, field, environment
<1>7. AliveIsHeld'
  BY <1>1, BoundsAssumption DEF TypeOK, IInv, AliveIsHeld, Alive, Beats, Held, Owns,
     Connection, NoConnection, TaskFails, Advance, Drop, DropTasks, field, environment
<1>8. DisconnectedIsLast'
  BY <1>1 DEF TypeOK, IInv, DisconnectedIsLast, NoConnection, TaskFails, Advance, Drop,
     DropTasks, field, environment
<1> QED
  BY <1>2, <1>3, <1>4, <1>5, <1>6, <1>7, <1>8 DEF IInv

\* The connection passes from the task to the state, or is dropped.
LEMMA TakeConnectedStep ==
    ASSUME TypeOK, TypeOK', IInv, NEW t \in tasks, TakeConnected(t)
    PROVE  IInv'
<1>1. tasks = {t}
  BY DEF IInv, OneReconnectTask
<1>2. OneReconnectTask' /\ AttemptsAreBounded' /\ OwnsAlone' /\ ClosingAlone'
  BY <1>1, BoundsAssumption DEF TypeOK, IInv, OneReconnectTask, AttemptsAreBounded,
     OwnsAlone, ClosingAlone, TasksAreSound, Owns, NoConnection, TakeConnected,
     StillReconnecting, SetField, Drop, DropTasks, field, connections, environment
<1>3. NewIsAlone'
  BY <1>1 DEF TypeOK, IInv, NewIsAlone, Beats, NoConnection, TakeConnected,
     StillReconnecting, SetField, Drop, DropTasks, field, connections, environment
<1>4. MissCountsAgree'
  BY <1>1 DEF TypeOK, IInv, MissCountsAgree, TasksAreSound, TakeConnected,
     StillReconnecting, SetField, Drop, DropTasks, field, connections, environment
<1>5. TasksAreSound'
  BY <1>1 DEF TypeOK, IInv, TasksAreSound, NoConnection, TakeConnected, StillReconnecting,
     SetField, Drop, DropTasks, field, connections, environment
<1>6. Unmade'
  BY <1>1, BoundsAssumption DEF TypeOK, IInv, Unmade, Owns, Connection, NoConnection,
     TakeConnected, StillReconnecting, SetField, Drop, DropTasks, field, connections,
     environment
<1>7. AliveIsHeld'
  <2>1. \A d \in Connection : Alive(d) => d = t.conn
    BY <1>1 DEF TypeOK, IInv, AliveIsHeld, Held, OneReconnectTask, NewIsAlone, ClosingAlone,
       Owns, NoConnection, Connection
  <2>2. CASE StillReconnecting
    BY <2>1, <2>2 DEF TakeConnected, StillReconnecting, SetField, connections, AliveIsHeld,
       Alive, Beats, Held, Owns
  <2>3. CASE ~ StillReconnecting
    <3>1. \A d \in Connection : ~ Alive(d)'
      BY <2>1, <2>3 DEF TypeOK, TakeConnected, StillReconnecting, Drop, DropTasks, Alive, Beats
    <3> QED
      BY <3>1 DEF AliveIsHeld
  <2> QED
    BY <2>2, <2>3
<1>8. DisconnectedIsLast'
  BY <1>1 DEF TypeOK, IInv, DisconnectedIsLast, NoConnection, TakeConnected,
     StillReconnecting, SetField, Drop, DropTasks, field, connections, environment
<1> QED
  BY <1>2, <1>3, <1>4, <1>5, <1>6, <1>7, <1>8 DEF IInv

\* A failed task is replaced by at most one other.
LEMMA TakeFailedStep ==
    ASSUME TypeOK, TypeOK', IInv, NEW t \in tasks, TakeFailed(t)
    PROVE  IInv'
<1>1. tasks = {t}
  BY DEF IInv, OneReconnectTask
<1>2. OneReconnectTask' /\ AttemptsAreBounded' /\ OwnsAlone' /\ ClosingAlone'
  <2>1. CASE StillReconnecting
    <3>1. TryAgain(t.attempts, {})
      BY <1>1, <2>1 DEF TakeFailed
    <3>2. t.attempts \in Nat /\ tries <= t.attempts /\ closing = NoConnection
      BY <2>1 DEF TypeOK, IInv, TasksAreSound, ClosingAlone, StillReconnecting
    <3>3. CASE Exhausted(t.attempts)
      BY <3>1, <3>2, <3>3 DEF IInv, OneReconnectTask, AttemptsAreBounded, OwnsAlone, ClosingAlone,
         TakeFailed, TryAgain, SetDisconnected, SetField, Owns
    <3>4. CASE ~ Exhausted(t.attempts)
      <4>1. tasks' = {[pc |-> "killing", conn |-> NoConnection, attempts |-> t.attempts + 1]}
        BY <3>1, <3>4 DEF TryAgain
      <4>2. state' = "Reconnecting" /\ tries' = tries + 1
        BY <3>1, <3>4 DEF TryAgain, SetField
      <4> QED
        BY <3>2, <3>4, <4>1, <4>2, BoundsAssumption DEF TypeOK, IInv, OneReconnectTask,
           AttemptsAreBounded, OwnsAlone, ClosingAlone, TakeFailed, Exhausted, Owns
    <3> QED
      BY <3>3, <3>4
  <2>2. CASE ~ StillReconnecting
    BY <1>1, <2>2 DEF IInv, OneReconnectTask, AttemptsAreBounded, OwnsAlone, ClosingAlone,
       TakeFailed, StillReconnecting, field, Owns
  <2> QED
    BY <2>1, <2>2
<1>3. NewIsAlone'
  BY <1>1 DEF TypeOK, IInv, NewIsAlone, Beats, NoConnection, TakeFailed, StillReconnecting,
     TryAgain, Exhausted, SetDisconnected, SetField, field, connections, environment
<1>4. MissCountsAgree'
  BY <1>1 DEF TypeOK, IInv, MissCountsAgree, TakeFailed, StillReconnecting, TryAgain,
     Exhausted, SetDisconnected, SetField, field, connections, environment
<1>5. TasksAreSound'
  BY <1>1, BoundsAssumption DEF TypeOK, IInv, TasksAreSound, NoConnection, TakeFailed,
     StillReconnecting, TryAgain, Exhausted, SetDisconnected, SetField, field, connections,
     environment
<1>6. Unmade'
  BY <1>1, BoundsAssumption DEF TypeOK, IInv, Unmade, Owns, Connection, NoConnection,
     TakeFailed, StillReconnecting, TryAgain, Exhausted, SetDisconnected, SetField, field,
     connections, environment
<1>7. AliveIsHeld'
  BY <1>1, BoundsAssumption DEF TypeOK, IInv, AliveIsHeld, TasksAreSound, OneReconnectTask,
     Alive, Beats, Held, Owns, Connection, NoConnection, TakeFailed, StillReconnecting,
     TryAgain, Exhausted, SetDisconnected, SetField, field, connections, environment
<1>8. DisconnectedIsLast'
  BY <1>1, BoundsAssumption DEF TypeOK, IInv, DisconnectedIsLast, TasksAreSound,
     OneReconnectTask, AliveIsHeld, Alive, Held, Owns, ClosingAlone, NewIsAlone, Connection,
     NoConnection, TakeFailed, StillReconnecting, TryAgain, Exhausted, SetDisconnected,
     SetField, field, connections, environment
<1> QED
  BY <1>2, <1>3, <1>4, <1>5, <1>6, <1>7, <1>8 DEF IInv

\* The tasks pass from the state to shutdown_processes, which runs once.
LEMMA ShutdownStep ==
    ASSUME TypeOK, TypeOK', IInv, Shutdown
    PROVE  IInv'
<1>1. OneReconnectTask' /\ AttemptsAreBounded' /\ OwnsAlone' /\ ClosingAlone'
  BY DEF TypeOK, IInv, OneReconnectTask, AttemptsAreBounded, OwnsAlone, ClosingAlone, Owns,
     NoConnection, Shutdown, Owned, Drop, DropTasks, SetField, connections, environment
<1>2. NewIsAlone'
  BY DEF TypeOK, IInv, NewIsAlone, Beats, NoConnection, Shutdown, Owned, Drop, DropTasks,
     SetField, connections, environment
<1>3. MissCountsAgree'
  BY DEF TypeOK, IInv, MissCountsAgree, Shutdown, Owned, Drop, DropTasks, SetField,
     connections, environment
<1>4. TasksAreSound'
  BY BoundsAssumption DEF TypeOK, IInv, TasksAreSound, Owns, Connection, NoConnection,
     Shutdown, Owned, Drop, DropTasks, SetField, connections, environment
<1>5. Unmade'
  BY BoundsAssumption DEF TypeOK, IInv, Unmade, Owns, Connection, NoConnection, Shutdown,
     Owned, Drop, DropTasks, SetField, connections, environment
<1>6. AliveIsHeld'
  BY BoundsAssumption DEF TypeOK, IInv, AliveIsHeld, ClosingAlone, OneReconnectTask, Alive,
     Beats, Held, Owns, Connection, NoConnection, Shutdown, Owned, Drop, DropTasks,
     SetField, connections, environment
<1>7. DisconnectedIsLast'
  BY DEF TypeOK, IInv, DisconnectedIsLast, NoConnection, Shutdown, Owned, Drop, DropTasks,
     SetField, connections, environment
<1> QED
  BY <1>1, <1>2, <1>3, <1>4, <1>5, <1>6, <1>7 DEF IInv

\* shutdown_processes drops what it holds.
LEMMA ShutdownEndsStep ==
    ASSUME TypeOK, TypeOK', IInv, ShutdownEnds
    PROVE  IInv'
<1>1. OneReconnectTask' /\ AttemptsAreBounded' /\ OwnsAlone' /\ ClosingAlone'
  BY DEF TypeOK, IInv, OneReconnectTask, AttemptsAreBounded, OwnsAlone, ClosingAlone, Owns,
     NoConnection, ShutdownEnds, Drop, DropTasks, field, environment
<1>2. NewIsAlone'
  BY DEF TypeOK, IInv, NewIsAlone, Beats, NoConnection, ShutdownEnds, Drop, DropTasks,
     field, environment
<1>3. MissCountsAgree'
  BY DEF TypeOK, IInv, MissCountsAgree, ShutdownEnds, Drop, DropTasks, field, environment
<1>4. TasksAreSound'
  BY DEF TypeOK, IInv, TasksAreSound, NoConnection, ShutdownEnds, Drop, DropTasks, field,
     environment
<1>5. Unmade'
  BY BoundsAssumption DEF TypeOK, IInv, Unmade, Owns, Connection, NoConnection,
     ShutdownEnds, Drop, DropTasks, field, environment
<1>6. AliveIsHeld'
  BY BoundsAssumption DEF TypeOK, IInv, AliveIsHeld, Alive, Beats, Held, Owns, Connection,
     NoConnection, ShutdownEnds, Drop, DropTasks, field, environment
<1>7. DisconnectedIsLast'
  BY DEF TypeOK, IInv, DisconnectedIsLast, NoConnection, ShutdownEnds, Drop, DropTasks,
     field, environment
<1> QED
  BY <1>1, <1>2, <1>3, <1>4, <1>5, <1>6, <1>7 DEF IInv

\* Taking the state drops what the state owns.
LEMMA ForceHeartbeatTimeoutIgnoredStep ==
    ASSUME TypeOK, TypeOK', IInv, ForceHeartbeatTimeoutIgnored
    PROVE  IInv'
<1>1. OneReconnectTask' /\ AttemptsAreBounded' /\ OwnsAlone' /\ ClosingAlone'
  BY DEF TypeOK, IInv, OneReconnectTask, AttemptsAreBounded, OwnsAlone, ClosingAlone, Owns,
     NoConnection, ForceHeartbeatTimeoutIgnored, Owned, Drop, DropTasks, SetField,
     environment
<1>2. NewIsAlone'
  BY DEF TypeOK, IInv, NewIsAlone, Beats, NoConnection, ForceHeartbeatTimeoutIgnored, Owned,
     Drop, DropTasks, SetField, environment
<1>3. MissCountsAgree'
  BY DEF TypeOK, IInv, MissCountsAgree, ForceHeartbeatTimeoutIgnored, Owned, Drop,
     DropTasks, SetField, environment
<1>4. TasksAreSound'
  BY DEF TypeOK, IInv, TasksAreSound, NoConnection, ForceHeartbeatTimeoutIgnored, Owned,
     Drop, DropTasks, SetField, environment
<1>5. Unmade'
  BY BoundsAssumption DEF TypeOK, IInv, Unmade, Owns, Connection, NoConnection,
     ForceHeartbeatTimeoutIgnored, Owned, Drop, DropTasks, SetField, environment
<1>6. AliveIsHeld'
  BY BoundsAssumption DEF TypeOK, IInv, AliveIsHeld, Alive, Beats, Held, Owns, Connection,
     NoConnection, ForceHeartbeatTimeoutIgnored, Owned, Drop, DropTasks, SetField,
     environment
<1>7. DisconnectedIsLast'
  BY DEF TypeOK, IInv, DisconnectedIsLast, NoConnection, ForceHeartbeatTimeoutIgnored,
     Owned, Drop, DropTasks, SetField, environment
<1> QED
  BY <1>1, <1>2, <1>3, <1>4, <1>5, <1>6, <1>7 DEF IInv

\* An answer changes no owner.
LEMMA AnswerStep ==
    ASSUME TypeOK, TypeOK', IInv, NEW c \in Connection, Answer(c)
    PROVE  IInv'
<1>1. OneReconnectTask' /\ AttemptsAreBounded' /\ OwnsAlone' /\ ClosingAlone'
  BY DEF TypeOK, IInv, OneReconnectTask, AttemptsAreBounded, OwnsAlone, ClosingAlone, Owns,
     NoConnection, Answer, field, connections
<1>2. NewIsAlone'
  BY DEF TypeOK, IInv, NewIsAlone, Beats, NoConnection, Answer, field, connections
<1>3. MissCountsAgree'
  BY DEF TypeOK, IInv, MissCountsAgree, Answer, field, connections
<1>4. TasksAreSound'
  BY DEF TypeOK, IInv, TasksAreSound, NoConnection, Answer, field, connections
<1>5. Unmade'
  BY BoundsAssumption DEF TypeOK, IInv, Unmade, Owns, Connection, NoConnection, Answer,
     field, connections
<1>6. AliveIsHeld'
  BY BoundsAssumption DEF TypeOK, IInv, AliveIsHeld, Alive, Beats, Held, Owns, Connection,
     NoConnection, Answer, field, connections
<1>7. DisconnectedIsLast'
  BY DEF TypeOK, IInv, DisconnectedIsLast, NoConnection, Answer, field, connections
<1> QED
  BY <1>1, <1>2, <1>3, <1>4, <1>5, <1>6, <1>7 DEF IInv

\* A proxy that exits is not running any more.
LEMMA ProxyEndsStep ==
    ASSUME TypeOK, TypeOK', IInv, NEW c \in Connection, ProxyEnds(c)
    PROVE  IInv'
<1>1. OneReconnectTask' /\ AttemptsAreBounded' /\ OwnsAlone' /\ ClosingAlone'
  BY DEF TypeOK, IInv, OneReconnectTask, AttemptsAreBounded, OwnsAlone, ClosingAlone, Owns,
     NoConnection, ProxyEnds, field, environment
<1>2. NewIsAlone'
  BY DEF TypeOK, IInv, NewIsAlone, Beats, NoConnection, ProxyEnds, field, environment
<1>3. MissCountsAgree'
  BY DEF TypeOK, IInv, MissCountsAgree, ProxyEnds, field, environment
<1>4. TasksAreSound'
  BY DEF TypeOK, IInv, TasksAreSound, NoConnection, ProxyEnds, field, environment
<1>5. Unmade'
  BY BoundsAssumption DEF TypeOK, IInv, Unmade, Owns, Connection, NoConnection, ProxyEnds,
     field, environment
<1>6. AliveIsHeld'
  BY BoundsAssumption DEF TypeOK, IInv, AliveIsHeld, Alive, Beats, Held, Owns, Connection,
     NoConnection, ProxyEnds, field, environment
<1>7. DisconnectedIsLast'
  BY DEF TypeOK, IInv, DisconnectedIsLast, NoConnection, ProxyEnds, field, environment
<1> QED
  BY <1>1, <1>2, <1>3, <1>4, <1>5, <1>6, <1>7 DEF IInv

\* The same with another exit code.
LEMMA ProxyFindsNoServerStep ==
    ASSUME TypeOK, TypeOK', IInv, NEW c \in Connection, ProxyFindsNoServer(c)
    PROVE  IInv'
<1>1. OneReconnectTask' /\ AttemptsAreBounded' /\ OwnsAlone' /\ ClosingAlone'
  BY DEF TypeOK, IInv, OneReconnectTask, AttemptsAreBounded, OwnsAlone, ClosingAlone, Owns,
     NoConnection, ProxyFindsNoServer, field, environment
<1>2. NewIsAlone'
  BY DEF TypeOK, IInv, NewIsAlone, Beats, NoConnection, ProxyFindsNoServer, field,
     environment
<1>3. MissCountsAgree'
  BY DEF TypeOK, IInv, MissCountsAgree, ProxyFindsNoServer, field, environment
<1>4. TasksAreSound'
  BY DEF TypeOK, IInv, TasksAreSound, NoConnection, ProxyFindsNoServer, field, environment
<1>5. Unmade'
  BY BoundsAssumption DEF TypeOK, IInv, Unmade, Owns, Connection, NoConnection,
     ProxyFindsNoServer, field, environment
<1>6. AliveIsHeld'
  BY BoundsAssumption DEF TypeOK, IInv, AliveIsHeld, Alive, Beats, Held, Owns, Connection,
     NoConnection, ProxyFindsNoServer, field, environment
<1>7. DisconnectedIsLast'
  BY DEF TypeOK, IInv, DisconnectedIsLast, NoConnection, ProxyFindsNoServer, field,
     environment
<1> QED
  BY <1>1, <1>2, <1>3, <1>4, <1>5, <1>6, <1>7 DEF IInv

\* A silent connection keeps its owner.
LEMMA NetworkPartitionStep ==
    ASSUME TypeOK, TypeOK', IInv, NEW c \in Connection, NetworkPartition(c)
    PROVE  IInv'
<1>1. OneReconnectTask' /\ AttemptsAreBounded' /\ OwnsAlone' /\ ClosingAlone'
  BY DEF TypeOK, IInv, OneReconnectTask, AttemptsAreBounded, OwnsAlone, ClosingAlone, Owns,
     NoConnection, NetworkPartition, field, connections
<1>2. NewIsAlone'
  BY DEF TypeOK, IInv, NewIsAlone, Beats, NoConnection, NetworkPartition, field, connections
<1>3. MissCountsAgree'
  BY DEF TypeOK, IInv, MissCountsAgree, NetworkPartition, field, connections
<1>4. TasksAreSound'
  BY DEF TypeOK, IInv, TasksAreSound, NoConnection, NetworkPartition, field, connections
<1>5. Unmade'
  BY BoundsAssumption DEF TypeOK, IInv, Unmade, Owns, Connection, NoConnection,
     NetworkPartition, field, connections
<1>6. AliveIsHeld'
  BY BoundsAssumption DEF TypeOK, IInv, AliveIsHeld, Alive, Beats, Held, Owns, Connection,
     NoConnection, NetworkPartition, field, connections
<1>7. DisconnectedIsLast'
  BY DEF TypeOK, IInv, DisconnectedIsLast, NoConnection, NetworkPartition, field,
     connections
<1> QED
  BY <1>1, <1>2, <1>3, <1>4, <1>5, <1>6, <1>7 DEF IInv

\* Every step of the client keeps the invariant.
LEMMA Inductive == TypeOK /\ TypeOK' /\ IInv /\ [Next]_vars => IInv'
<1> SUFFICES ASSUME TypeOK, TypeOK', IInv, [Next]_vars PROVE IInv'
  OBVIOUS
<1>1. CASE NewStarted \/ NewConnected \/ NewFailed
  BY <1>1, NewStartedStep, NewConnectedStep, NewFailedStep
<1>2. ASSUME NEW c \in Connection, MonitorStep(c) PROVE IInv'
  BY <1>2, MonitorReconnectsStep, MonitorNotRunningStep DEF MonitorStep
<1>3. ASSUME NEW c \in Connection, HeartbeatStep(c) PROVE IInv'
  BY <1>3, HeartbeatActivityStep, HeartbeatStopsStep, HeartbeatTimerStep, HeartbeatPongStep,
     HeartbeatMissStep DEF HeartbeatStep
<1>4. ASSUME NEW c \in Connection, EnvironmentStep(c) PROVE IInv'
  BY <1>4, AnswerStep, ProxyEndsStep, ProxyFindsNoServerStep, NetworkPartitionStep
     DEF EnvironmentStep
<1>5. CASE TaskStep
  BY <1>5, TaskKillsStep, TaskConnectsStep, TaskResyncedStep, TaskFailsStep DEF TaskStep
<1>6. CASE TakeStep
  BY <1>6, TakeConnectedStep, TakeFailedStep DEF TakeStep
<1>7. CASE Shutdown \/ ShutdownEnds
  BY <1>7, ShutdownStep, ShutdownEndsStep
<1>8. ASSUME NEW n \in 0 .. MAX_RECONNECT_ATTEMPTS, ForceHeartbeatTimeout(n) PROVE IInv'
  BY <1>8, ForceHeartbeatTimeoutStep
<1>9. CASE ForceHeartbeatTimeoutIgnored
  BY <1>9, ForceHeartbeatTimeoutIgnoredStep
<1>10. CASE UNCHANGED vars
  BY <1>10 DEF vars, IInv, OneReconnectTask, MissCountsAgree, AttemptsAreBounded, NewIsAlone,
     OwnsAlone, ClosingAlone, TasksAreSound, Unmade, AliveIsHeld, DisconnectedIsLast, Owns,
     Held, Alive, Beats
<1> QED
  BY <1>1, <1>2, <1>3, <1>4, <1>5, <1>6, <1>7, <1>8, <1>9, <1>10 DEF Next

\* The inductive invariant holds of every reachable state.
THEOREM Invariant == Spec => []IInv
<1>1. TypeOK /\ TypeOK' /\ IInv /\ [Next]_vars => IInv'
  BY Inductive
<1> QED
  BY Initially, <1>1, TypeCorrect, PTL DEF Spec

\* Reconnecting and a reconnect task go together, and never are there two tasks.
THEOREM OneReconnectTaskHolds == Spec => []OneReconnectTask
<1>1. IInv => OneReconnectTask
  BY DEF IInv
<1> QED
  BY <1>1, Invariant, PTL

\* At most one proxy of the client is attached to the server at a time.
THEOREM OneLiveProxyHolds == Spec => []OneLiveProxy
<1>1. TypeOK /\ IInv => OneLiveProxy
  <2> SUFFICES ASSUME TypeOK, IInv, NEW c \in Connection, NEW d \in Connection,
                      io[c] = "running", io[d] = "running"
               PROVE  c = d
    BY DEF OneLiveProxy
  <2>1. Held(c) /\ Held(d)
    BY DEF IInv, AliveIsHeld, Alive
  <2> QED
    BY <2>1, HeldOnce
<1> QED
  BY <1>1, Invariant, TypeCorrect, PTL

\* The missed heartbeats of the state and of the heartbeat task agree, below the
\* limit.
THEOREM MissCountsAgreeHolds == Spec => []MissCountsAgree
<1>1. IInv => MissCountsAgree
  BY DEF IInv
<1> QED
  BY <1>1, Invariant, PTL

\* The client gives up after MAX_RECONNECT_ATTEMPTS failed attempts in a row.
THEOREM AttemptsAreBoundedHolds == Spec => []AttemptsAreBounded
<1>1. IInv => AttemptsAreBounded
  BY DEF IInv
<1> QED
  BY <1>1, Invariant, PTL

\* The event Disconnected is emitted at most once.
THEOREM DisconnectedOnceHolds == Spec => []DisconnectedOnce
<1>1. IInv => DisconnectedOnce
  BY DEF IInv, DisconnectedIsLast, DisconnectedOnce
<1> QED
  BY <1>1, Invariant, PTL

-----------------------------------------------------------------------------
\* A heartbeat that has something to report while there is no state to report it
\* to is the one that shutdown_processes lets live on.
LEMMA ReportsAfterShutdown ==
    ASSUME TypeOK, IInv, NEW c \in Connection, Beats(c), state = "None",
           hbMissed[c] # 0 \/ heartbeat[c] = "pinging"
    PROVE  shut
<1>1. Held(c)
  BY DEF IInv, AliveIsHeld, Alive
<1>2. c # NoConnection
  BY DEF Connection, NoConnection
<1>3. \A t \in tasks : c # t.conn
  BY <1>2 DEF IInv, TasksAreSound
<1>4. (~ Owns /\ new = "done") \/ new = "failed"
  BY DEF TypeOK, IInv, NewIsAlone, Owns
<1>5. c = closing
  BY <1>1, <1>3, <1>4 DEF Held, Owns
<1> QED
  BY <1>2, <1>5 DEF IInv, ClosingAlone

\* handle_heartbeat_result finds no state only after shutdown_processes.
LEMMA OnlyShutdownPanicsStep ==
    TypeOK /\ IInv /\ OnlyShutdownPanics /\ [Next]_vars => OnlyShutdownPanics'
<1> SUFFICES ASSUME TypeOK, IInv, OnlyShutdownPanics, [Next]_vars PROVE OnlyShutdownPanics'
  OBVIOUS
<1> USE DEF OnlyShutdownPanics
<1>1. CASE NewStarted \/ NewConnected \/ NewFailed
  BY <1>1 DEF NewStarted, NewConnected, NewFailed
<1>2. ASSUME NEW c \in Connection, MonitorStep(c) PROVE OnlyShutdownPanics'
  BY <1>2 DEF MonitorStep, MonitorReconnects, MonitorNotRunning
<1>3. ASSUME NEW c \in Connection, NEW n \in Nat, HandleHeartbeatResult(c, n),
             Beats(c), hbMissed[c] # 0 \/ heartbeat[c] = "pinging", UNCHANGED shut
      PROVE  OnlyShutdownPanics'
  <2>1. CASE state = "None"
    BY <1>3, <2>1, ReportsAfterShutdown
  <2>2. CASE state # "None"
    BY <1>3, <2>2 DEF HandleHeartbeatResult
  <2> QED
    BY <2>1, <2>2
<1>4. ASSUME NEW c \in Connection, HeartbeatActivity(c) \/ HeartbeatPong(c)
      PROVE  OnlyShutdownPanics'
  BY <1>3, <1>4 DEF HeartbeatActivity, HeartbeatPong, Recovers, Listening, Beats
<1>5. ASSUME NEW c \in Connection, HeartbeatMiss(c) PROVE OnlyShutdownPanics'
  <2>1. hbMissed[c] + 1 \in Nat
    BY DEF TypeOK
  <2> QED
    BY <1>3, <1>5, <2>1 DEF HeartbeatMiss, Beats
<1>6. ASSUME NEW c \in Connection, HeartbeatStops(c) \/ HeartbeatTimer(c)
      PROVE  OnlyShutdownPanics'
  BY <1>6 DEF HeartbeatStops, HeartbeatTimer
<1>7. ASSUME NEW c \in Connection, EnvironmentStep(c) PROVE OnlyShutdownPanics'
  BY <1>7 DEF EnvironmentStep, Answer, ProxyEnds, ProxyFindsNoServer, NetworkPartition
<1>8. CASE TaskStep \/ TakeStep
  BY <1>8 DEF TaskStep, TaskKills, TaskConnects, TaskResynced, TaskFails, TakeStep,
     TakeConnected, TakeFailed
<1>9. CASE Shutdown \/ ShutdownEnds
  BY <1>9 DEF Shutdown, ShutdownEnds
<1>10. ASSUME NEW n \in 0 .. MAX_RECONNECT_ATTEMPTS, ForceHeartbeatTimeout(n)
       PROVE  OnlyShutdownPanics'
  BY <1>10 DEF ForceHeartbeatTimeout
<1>11. CASE ForceHeartbeatTimeoutIgnored
  BY <1>11 DEF ForceHeartbeatTimeoutIgnored
<1>12. CASE UNCHANGED vars
  BY <1>12 DEF vars
<1> QED
  BY <1>1, <1>2, <1>4, <1>5, <1>6, <1>7, <1>8, <1>9, <1>10, <1>11, <1>12
     DEF Next, HeartbeatStep

\* The state is there whenever a heartbeat has something to report, until
\* shutdown_processes.
THEOREM OnlyShutdownPanicsHolds == Spec => []OnlyShutdownPanics
<1>1. Init => OnlyShutdownPanics
  BY DEF Init, OnlyShutdownPanics
<1> QED
  BY <1>1, OnlyShutdownPanicsStep, Invariant, TypeCorrect, PTL DEF Spec

-----------------------------------------------------------------------------
\* Once RemoteClient::new is done the state is no longer Connecting.
NewIsOver == new \in {"done", "failed"} => state # "Connecting"

\* What the state may become while the client exists: what can be shown next.
StateStep ==
    \/ state' = state
    \/ state = "Connected" /\ state' \in {"HeartbeatMissed", "Reconnecting"}
    \/ state = "HeartbeatMissed" /\ state' \in {"Connected", "Reconnecting"}
    \/ state = "Reconnecting" /\ state' = "Connected"
    \/ state' \in {"None", "ReconnectExhausted", "ServerNotRunning"}

\* reconnect, from a state it accepts.
LEMMA TryAgainStates ==
    ASSUME Owns, NEW n, NEW old, TryAgain(n, old)
    PROVE  StateStep
BY DEF Owns, TryAgain, SetDisconnected, SetField, StateStep

\* handle_heartbeat_result.
LEMMA HandleStates ==
    ASSUME NEW c \in Connection, NEW n \in Nat, HandleHeartbeatResult(c, n)
    PROVE  StateStep
<1>1. CASE state = "None" \/ n < MAX_MISSED_HEARTBEATS
  BY <1>1, BoundsAssumption DEF HandleHeartbeatResult, SetField, Owns, StateStep, field
<1>2. CASE state # "None" /\ n >= MAX_MISSED_HEARTBEATS
  <2>1. (CanReconnect /\ TryAgain(0, tasks)) \/ UNCHANGED field
    BY <1>2, BoundsAssumption DEF HandleHeartbeatResult
  <2> QED
    BY <2>1, TryAgainStates DEF CanReconnect, StateStep, field
<1> QED
  BY <1>1, <1>2, BoundsAssumption

\* Every step but those of RemoteClient::new changes the state in one of these ways.
LEMMA StatesAreSteps ==
    ASSUME TypeOK, [Next]_vars, ~ (NewStarted \/ NewConnected \/ NewFailed)
    PROVE  StateStep /\ new' = new
<1>1. ASSUME NEW c \in Connection, MonitorStep(c) PROVE StateStep /\ new' = new
  <2>1. CASE MonitorReconnects(c)
    BY <2>1, TryAgainStates DEF MonitorReconnects, CanReconnect, StateStep, field
  <2>2. CASE MonitorNotRunning(c)
    BY <2>2 DEF MonitorNotRunning, SetDisconnected, SetField, StateStep
  <2> QED
    BY <1>1, <2>1, <2>2 DEF MonitorStep
<1>2. ASSUME NEW c \in Connection, HeartbeatActivity(c) \/ HeartbeatPong(c)
      PROVE  StateStep /\ new' = new
  <2>1. HandleHeartbeatResult(c, 0) \/ UNCHANGED field
    BY <1>2 DEF HeartbeatActivity, HeartbeatPong, Recovers, field
  <2> QED
    BY <1>2, <2>1, HandleStates DEF HeartbeatActivity, HeartbeatPong, StateStep, field
<1>3. ASSUME NEW c \in Connection, HeartbeatMiss(c) PROVE StateStep /\ new' = new
  <2>1. hbMissed[c] + 1 \in Nat
    BY DEF TypeOK
  <2> QED
    BY <1>3, <2>1, HandleStates DEF HeartbeatMiss
<1>4. ASSUME NEW c \in Connection, HeartbeatStops(c) \/ HeartbeatTimer(c)
      PROVE  StateStep /\ new' = new
  BY <1>4 DEF HeartbeatStops, HeartbeatTimer, field, StateStep
<1>5. ASSUME NEW c \in Connection, EnvironmentStep(c) PROVE StateStep /\ new' = new
  BY <1>5 DEF EnvironmentStep, Answer, ProxyEnds, ProxyFindsNoServer, NetworkPartition, field,
     StateStep
<1>6. CASE TaskStep
  BY <1>6 DEF TaskStep, TaskKills, TaskConnects, TaskResynced, TaskFails, field, StateStep
<1>7. CASE TakeStep
  BY <1>7 DEF TakeStep, TakeConnected, TakeFailed, StillReconnecting, TryAgain,
     SetDisconnected, SetField, field, StateStep
<1>8. CASE Shutdown \/ ShutdownEnds \/ ForceHeartbeatTimeoutIgnored
  BY <1>8 DEF Shutdown, ShutdownEnds, ForceHeartbeatTimeoutIgnored, SetField, field, StateStep
<1>9. ASSUME NEW n \in 0 .. MAX_RECONNECT_ATTEMPTS, ForceHeartbeatTimeout(n)
      PROVE  StateStep /\ new' = new
  BY <1>9, TryAgainStates DEF ForceHeartbeatTimeout, Owns
<1>10. CASE UNCHANGED vars
  BY <1>10 DEF vars, field, StateStep
<1> QED
  BY <1>1, <1>2, <1>3, <1>4, <1>5, <1>6, <1>7, <1>8, <1>9, <1>10 DEF Next, HeartbeatStep

\* What the windows are shown begins as ConnectionStatus does, and each step of the
\* client is one of ConnectionStatus or shows nothing new.
THEOREM StatusTakesNoOtherWay == Spec => Shown!Init /\ [][Shown!Next]_connection_state
<1>1. Init => Shown!Init /\ NewIsOver
  BY DEF Init, Shown!Init, connection_state, NewIsOver
<1>2. TypeOK /\ NewIsOver /\ [Next]_vars => NewIsOver' /\ [Shown!Next]_connection_state
  <2> SUFFICES ASSUME TypeOK, NewIsOver, [Next]_vars
               PROVE  NewIsOver' /\ [Shown!Next]_connection_state
    OBVIOUS
  <2> USE DEF NewIsOver, connection_state, Shown!Next, Shown!Establish, Shown!Miss,
          Shown!Resolve, Shown!Lose, Shown!Settle, TypeOK
  <2>1. CASE NewStarted
    BY <2>1 DEF NewStarted, field
  <2>2. CASE NewConnected \/ NewFailed
    BY <2>2 DEF NewConnected, NewFailed, SetField
  <2>3. CASE ~ (NewStarted \/ NewConnected \/ NewFailed)
    <3>1. StateStep /\ new' = new
      BY <2>3, StatesAreSteps
    <3> QED
      BY <3>1 DEF StateStep
  <2> QED
    BY <2>1, <2>2, <2>3
<1> QED
  BY <1>1, <1>2, TypeCorrect, PTL DEF Spec
=============================================================================
