---------------------------- MODULE RemoteClient ----------------------------
(***************************************************************************)
(* RemoteClient: the state of one connection to a remote host, and the     *)
(* tasks that change it.                                                   *)
(*                                                                         *)
(* All of them run on the foreground thread and interleave at their awaits:*)
(* RemoteClient::new, the monitor that waits for the proxy to exit, the    *)
(* heartbeat, the reconnect task and the task that takes in its result.    *)
(* Dropping a task stops it.  A monitor owns the io task of its proxy, so  *)
(* dropping it ends the proxy; State::Connected and HeartbeatMissed own    *)
(* the monitor and the heartbeat of one connection.                        *)
(*                                                                         *)
(* Connections are numbered in the order they are made.  ReconnectFailed   *)
(* is never left standing: reconnect follows in the same update.           *)
(*                                                                         *)
(* AnyState, ConnectedOnly, HeartbeatsOnly, MonitorsOnly, OneMore,         *)
(* CountsOnce, CountsDown and Whatever are what a faulty version would do; *)
(* no action uses them.                                                    *)
(***************************************************************************)
EXTENDS Naturals, FiniteSets

CONSTANTS
    MAX_MISSED_HEARTBEATS,
    MAX_RECONNECT_ATTEMPTS,
    MaxConnections     \* bound on the connections made

ASSUME BoundsAssumption ==
    /\ MAX_MISSED_HEARTBEATS \in Nat \ {0}
    /\ MAX_RECONNECT_ATTEMPTS \in Nat
    /\ MaxConnections \in Nat \ {0}

Connection == 1 .. MaxConnections
NoConnection == 0

VARIABLES
    state,       \* the state field; "None" while it is taken
    missed,      \* missed_heartbeats of State::HeartbeatMissed
    current,     \* the connection whose tasks the state owns
    new,         \* where RemoteClient::new stands
    io,          \* io task of a connection and the exit of its proxy
    monitor,     \* multiplex_task of a connection
    heartbeat,   \* heartbeat task of a connection
    hbMissed,    \* its local count
    answered,    \* connections whose ping or resync got its answer
    silent,      \* connections that stay open and carry nothing any more
    made,        \* connections made so far
    tasks,       \* reconnect tasks: where one stands, its connection, attempts
    closing,     \* the connection whose tasks shutdown_processes holds
    shut,        \* shutdown_processes was called
    tries,       \* reconnect tasks started since the client was last Connected
    disconnects, \* Disconnected events emitted since the client was handed out
    panicked     \* an unwrap of the state failed

field == <<state, missed, current>>
connections == <<io, monitor, heartbeat, hbMissed>>
environment == <<answered, silent, made>>
vars == <<state, missed, current, new, io, monitor, heartbeat, hbMissed, answered,
          silent, made, tasks, tries, closing, shut, disconnects, panicked>>

Init ==
    /\ state = "Connecting"
    /\ missed = 0
    /\ current = NoConnection
    /\ new = "waiting"
    /\ io = [c \in Connection |-> IF c = 1 THEN "running" ELSE "none"]
    /\ monitor = [c \in Connection |-> "none"]
    /\ heartbeat = [c \in Connection |-> "none"]
    /\ hbMissed = [c \in Connection |-> 0]
    /\ answered = {}
    /\ silent = {}
    /\ made = 1
    /\ tasks = {}
    /\ tries = 0
    /\ closing = NoConnection
    /\ shut = FALSE
    /\ disconnects = 0
    /\ panicked = FALSE

-----------------------------------------------------------------------------
(* What the actions share *)

Owns == state \in {"Connected", "HeartbeatMissed"}
Owned == IF Owns THEN {current} ELSE {}

\* State::can_reconnect, ReconnectFailed being transient.
AnyState == state # "None"
ConnectedOnly == state = "Connected"
CanReconnect == Owns

\* Drop the monitors of M, their io tasks and proxies, and the heartbeats of H.
MonitorsOnly(M, H) ==
    /\ io' = [c \in Connection |-> IF c \in M THEN "gone" ELSE io[c]]
    /\ monitor' = [c \in Connection |-> IF c \in M THEN "gone" ELSE monitor[c]]
    /\ UNCHANGED heartbeat
HeartbeatsOnly(M, H) ==
    /\ heartbeat' = [c \in Connection |-> IF c \in H THEN "gone" ELSE heartbeat[c]]
    /\ UNCHANGED <<io, monitor>>
DropTasks(M, H) ==
    /\ io' = [c \in Connection |-> IF c \in M THEN "gone" ELSE io[c]]
    /\ monitor' = [c \in Connection |-> IF c \in M THEN "gone" ELSE monitor[c]]
    /\ heartbeat' = [c \in Connection |-> IF c \in H THEN "gone" ELSE heartbeat[c]]

Drop(C) == DropTasks(C, C) /\ UNCHANGED hbMissed

SetField(s, n, c) == state' = s /\ missed' = n /\ current' = c

\* set_state of a state that emits Disconnected; until RemoteClient::new returns
\* the client, nobody can listen.
SetDisconnected(s) ==
    /\ SetField(s, 0, NoConnection)
    /\ disconnects' = IF new = "done" THEN disconnects + 1 ELSE disconnects

\* The rest of reconnect, after n failed attempts: give up, or start a task
\* next to those in old.
OneMore(n) == n > MAX_RECONNECT_ATTEMPTS
Exhausted(n) == n >= MAX_RECONNECT_ATTEMPTS

TryAgain(n, old) ==
    \/ /\ Exhausted(n)
       /\ SetDisconnected("ReconnectExhausted")
       /\ tasks' = old
       /\ UNCHANGED tries
    \/ /\ ~ Exhausted(n)
       /\ SetField("Reconnecting", 0, NoConnection)
       /\ tasks' = old \union
             {[pc |-> "killing", conn |-> NoConnection, attempts |-> n + 1]}
       /\ tries' = tries + 1
       /\ UNCHANGED disconnects

-----------------------------------------------------------------------------
(* RemoteClient::new *)

\* RemoteStarted arrived: the proxy is monitored, and pinged.
NewStarted ==
    /\ new = "waiting"
    /\ io[1] = "running" /\ 1 \notin silent
    /\ new' = "pinging"
    /\ monitor' = [monitor EXCEPT ![1] = "waiting"]
    /\ UNCHANGED <<field, io, heartbeat, hbMissed, environment, tasks, tries, closing>>
    /\ UNCHANGED <<shut, disconnects, panicked>>

NewConnected ==
    /\ new = "pinging"
    /\ 1 \in answered
    /\ new' = "done"
    /\ SetField("Connected", 0, 1)
    /\ heartbeat' = [heartbeat EXCEPT ![1] = "armed"]
    /\ UNCHANGED <<io, monitor, hbMissed, environment, tasks, tries, closing>>
    /\ UNCHANGED <<shut, disconnects, panicked>>

\* A timeout, or cancellation: the client is dropped with all it holds.
NewFailed ==
    /\ new \in {"waiting", "pinging"}
    /\ new' = "failed"
    /\ SetField("None", 0, NoConnection)
    /\ Drop({1})
    /\ UNCHANGED <<environment, tasks, tries, closing, shut, disconnects, panicked>>

-----------------------------------------------------------------------------
(* monitor *)

\* The proxy exited, or its pipes broke: reconnect, which may refuse.
MonitorReconnects(c) ==
    /\ monitor[c] = "waiting"
    /\ io[c] = "ended"
    /\ DropTasks(Owned \union {c}, Owned)
    /\ \/ CanReconnect /\ TryAgain(0, tasks)
       \/ ~ CanReconnect /\ UNCHANGED <<field, tasks, tries, disconnects>>
    /\ UNCHANGED hbMissed
    /\ UNCHANGED <<new, environment, closing, shut, panicked>>

\* The proxy found no server to reconnect to: whatever the state was.
MonitorNotRunning(c) ==
    /\ monitor[c] = "waiting"
    /\ io[c] = "notRunning"
    /\ DropTasks(Owned \union {c}, Owned)
    /\ SetDisconnected("ServerNotRunning")
    /\ UNCHANGED hbMissed
    /\ UNCHANGED <<new, environment, tasks, tries, closing, shut, panicked>>

-----------------------------------------------------------------------------
(* heartbeat *)

CountsOnce == 1
heartbeat_missed == IF state = "Connected" THEN 1 ELSE missed + 1

\* handle_heartbeat_result(n), called by the heartbeat of connection c, which
\* then arms its timer unless it breaks.
HandleHeartbeatResult(c, n) ==
    /\ hbMissed' = [hbMissed EXCEPT ![c] = n]
    /\ \/ /\ state = "None"        \* self.state.take().unwrap()
          /\ panicked' = TRUE
          /\ heartbeat' = [heartbeat EXCEPT ![c] = "gone"]
          /\ UNCHANGED <<field, io, monitor, tasks, tries, disconnects>>
       \/ /\ state # "None"
          /\ n < MAX_MISSED_HEARTBEATS
          /\ \/ Owns /\ n > 0
                /\ SetField("HeartbeatMissed", heartbeat_missed, current)
             \/ Owns /\ n = 0 /\ SetField("Connected", 0, current)
             \/ ~ Owns /\ UNCHANGED field
          /\ heartbeat' = [heartbeat EXCEPT ![c] = "armed"]
          /\ UNCHANGED <<io, monitor, tasks, tries, disconnects, panicked>>
       \/ /\ state # "None"
          /\ n >= MAX_MISSED_HEARTBEATS
          /\ DropTasks(Owned, Owned \union {c})
          /\ \/ CanReconnect /\ TryAgain(0, tasks)
             \/ ~ CanReconnect /\ UNCHANGED <<field, tasks, tries, disconnects>>
          /\ UNCHANGED panicked

Listening(c) == heartbeat[c] \in {"armed", "unarmed"}

\* Life from the server: if heartbeats were missed, they are forgotten.
CountsDown(c) == HandleHeartbeatResult(c, hbMissed[c] - 1)
Recovers(c) == hbMissed[c] # 0 /\ HandleHeartbeatResult(c, 0)

\* Something arrived: misses are forgotten, and the timer is armed again.
HeartbeatActivity(c) ==
    /\ Listening(c)
    /\ io[c] = "running" /\ c \notin silent
    /\ \/ Recovers(c)
       \/ /\ hbMissed[c] = 0
          /\ heartbeat' = [heartbeat EXCEPT ![c] = "armed"]
          /\ UNCHANGED <<field, io, monitor, hbMissed, tasks, tries, disconnects, panicked>>
    /\ UNCHANGED <<new, environment, closing, shut>>

\* The io task is gone, and with it the sender of connection activity.
HeartbeatStops(c) ==
    /\ Listening(c)
    /\ io[c] # "running"
    /\ heartbeat' = [heartbeat EXCEPT ![c] = "gone"]
    /\ UNCHANGED <<field, new, io, monitor, hbMissed, environment, tasks, tries, closing>>
    /\ UNCHANGED <<shut, disconnects, panicked>>

\* The timer cannot expire before the result of reconnect is taken in.
HeartbeatTimer(c) ==
    /\ heartbeat[c] = "armed"
    /\ io[c] = "running"
    /\ \A t \in tasks : t.conn # c
    /\ heartbeat' = [heartbeat EXCEPT ![c] = "pinging"]
    /\ UNCHANGED <<field, new, io, monitor, hbMissed, environment, tasks, tries, closing>>
    /\ UNCHANGED <<shut, disconnects, panicked>>

\* Activity, an answer, or a closed activity channel while the ping is out.
\* After a ping with nothing to recover from, the timer is not armed again.
HeartbeatPong(c) ==
    /\ heartbeat[c] = "pinging"
    /\ io[c] # "running" \/ c \notin silent
    /\ \/ Recovers(c)
       \/ /\ hbMissed[c] = 0
          /\ heartbeat' = [heartbeat EXCEPT ![c] = "unarmed"]
          /\ UNCHANGED <<field, io, monitor, hbMissed, tasks, tries, disconnects, panicked>>
    /\ UNCHANGED <<new, environment, closing, shut>>

HeartbeatMiss(c) ==
    /\ heartbeat[c] = "pinging"
    /\ io[c] = "running"
    /\ HandleHeartbeatResult(c, hbMissed[c] + 1)
    /\ UNCHANGED <<new, environment, closing, shut>>

-----------------------------------------------------------------------------
(* The reconnect task *)

Advance(t, pc, c) ==
    tasks' = (tasks \ {t}) \union {[pc |-> pc, conn |-> c, attempts |-> t.attempts]}

\* remote_connection.kill(), then ConnectionPool::connect.
TaskKills(t) ==
    /\ t.pc = "killing"
    /\ Advance(t, "connecting", t.conn)
    /\ UNCHANGED <<field, new, connections, environment, tries, closing, shut>>
    /\ UNCHANGED <<disconnects, panicked>>

\* A connection: start its proxy, monitor it, and resync the channel client.
TaskConnects(t) ==
    /\ t.pc = "connecting"
    /\ made < MaxConnections
    /\ made' = made + 1
    /\ Advance(t, "resyncing", made + 1)
    /\ io' = [io EXCEPT ![made + 1] = "running"]
    /\ monitor' = [monitor EXCEPT ![made + 1] = "waiting"]
    /\ UNCHANGED <<field, new, heartbeat, hbMissed, answered, silent, tries>>
    /\ UNCHANGED <<closing, shut, disconnects, panicked>>

TaskResynced(t) ==
    /\ t.pc = "resyncing"
    /\ t.conn \in answered
    /\ Advance(t, "connected", t.conn)
    /\ heartbeat' = [heartbeat EXCEPT ![t.conn] = "armed"]
    /\ UNCHANGED <<field, new, io, monitor, hbMissed, environment, tries>>
    /\ UNCHANGED <<closing, shut, disconnects, panicked>>

\* kill or connect failed, or resync timed out, which drops the new monitor.
TaskFails(t) ==
    /\ t.pc \in {"killing", "connecting", "resyncing"}
    /\ Advance(t, "failed", NoConnection)
    /\ Drop({t.conn})
    /\ UNCHANGED <<field, new, environment, tries, closing, shut>>
    /\ UNCHANGED <<disconnects, panicked>>

\* The second task takes in the result if the client is still Reconnecting,
\* and drops it otherwise.
Whatever == TRUE
StillReconnecting == state = "Reconnecting"

TakeConnected(t) ==
    /\ t.pc = "connected"
    /\ tasks' = tasks \ {t}
    /\ \/ /\ StillReconnecting
          /\ SetField("Connected", 0, t.conn)
          /\ tries' = 0
          /\ UNCHANGED connections
       \/ /\ ~ StillReconnecting
          /\ Drop({t.conn})
          /\ UNCHANGED <<field, tries>>
    /\ UNCHANGED <<new, environment, closing, shut, disconnects, panicked>>

TakeFailed(t) ==
    /\ t.pc = "failed"
    /\ \/ StillReconnecting /\ TryAgain(t.attempts, tasks \ {t})
       \/ ~ StillReconnecting /\ tasks' = tasks \ {t}
          /\ UNCHANGED <<field, tries, disconnects>>
    /\ UNCHANGED <<new, connections, environment, closing, shut, panicked>>

-----------------------------------------------------------------------------
(* Calls of the project and of the debug actions *)

\* shutdown_processes: in Connected the tasks live on for 50 ms.
Shutdown ==
    /\ new = "done" /\ ~ shut
    /\ shut' = TRUE
    /\ SetField("None", 0, NoConnection)
    /\ \/ /\ state = "Connected"
          /\ closing' = current
          /\ UNCHANGED connections
       \/ /\ state # "Connected"
          /\ Drop(Owned)
          /\ UNCHANGED closing
    /\ UNCHANGED <<new, environment, tasks, tries, disconnects, panicked>>

ShutdownEnds ==
    /\ closing # NoConnection
    /\ closing' = NoConnection
    /\ Drop({closing})
    /\ UNCHANGED <<field, new, environment, tasks, tries, shut, disconnects, panicked>>

\* force_heartbeat_timeout(n): reconnect as after n attempts.
ForceHeartbeatTimeout(n) ==
    /\ new = "done"
    /\ state = "Connected"
    /\ Drop(Owned)
    /\ TryAgain(n, tasks)
    /\ UNCHANGED <<new, environment, closing, shut, panicked>>

\* In another state it means to do nothing, but has taken the state by then.
ForceHeartbeatTimeoutIgnored ==
    /\ new = "done"
    /\ state # "Connected"
    /\ SetField("None", 0, NoConnection)
    /\ Drop(Owned)
    /\ UNCHANGED <<new, environment, tasks, tries, closing, shut, disconnects, panicked>>

-----------------------------------------------------------------------------
(* The proxy and the network *)

Awaiting == (IF new = "pinging" THEN {1} ELSE {}) \union
            {t.conn : t \in {t \in tasks : t.pc = "resyncing"}}

Answer(c) ==
    /\ c \in Awaiting \ (answered \union silent)
    /\ io[c] = "running"
    /\ answered' = answered \union {c}
    /\ UNCHANGED <<field, new, connections, silent, made, tasks, tries, closing>>
    /\ UNCHANGED <<shut, disconnects, panicked>>

\* The proxy exits or a pipe breaks, force_disconnect being one of the causes.
ProxyEnds(c) ==
    /\ io[c] = "running"
    /\ io' = [io EXCEPT ![c] = "ended"]
    /\ UNCHANGED <<field, new, monitor, heartbeat, hbMissed, environment, tasks, tries>>
    /\ UNCHANGED <<closing, shut, disconnects, panicked>>

\* The proxy exits with ServerNotRunning: it was to reconnect and found none, or
\* forwarding failed and the server was gone.
ProxyFindsNoServer(c) ==
    /\ io[c] = "running"
    /\ io' = [io EXCEPT ![c] = "notRunning"]
    /\ UNCHANGED <<field, new, monitor, heartbeat, hbMissed, environment, tasks, tries>>
    /\ UNCHANGED <<closing, shut, disconnects, panicked>>

NetworkPartition(c) ==
    /\ io[c] = "running"
    /\ c \notin silent
    /\ silent' = silent \union {c}
    /\ UNCHANGED <<field, new, connections, answered, made, tasks, tries, closing>>
    /\ UNCHANGED <<shut, disconnects, panicked>>

-----------------------------------------------------------------------------
MonitorStep(c) == MonitorReconnects(c) \/ MonitorNotRunning(c)

HeartbeatStep(c) ==
    \/ HeartbeatActivity(c)
    \/ HeartbeatStops(c)
    \/ HeartbeatTimer(c)
    \/ HeartbeatPong(c)
    \/ HeartbeatMiss(c)

TaskStep == \E t \in tasks :
    \/ TaskKills(t)
    \/ TaskConnects(t)
    \/ TaskResynced(t)
    \/ TaskFails(t)

TakeStep == \E t \in tasks : TakeConnected(t) \/ TakeFailed(t)

EnvironmentStep(c) ==
    Answer(c) \/ ProxyEnds(c) \/ ProxyFindsNoServer(c) \/ NetworkPartition(c)

Next ==
    \/ NewStarted \/ NewConnected \/ NewFailed
    \/ \E c \in Connection :
        MonitorStep(c) \/ HeartbeatStep(c) \/ EnvironmentStep(c)
    \/ TaskStep \/ TakeStep
    \/ Shutdown \/ ShutdownEnds
    \/ \E n \in 0 .. MAX_RECONNECT_ATTEMPTS : ForceHeartbeatTimeout(n)
    \/ ForceHeartbeatTimeoutIgnored

Spec == Init /\ [][Next]_vars

(***************************************************************************)
(* Ready tasks run and timers fire: the tasks of the client move on.  The  *)
(* network and the user owe nothing.  Only the steps that a timer or the   *)
(* end of the io task brings about are fair for the heartbeat.             *)
(***************************************************************************)
Fairness ==
    /\ WF_vars(NewConnected)
    /\ WF_vars(NewFailed)
    /\ \A c \in Connection :
        /\ WF_vars(MonitorStep(c))
        /\ WF_vars(HeartbeatStops(c))
        /\ WF_vars(HeartbeatTimer(c))
        /\ WF_vars(HeartbeatPong(c) \/ HeartbeatMiss(c))
    /\ WF_vars(TaskStep)
    /\ WF_vars(TakeStep)
    /\ WF_vars(ShutdownEnds)

FairSpec == Spec /\ Fairness

-----------------------------------------------------------------------------
(* Properties *)

TypeOK ==
    /\ state \in {"None", "Connecting", "Connected", "HeartbeatMissed",
                  "Reconnecting", "ReconnectExhausted", "ServerNotRunning"}
    /\ missed \in Nat
    /\ current \in Connection \union {NoConnection}
    /\ new \in {"waiting", "pinging", "done", "failed"}
    /\ io \in [Connection -> {"none", "running", "ended", "notRunning", "gone"}]
    /\ monitor \in [Connection -> {"none", "waiting", "gone"}]
    /\ heartbeat \in [Connection -> {"none", "armed", "unarmed", "pinging", "gone"}]
    /\ hbMissed \in [Connection -> Nat]
    /\ answered \subseteq Connection
    /\ silent \subseteq Connection
    /\ made \in Connection
    /\ tasks \subseteq [pc : {"killing", "connecting", "resyncing", "connected", "failed"},
                        conn : Connection \union {NoConnection}, attempts : Nat]
    /\ tries \in Nat
    /\ closing \in Connection \union {NoConnection}
    /\ shut \in BOOLEAN
    /\ disconnects \in Nat
    /\ panicked \in BOOLEAN

\* A reconnect task runs whenever the client says Reconnecting, and never two of
\* them: one that outlives that state finds another it cannot reconnect from.
OneReconnectTask ==
    /\ state = "Reconnecting" => tasks # {}
    /\ tasks # {} => state \in {"Reconnecting", "ServerNotRunning", "None"}
    /\ \A s, t \in tasks : s = t

\* At most one proxy of this client is attached to the server at a time: the
\* old connection's tasks are dropped before the next one is made.
OneLiveProxy ==
    \A c, d \in Connection : io[c] = "running" /\ io[d] = "running" => c = d

\* The count in the state and the heartbeat task's own count go together, and
\* neither reaches the limit without a reconnect.
MissCountsAgree ==
    /\ state = "Connected" => hbMissed[current] = 0
    /\ state = "HeartbeatMissed" =>
           /\ missed = hbMissed[current]
           /\ missed \in 1 .. MAX_MISSED_HEARTBEATS - 1

\* Failing reconnects do not go on for ever: the client gives up after
\* MAX_RECONNECT_ATTEMPTS in a row, however the first one was brought about.
AttemptsAreBounded == tries <= MAX_RECONNECT_ATTEMPTS

\* The window is told of a lost connection once.
DisconnectedOnce == disconnects <= 1

\* The state shown to the windows, which get the client when RemoteClient::new is
\* done, takes no other way than ConnectionStatus: it settles whenever it is
\* unsettled, and once Disconnected it stays so.
connection_state ==
    CASE new \in {"waiting", "pinging"} -> "Connecting"
      [] new \in {"done", "failed"}
            /\ state \in {"None", "ReconnectExhausted", "ServerNotRunning"} -> "Disconnected"
      [] OTHER -> state
Shown == INSTANCE ConnectionStatus WITH status <- connection_state
StatusIsAsShown == Shown!Spec

\* handle_heartbeat_result unwraps the state, which set_state, reconnect and the
\* debug actions take away for a while or for good: only in the 50 ms in which
\* shutdown_processes lets the heartbeat live on is there none to unwrap.
OnlyShutdownPanics == panicked => shut

\* After shutdown_processes no proxy is left running, not even one that a
\* reconnect task was about to start.
ShutdownStopsProxies == shut ~> [](\A c \in Connection : io[c] # "running")

\* The client lets go of a connection that it lost: one whose proxy exited, as
\* long as the monitor has not told of it yet, and one that went silent while
\* the heartbeat's timer is armed or its ping is out.  (A monitor that told of
\* it while the state was Connecting or Reconnecting was refused and is over,
\* and a heartbeat after an uneventful pong has no timer: those losses the code
\* does not notice.)
WatchedLoss(c) ==
    /\ Owns /\ current = c
    /\ monitor[c] = "waiting"
    /\ \/ io[c] \in {"ended", "notRunning"}
       \/ c \in silent /\ heartbeat[c] \in {"armed", "pinging"}
LossIsNoticed == \A c \in Connection : WatchedLoss(c) ~> current # c
=============================================================================
