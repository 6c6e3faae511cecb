--------------------------- MODULE ServerLifecycle ---------------------------
(***************************************************************************)
(* The processes behind one identifier on the remote host: proxies, which  *)
(* ssh runs for each connection, and the server they find through its pid  *)
(* file, or kill and spawn anew.  The processes share four files, and no   *)
(* lock.  A process may die at any step; a server's pid is not used again. *)
(*                                                                         *)
(* A path is tested and removed in one step.  What goes over the sockets   *)
(* is in ChannelClient; here a connection is the three streams a server    *)
(* accepted last, which may be of different proxies.                       *)
(*                                                                         *)
(* Swapped, FullyIdle, SparesIt and Remembered are what a faulty version   *)
(* would do; no action uses them.                                          *)
(***************************************************************************)
EXTENDS Naturals, Sequences, FiniteSets

CONSTANTS
    Proxies,     \* each runs once
    Servers,     \* their pids
    MaxCrowd     \* bound on the proxies of a host that is crowded

Nothing == "none"
Socket == {"stdin", "stdout", "stderr"}
ASSUME NamesAssumption == Nothing \notin Servers \union Proxies
ASSUME MaxCrowdAssumption == MaxCrowd \in Nat

VARIABLES
    files,       \* the pid in server.pid; who bound each socket file
    server,      \* where execute_run and start_server stand; the connections to each
                 \* socket that are not accepted yet; whose streams are accepted
    proxy,       \* where execute_proxy stands, server_pid, the files it has still to
                 \* remove, whom its streams lead to; servers up when it read the pid
    crowded      \* a proxy was started when another, or a server, was still starting

vars == <<files, server, proxy, crowded>>

Sockets == <<"stdin", "stdout", "stderr">>
HungUp == "hung up"
NoStreams == [k \in Socket |-> Nothing]
ServerAt(at) == [at |-> at, backlog |-> [k \in Socket |-> <<>>], connection |-> NoStreams]
ProxyAt(at) == [at |-> at, reconnecting |-> FALSE, pid |-> Nothing, remove |-> <<>>,
                streams |-> NoStreams, up |-> {}]

Init ==
    /\ files = [f \in Socket \union {"pid"} |-> Nothing]
    /\ server = [s \in Servers |-> ServerAt("none")]
    /\ proxy = [p \in Proxies |-> ProxyAt("none")]
    /\ crowded = FALSE

Alive(s) == s \in Servers /\ server[s].at \notin {"none", "dead"}
Up(s) == server[s].at \in {"accepting", "serving"}
Starting(s) == Alive(s) /\ ~Up(s)

Over == {"not running", "failed"}
Running(p) == proxy[p].at \notin Over \union {"none"}
Connected(p) == proxy[p].at = "connecting" /\ \A k \in Socket : proxy[p].streams[k] # Nothing

-----------------------------------------------------------------------------
(* The server: execute_run and start_server *)

Advance(s, from, to) == server[s].at = from /\ server' = [server EXCEPT ![s].at = to]
Exit(s) == server' = [server EXCEPT ![s] = ServerAt("dead")]

\* write_pid_file removes the file that is there, then writes its own.
RemovePidFile(s) ==
    /\ Advance(s, "spawned", "unnamed")
    /\ files' = [files EXCEPT !["pid"] = Nothing]
    /\ UNCHANGED <<proxy, crowded>>

Swapped(s) == Nothing
OwnPid(s) == s

WritePidFile(s) ==
    /\ Advance(s, "unnamed", "binding stdin")
    /\ files' = [files EXCEPT !["pid"] = OwnPid(s)]
    /\ UNCHANGED <<proxy, crowded>>

\* bind fails when the file exists, and the server with it.
BindSocket(s, from, socket, to) ==
    /\ server[s].at = from
    /\ \/ files[socket] = Nothing /\ Advance(s, from, to) /\ files' = [files EXCEPT ![socket] = s]
       \/ files[socket] # Nothing /\ Exit(s) /\ UNCHANGED files
    /\ UNCHANGED <<proxy, crowded>>

Bind(s) ==
    \/ BindSocket(s, "binding stdin", "stdin", "binding stdout")
    \/ BindSocket(s, "binding stdout", "stdout", "binding stderr")
    \/ BindSocket(s, "binding stderr", "stderr", "accepting")

Complete(s) == \A k \in Socket : server[s].backlog[k] # <<>>

\* Each socket accepts the first in its queue.
Accept(s) ==
    /\ server[s].at = "accepting"
    /\ Complete(s)
    /\ server' = [server EXCEPT ![s] =
            [at |-> "serving",
             backlog |-> [k \in Socket |-> Tail(@.backlog[k])],
             connection |-> [k \in Socket |-> Head(@.backlog[k])]]]
    /\ UNCHANGED <<files, proxy, crowded>>

Dropped(s) == [server EXCEPT ![s].at = "accepting", ![s].connection = NoStreams]

\* A stream of the connection is at its end, or cannot be written to: all are
\* dropped, and whoever holds one of them sees its end.
DropConnection(s) ==
    LET streams == server[s].connection IN
    /\ server[s].at = "serving"
    /\ \E k \in Socket : ~Running(streams[k])
    /\ server' = Dropped(s)
    /\ proxy' = [p \in Proxies |-> [proxy[p] EXCEPT !.streams =
            [k \in Socket |-> IF streams[k] = p /\ @[k] = s THEN HungUp ELSE @[k]]]]
    /\ UNCHANGED <<files, crowded>>

FullyIdle(s) == \A k \in Socket : server[s].backlog[k] = <<>>
Waits(s) == ~Complete(s)

\* IDLE_TIMEOUT passes without a connection.
IdleExit(s) ==
    /\ server[s].at = "accepting"
    /\ Waits(s)
    /\ Exit(s)
    /\ UNCHANGED <<files, proxy, crowded>>

\* It crashes, is killed, or its client asks it to quit: it leaves its files.
Die(s) ==
    /\ Alive(s)
    /\ Exit(s)
    /\ UNCHANGED <<files, proxy, crowded>>

-----------------------------------------------------------------------------
(* The proxy: execute_proxy *)

Go(p, from, to) == proxy[p].at = from /\ proxy' = [proxy EXCEPT ![p].at = to]
End(p, how) == proxy' = [proxy EXCEPT ![p] = ProxyAt(how)]

StartProxy(p) ==
    /\ proxy[p].at = "none"
    /\ \E reconnecting \in BOOLEAN :
        proxy' = [proxy EXCEPT ![p].at = "checking", ![p].reconnecting = reconnecting]
    /\ crowded' = (crowded \/ (\E s \in Servers : Starting(s))
                           \/ (\E q \in Proxies : Running(q) /\ ~Connected(q)))
    /\ crowded' => Cardinality({q \in Proxies : proxy'[q].at # "none"}) <= MaxCrowd
    /\ UNCHANGED <<files, server>>

ReadPidFile(p) ==
    /\ proxy[p].at = "checking"
    /\ proxy' = [proxy EXCEPT ![p].at = "checked", ![p].pid = files["pid"],
                              ![p].up = {s \in Servers : Up(s)}]
    /\ UNCHANGED <<files, server, crowded>>

\* There is such a process: attach to it, or replace it.
Found(p) ==
    /\ Alive(proxy[p].pid)
    /\ Go(p, "checked", IF proxy[p].reconnecting THEN "connecting" ELSE "killing")
    /\ UNCHANGED <<files, server, crowded>>

GoOn(p) ==
    IF proxy[p].reconnecting THEN End(p, "not running")
    ELSE proxy' = [proxy EXCEPT ![p].at = "spawning", ![p].remove = Sockets]

\* There is no file, or there is no such process and its file is removed,
\* which fails when that has been done already.
NotFound(p) ==
    /\ proxy[p].at = "checked"
    /\ ~Alive(proxy[p].pid)
    /\ \/ proxy[p].pid = Nothing /\ GoOn(p) /\ UNCHANGED files
       \/ /\ proxy[p].pid # Nothing /\ files["pid"] # Nothing
          /\ files' = [files EXCEPT !["pid"] = Nothing]
          /\ GoOn(p)
       \/ /\ proxy[p].pid # Nothing /\ files["pid"] = Nothing
          /\ End(p, "failed") /\ UNCHANGED files
    /\ UNCHANGED <<server, crowded>>

SparesIt(p) == server
Killed(p) ==
    IF Alive(proxy[p].pid) THEN [server EXCEPT ![proxy[p].pid] = ServerAt("dead")] ELSE server

\* The files to remove are those of kill_running_server and of spawn_server.
KillServer(p) ==
    /\ proxy[p].at = "killing"
    /\ server' = Killed(p)
    /\ proxy' = [proxy EXCEPT ![p].at = "spawning", ![p].remove = <<"pid">> \o Sockets \o Sockets]
    /\ UNCHANGED <<files, crowded>>

RemoveFile(p) ==
    /\ proxy[p].at = "spawning"
    /\ proxy[p].remove # <<>>
    /\ files' = [files EXCEPT ![Head(proxy[p].remove)] = Nothing]
    /\ proxy' = [proxy EXCEPT ![p].remove = Tail(@)]
    /\ UNCHANGED <<server, crowded>>

Spawn(p) ==
    /\ proxy[p].remove = <<>>
    /\ Go(p, "spawning", "waiting")
    /\ \E s \in Servers : Advance(s, "none", "spawned")
    /\ UNCHANGED <<files, crowded>>

Remembered(p) == proxy[p].pid
SpawnedPid(p) == files["pid"]

\* The sockets are there: the pid is read from the file.
Ready(p) ==
    /\ proxy[p].at = "waiting"
    /\ \A k \in Socket : files[k] # Nothing
    /\ \/ SpawnedPid(p) = Nothing /\ End(p, "failed")
       \/ /\ SpawnedPid(p) # Nothing
          /\ proxy' = [proxy EXCEPT ![p].at = "connecting", ![p].pid = SpawnedPid(p)]
    /\ UNCHANGED <<files, server, crowded>>

SpawnTimeout(p) ==
    /\ proxy[p].at = "waiting"
    /\ End(p, "failed")
    /\ UNCHANGED <<files, server, crowded>>

\* The three tasks connect in any order.
Connect(p, k) ==
    /\ proxy[p].at = "connecting"
    /\ proxy[p].streams[k] = Nothing
    /\ Alive(files[k])
    /\ proxy' = [proxy EXCEPT ![p].streams[k] = files[k]]
    /\ server' = [server EXCEPT ![files[k]].backlog[k] = Append(@, p)]
    /\ UNCHANGED <<files, crowded>>

\* One of them fails: it cannot connect, or its stream has ended.
Cut(p) ==
    /\ Go(p, "connecting", "cut")
    /\ \E k \in Socket :
        IF proxy[p].streams[k] = Nothing THEN ~Alive(files[k]) ELSE ~Alive(proxy[p].streams[k])
    /\ UNCHANGED <<files, server, crowded>>

\* check_server_running decides how the proxy exits.
Verify(p) ==
    /\ proxy[p].at = "cut"
    /\ End(p, IF Alive(proxy[p].pid) THEN "failed" ELSE "not running")
    /\ UNCHANGED <<files, server, crowded>>

\* The ssh connection is lost, or the client kills it.
KillProxy(p) ==
    /\ Running(p)
    /\ End(p, "failed")
    /\ UNCHANGED <<files, server, crowded>>

-----------------------------------------------------------------------------
ServerStep(s) ==
    RemovePidFile(s) \/ WritePidFile(s) \/ Bind(s) \/ Accept(s) \/ IdleExit(s)

ProxyStep(p) ==
    \/ ReadPidFile(p) \/ Found(p) \/ NotFound(p) \/ KillServer(p) \/ RemoveFile(p)
    \/ Spawn(p) \/ Ready(p) \/ SpawnTimeout(p) \/ Cut(p) \/ Verify(p)
    \/ \E k \in Socket : Connect(p, k)

Next ==
    \/ \E s \in Servers : ServerStep(s) \/ DropConnection(s) \/ Die(s)
    \/ \E p \in Proxies : StartProxy(p) \/ ProxyStep(p) \/ KillProxy(p)

Spec == Init /\ [][Next]_vars

\* A server that runs goes on, and its idle timer fires.
FairSpec == Spec /\ \A s \in Servers : WF_vars(ServerStep(s))

-----------------------------------------------------------------------------
TypeOK ==
    /\ files \in [Socket \union {"pid"} -> Servers \union {Nothing}]
    /\ \A s \in Servers :
        /\ server[s].at \in {"none", "spawned", "unnamed", "binding stdin", "binding stdout",
                            "binding stderr", "accepting", "serving", "dead"}
        /\ \A k \in Socket : server[s].backlog[k] \in Seq(Proxies)
        /\ server[s].connection \in
            IF server[s].at = "serving" THEN [Socket -> Proxies] ELSE {NoStreams}
    /\ \A p \in Proxies :
        /\ proxy[p].at \in Over \union {"none", "checking", "checked", "killing", "spawning",
                                        "waiting", "connecting", "cut"}
        /\ proxy[p].at = "connecting" => proxy[p].pid \in Servers
        /\ proxy[p].streams \in [Socket -> Servers \union {Nothing, HungUp}]
        /\ proxy[p].up \subseteq Servers
    /\ crowded \in BOOLEAN

\* As long as no proxy is started while another or a server is still starting,
\* a new server never runs beside an old one, whatever died on the way (the
\* order of kill_running_server, spawn_server and write_pid_file).
OneServer ==
    ~crowded => \A s, t \in Servers : Alive(s) /\ Alive(t) => s = t

\* And a proxy's three streams lead to the server whose pid it will ask for
\* when it is cut.
StreamsLeadToOneServer ==
    ~crowded => \A p \in Proxies : \A k \in Socket :
        proxy[p].at = "connecting" => proxy[p].streams[k] \in {proxy[p].pid, Nothing, HungUp}

\* A proxy that looked for a server finds none, though one has been up since.
Overlooked ==
    \E p \in Proxies :
        /\ proxy[p].at = "checked" /\ proxy[p].reconnecting /\ proxy'[p].at = "not running"
        /\ \E s \in proxy[p].up : Up(s)

\* And a client that reconnects is told that its server is not running only if
\* it is not: otherwise the client gives up the session, and what it holds.
\* (On a crowded host it may be told so while the server is between removing a
\* pid file and writing its own, or after another proxy removed the file.)
CalmRefusalsAreTrue == [][~crowded => ~Overlooked]_vars

\* A server no proxy is connected to gets a connection or exits, also one that
\* lost its files to another, or that half a connection reached.
NoServerIsLeft ==
    \A s \in Servers :
        Alive(s) /\ server[s].at # "serving" ~> ~Alive(s) \/ server[s].at = "serving"
=============================================================================
