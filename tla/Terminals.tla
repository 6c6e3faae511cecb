------------------------------ MODULE Terminals ------------------------------
(***************************************************************************)
(* The web terminals of the aacode server: TerminalManager's sessions, a   *)
(* shell on a pseudo terminal each, and the WebSockets bridged to them.    *)
(* A bridge is three tasks: PtyBridge::spawn, which waits for the others,  *)
(* a blocking reader of the terminal and a writer that owns the socket,    *)
(* joined by a bounded channel.                                            *)
(*                                                                         *)
(* The manager's lock is held for one step at a time.  Output is counted   *)
(* in the pieces a read returns; input is what makes the shell write, or   *)
(* exit.  The master is opened with O_NONBLOCK, which a dup of it shares:  *)
(* a read that finds nothing fails.                                        *)
(*                                                                         *)
(* Unkilled and Refused are what a faulty version would do; no action uses *)
(* them.                                                                   *)
(***************************************************************************)
EXTENDS Naturals

CONSTANTS
    Sessions,    \* ids, drawn by create
    Sockets,     \* WebSockets, each used once
    Capacity,    \* of a bridge's channel (1024 in the code)
    MaxOutput    \* bound on the output a terminal holds

Nothing == "none"
ASSUME TerminalAssumption ==
    /\ Nothing \notin Sessions
    /\ Capacity \in Nat \ {0} /\ MaxOutput \in Nat

VARIABLES
    session,     \* spawned and not listed yet, listed, or dropped
    shell,       \* its child process
    output,      \* pieces of output in its terminal
    bridge,      \* where PtyBridge::spawn and its callers stand, for each socket
    id,          \* the session it is for
    attached,    \* it was made for this socket: remove_on_close
    open,        \* the client holds the socket open
    reader,      \* the blocking task
    channel      \* pieces between reader and writer

sessionVars == <<session, shell, output>>
socketVars == <<bridge, id, attached, open>>
pipeVars == <<reader, channel>>
vars == <<session, shell, output, bridge, id, attached, open, reader, channel>>

Init ==
    /\ session = [s \in Sessions |-> "none"]
    /\ shell = [s \in Sessions |-> "none"]
    /\ output = [s \in Sessions |-> 0]
    /\ bridge = [w \in Sockets |-> "none"]
    /\ id = [w \in Sockets |-> Nothing]
    /\ attached = [w \in Sockets |-> FALSE]
    /\ open = [w \in Sockets |-> FALSE]
    /\ reader = [w \in Sockets |-> "none"]
    /\ channel = [w \in Sockets |-> 0]

-----------------------------------------------------------------------------
(* Sessions *)

\* Dropping a PtySession kills its child and waits for it.
Unkilled(s) == session' = [session EXCEPT ![s] = "dropped"] /\ UNCHANGED <<shell, output>>
Drop(s) ==
    /\ session' = [session EXCEPT ![s] = "dropped"]
    /\ shell' = [shell EXCEPT ![s] = "reaped"]
    /\ output' = [output EXCEPT ![s] = 0]

Remove(s) == IF session[s] = "listed" THEN Drop(s) ELSE UNCHANGED sessionVars

Spawn(s) ==
    /\ session[s] = "none"
    /\ session' = [session EXCEPT ![s] = "spawned"]
    /\ shell' = [shell EXCEPT ![s] = "running"]
    /\ UNCHANGED output

\* POST /terminals, and /terminal, whose socket waits for its session.
Create ==
    /\ \E s \in Sessions : Spawn(s)
    /\ UNCHANGED <<socketVars, pipeVars>>

Attach(w) ==
    /\ bridge[w] = "none"
    /\ \E s \in Sessions : Spawn(s) /\ id' = [id EXCEPT ![w] = s]
    /\ bridge' = [bridge EXCEPT ![w] = "creating"]
    /\ attached' = [attached EXCEPT ![w] = TRUE]
    /\ open' = [open EXCEPT ![w] = TRUE]
    /\ UNCHANGED pipeVars

\* No shell can be spawned for the socket.
AttachFails(w) ==
    /\ bridge[w] = "none"
    /\ bridge' = [bridge EXCEPT ![w] = "gone"]
    /\ UNCHANGED <<sessionVars, id, attached, open, pipeVars>>

\* create has waited for the lock.
List(s) ==
    /\ session[s] = "spawned"
    /\ session' = [session EXCEPT ![s] = "listed"]
    /\ bridge' = [w \in Sockets |->
            IF id[w] = s /\ bridge[w] = "creating" THEN "bridging" ELSE bridge[w]]
    /\ UNCHANGED <<shell, output, id, attached, open, pipeVars>>

\* The client of a POST goes away: its handler is dropped where it waits.
CreateCancelled(s) ==
    /\ session[s] = "spawned"
    /\ \A w \in Sockets : attached[w] => id[w] # s
    /\ Drop(s)
    /\ UNCHANGED <<socketVars, pipeVars>>

\* DELETE /terminals/{id}
Delete(s) ==
    /\ session[s] = "listed"
    /\ Drop(s)
    /\ UNCHANGED <<socketVars, pipeVars>>

ShellWrites(s) ==
    /\ shell[s] = "running"
    /\ output[s] < MaxOutput
    /\ output' = [output EXCEPT ![s] = @ + 1]
    /\ UNCHANGED <<session, shell, socketVars, pipeVars>>

\* Its session stays listed, and its sockets stay open.
ShellExits(s) ==
    /\ shell[s] = "running"
    /\ shell' = [shell EXCEPT ![s] = "exited"]
    /\ UNCHANGED <<session, output, socketVars, pipeVars>>

-----------------------------------------------------------------------------
(* Bridges *)

\* /terminal/{id}: connect looks whether there is such a session.
Connect(w) ==
    /\ bridge[w] = "none"
    /\ \E s \in Sessions :
        /\ id' = [id EXCEPT ![w] = s]
        /\ bridge' = [bridge EXCEPT ![w] = IF session[s] = "listed" THEN "bridging" ELSE "gone"]
        /\ open' = [open EXCEPT ![w] = session[s] = "listed"]
    /\ UNCHANGED <<sessionVars, attached, pipeVars>>

\* Both the session, which is looked up again, and a descriptor for the reader are
\* unwrapped: the task panics, and drops the socket, if the session has been deleted
\* meanwhile, or if dup fails, which starves the bridge.
Bridge(w) ==
    /\ bridge[w] = "bridging"
    /\ LET found == session[id[w]] = "listed" IN
        \/ /\ found
           /\ bridge' = [bridge EXCEPT ![w] = "open"]
           /\ reader' = [reader EXCEPT ![w] = "reading"]
           /\ UNCHANGED open
        \/ /\ bridge' = [bridge EXCEPT ![w] = IF found THEN "starved" ELSE "gone"]
           /\ open' = [open EXCEPT ![w] = FALSE]
           /\ UNCHANGED reader
    /\ UNCHANGED <<sessionVars, id, attached, channel>>

\* The reader has a piece in hand while it waits for room.
ReaderReads(w) ==
    /\ reader[w] = "reading"
    /\ output[id[w]] > 0
    /\ output' = [output EXCEPT ![id[w]] = @ - 1]
    /\ reader' = [reader EXCEPT ![w] = "sending"]
    /\ UNCHANGED <<session, shell, socketVars, channel>>

Room(w) == channel[w] < Capacity

ReaderSends(w) ==
    /\ reader[w] = "sending"
    /\ bridge[w] = "open"
    /\ Room(w)
    /\ channel' = [channel EXCEPT ![w] = @ + 1]
    /\ reader' = [reader EXCEPT ![w] = "reading"]
    /\ UNCHANGED <<sessionVars, socketVars>>

\* read returns -1: there is nothing to read now, or the shell is gone.  The
\* reader ends and closes its file descriptor.
ReaderEnds(w) ==
    /\ reader[w] = "reading"
    /\ output[id[w]] = 0
    /\ reader' = [reader EXCEPT ![w] = "ended"]
    /\ UNCHANGED <<sessionVars, socketVars, channel>>

\* The writer has dropped its end of the channel, after which a send fails.
Refused(w) == FALSE
Abandoned(w) == bridge[w] = "joining"

ReaderGivesUp(w) ==
    /\ reader[w] = "sending"
    /\ Abandoned(w)
    /\ reader' = [reader EXCEPT ![w] = "ended"]
    /\ UNCHANGED <<sessionVars, socketVars, channel>>

WriterSends(w) ==
    /\ bridge[w] = "open"
    /\ channel[w] > 0 /\ open[w]
    /\ channel' = [channel EXCEPT ![w] = @ - 1]
    /\ UNCHANGED <<sessionVars, socketVars, reader>>

RemoveOnClose(w) == IF attached[w] THEN Remove(id[w]) ELSE UNCHANGED sessionVars

\* A send fails, or the client's close is read.
WriterEnds(w) ==
    /\ bridge[w] = "open"
    /\ ~open[w]
    /\ bridge' = [bridge EXCEPT ![w] = "joining"]
    /\ channel' = [channel EXCEPT ![w] = 0]
    /\ RemoveOnClose(w)
    /\ UNCHANGED <<id, attached, open, reader>>

\* reader.await
Join(w) ==
    /\ bridge[w] = "joining"
    /\ reader[w] = "ended"
    /\ bridge' = [bridge EXCEPT ![w] = "gone"]
    /\ UNCHANGED <<sessionVars, id, attached, open, pipeVars>>

ClientCloses(w) ==
    /\ open[w]
    /\ open' = [open EXCEPT ![w] = FALSE]
    /\ UNCHANGED <<sessionVars, bridge, id, attached, pipeVars>>

-----------------------------------------------------------------------------
Task(w) ==
    \/ Bridge(w) \/ WriterSends(w) \/ WriterEnds(w) \/ Join(w)

Reader(w) == ReaderReads(w) \/ ReaderSends(w) \/ ReaderEnds(w) \/ ReaderGivesUp(w)

Next ==
    \/ Create
    \/ \E s \in Sessions :
        List(s) \/ CreateCancelled(s) \/ Delete(s) \/ ShellWrites(s) \/ ShellExits(s)
    \/ \E w \in Sockets : Attach(w) \/ AttachFails(w) \/ Connect(w) \/ ClientCloses(w)
                            \/ Task(w) \/ Reader(w)

Spec == Init /\ [][Next]_vars

\* The runtime runs every task that can go on.
FairSpec ==
    /\ Spec
    /\ \A s \in Sessions : WF_vars(List(s))
    /\ \A w \in Sockets : WF_vars(Task(w)) /\ WF_vars(Reader(w))

-----------------------------------------------------------------------------
TypeOK ==
    /\ session \in [Sessions -> {"none", "spawned", "listed", "dropped"}]
    /\ shell \in [Sessions -> {"none", "running", "exited", "reaped"}]
    /\ output \in [Sessions -> 0 .. MaxOutput]
    /\ bridge \in [Sockets -> {"none", "creating", "bridging", "open", "joining", "starved",
                            "gone"}]
    /\ id \in [Sockets -> Sessions \union {Nothing}]
    /\ attached \in [Sockets -> BOOLEAN] /\ open \in [Sockets -> BOOLEAN]
    /\ reader \in [Sockets -> {"none", "reading", "sending", "ended"}]
    /\ channel \in [Sockets -> 0 .. Capacity]

\* A shell runs only as long as something can reach it: its session is listed,
\* or create still holds it; not after its socket, a DELETE, or a request that
\* was abandoned, has dropped the session.
NoStrayShell ==
    \A s \in Sessions : shell[s] \in {"running", "exited"} => session[s] \in {"spawned", "listed"}

\* A session made for a socket is not left behind by it, whichever of its tasks
\* saw the end first, and even if it was deleted under the bridge; but for a bridge
\* that was starved.
NoStraySession ==
    \A w \in Sockets : bridge[w] = "gone" /\ attached[w] => session[id[w]] = "dropped"

\* A shell has a session and a session made for a socket that socket, whatever is
\* closed, deleted or abandoned between two locks of the manager.  A starved bridge
\* leaves its session, which then is still listed, or has been deleted.
NothingIsLeftBehind == NoStrayShell /\ NoStraySession

\* When the client is gone the bridge's tasks end, and with them its descriptor,
\* also when the reader waits for room in a channel no one empties.
EveryBridgeIsJoined ==
    \A w \in Sockets : bridge[w] # "none" /\ ~open[w] ~> bridge[w] \in {"starved", "gone"}
=============================================================================
