--------------------------- MODULE TerminalsProofs ---------------------------
(***************************************************************************)
(* The safety of Terminals, for any number of sessions and sockets.        *)
(*                                                                         *)
(* The argument: a session made for a socket goes through its states no    *)
(* slower than the socket's bridge does (SessionKeepsUp).                  *)
(***************************************************************************)
EXTENDS Terminals, TLAPS

\* Dropping a session, or removing it if it is listed, keeps the types.
LEMMA RemoveTypes ==
    ASSUME TypeOK, NEW s, Drop(s) \/ Remove(s)
    PROVE  /\ session' \in [Sessions -> {"none", "spawned", "listed", "dropped"}]
           /\ shell' \in [Sessions -> {"none", "running", "exited", "reaped"}]
           /\ output' \in [Sessions -> 0 .. MaxOutput]
<1>1. 0 \in 0 .. MaxOutput
  BY TerminalAssumption
<1> QED
  BY <1>1 DEF TypeOK, Remove, Drop, sessionVars

\* Every variable keeps its type: in particular the channel of a bridge never
\* holds more than its capacity.
THEOREM TypeCorrect == Spec => []TypeOK
<1>1. Init => TypeOK
  BY TerminalAssumption DEF Init, TypeOK
<1>2. TypeOK /\ [Next]_vars => TypeOK'
  <2> SUFFICES ASSUME TypeOK, [Next]_vars PROVE TypeOK'
    OBVIOUS
  <2> USE TerminalAssumption DEF TypeOK, sessionVars, socketVars, pipeVars
  <2>1. CASE Create
    BY <2>1 DEF Create, Spawn
  <2>2. ASSUME NEW s \in Sessions, List(s) PROVE TypeOK'
    BY <2>2 DEF List
  <2>3. ASSUME NEW s \in Sessions, CreateCancelled(s) \/ Delete(s) PROVE TypeOK'
    BY <2>3, RemoveTypes DEF CreateCancelled, Delete
  <2>4. ASSUME NEW s \in Sessions, ShellWrites(s) \/ ShellExits(s) PROVE TypeOK'
    BY <2>4 DEF ShellWrites, ShellExits
  <2>5. ASSUME NEW w \in Sockets, Attach(w) PROVE TypeOK'
    BY <2>5 DEF Attach, Spawn
  <2>6. ASSUME NEW w \in Sockets, Connect(w) PROVE TypeOK'
    BY <2>6 DEF Connect
  <2>7. ASSUME NEW w \in Sockets, ClientCloses(w) PROVE TypeOK'
    BY <2>7 DEF ClientCloses
  <2>8. ASSUME NEW w \in Sockets, Bridge(w) PROVE TypeOK'
    BY <2>8 DEF Bridge
  <2>9. ASSUME NEW w \in Sockets, WriterSends(w) \/ Join(w) PROVE TypeOK'
    BY <2>9 DEF WriterSends, Join
  <2>10. ASSUME NEW w \in Sockets, WriterEnds(w) PROVE TypeOK'
    <3>1. Remove(id[w]) \/ UNCHANGED sessionVars
      BY <2>10 DEF WriterEnds, RemoveOnClose
    <3> QED
      BY <2>10, <3>1, RemoveTypes DEF WriterEnds
  <2>11. ASSUME NEW w \in Sockets, Reader(w) PROVE TypeOK'
    BY <2>11 DEF Reader, ReaderReads, ReaderSends, ReaderEnds, ReaderGivesUp, Room
  <2>12. ASSUME NEW w \in Sockets, AttachFails(w) PROVE TypeOK'
    BY <2>12 DEF AttachFails
  <2>13. CASE UNCHANGED vars
    BY <2>13 DEF vars
  <2> QED
    BY <2>1, <2>2, <2>3, <2>4, <2>5, <2>6, <2>7, <2>8, <2>9, <2>10, <2>11, <2>12, <2>13
       DEF Next, Task
<1> QED
  BY <1>1, <1>2, PTL DEF Spec

-----------------------------------------------------------------------------
\* A session made for a socket is listed before its bridge begins and dropped
\* when the bridge ends.
SessionKeepsUp ==
    \A w \in Sockets : attached[w] =>
        /\ id[w] \in Sessions
        /\ bridge[w] # "none"
        /\ bridge[w] = "creating" => session[id[w]] = "spawned"
        /\ bridge[w] \in {"bridging", "open", "starved"} => session[id[w]] \in {"listed", "dropped"}
        /\ bridge[w] \in {"joining", "gone"} => session[id[w]] = "dropped"

IInv == NoStrayShell /\ SessionKeepsUp

\* A step that leaves the sockets alone and drops at most one session, one that is
\* listed or that no socket waits for, keeps the invariant.
LEMMA DropStep ==
    ASSUME TypeOK, IInv, NEW s \in Sessions, Drop(s), UNCHANGED socketVars,
           session[s] = "listed" \/ \A w \in Sockets : attached[w] => id[w] # s
    PROVE  IInv'
<1> USE DEF TypeOK, IInv, Drop, socketVars
<1>1. NoStrayShell'
  BY DEF NoStrayShell
<1>2. SessionKeepsUp'
  BY DEF SessionKeepsUp
<1> QED
  BY <1>1, <1>2

\* A socket that has its session spawned.
LEMMA AttachStep ==
    ASSUME TypeOK, IInv, NEW w \in Sockets, Attach(w)
    PROVE  IInv'
<1> USE DEF TypeOK, IInv, Attach, Spawn
<1>1. NoStrayShell'
  BY DEF NoStrayShell
<1>2. SessionKeepsUp'
  BY DEF SessionKeepsUp
<1> QED
  BY <1>1, <1>2

\* A session that is listed, and the socket that waited for it.
LEMMA ListStep ==
    ASSUME TypeOK, IInv, NEW s \in Sessions, List(s)
    PROVE  IInv'
<1> USE DEF TypeOK, IInv, List
<1>1. NoStrayShell'
  BY DEF NoStrayShell
<1>2. SessionKeepsUp'
  BY DEF SessionKeepsUp
<1> QED
  BY <1>1, <1>2

\* The end of a bridge: remove_on_close.
LEMMA WriterEndsStep ==
    ASSUME TypeOK, IInv, NEW w \in Sockets, WriterEnds(w)
    PROVE  IInv'
<1> USE DEF TypeOK, IInv, WriterEnds, RemoveOnClose
<1>1. CASE attached[w] /\ session[id[w]] = "listed"
  <2>1. id[w] \in Sessions /\ Drop(id[w])
    BY <1>1 DEF SessionKeepsUp, Remove
  <2>2. NoStrayShell'
    BY <2>1 DEF NoStrayShell, Drop
  <2>3. session' = [session EXCEPT ![id[w]] = "dropped"] /\ bridge' = [bridge EXCEPT ![w] = "joining"]
    BY <2>1 DEF Drop
  <2>4. SessionKeepsUp'
    BY <1>1, <2>1, <2>3 DEF SessionKeepsUp
  <2> QED
    BY <2>2, <2>4
<1>2. CASE ~(attached[w] /\ session[id[w]] = "listed")
  <2>1. UNCHANGED sessionVars
    BY <1>2 DEF Remove
  <2> QED
    BY <1>2, <2>1 DEF NoStrayShell, SessionKeepsUp, sessionVars
<1> QED
  BY <1>1, <1>2

\* No step leaves a shell without a session, or a session without its socket.
LEMMA Inductive == TypeOK /\ IInv /\ [Next]_vars => IInv'
<1> SUFFICES ASSUME TypeOK, IInv, [Next]_vars PROVE IInv'
  OBVIOUS
<1> USE DEF TypeOK, IInv, NoStrayShell, SessionKeepsUp, sessionVars, socketVars, pipeVars
<1>1. CASE Create
  BY <1>1 DEF Create, Spawn
<1>2. ASSUME NEW s \in Sessions, CreateCancelled(s) \/ Delete(s) PROVE IInv'
  BY <1>2, DropStep DEF CreateCancelled, Delete
<1>3. ASSUME NEW s \in Sessions, ShellWrites(s) \/ ShellExits(s) PROVE IInv'
  BY <1>3 DEF ShellWrites, ShellExits
<1>4. ASSUME NEW w \in Sockets, Connect(w) \/ AttachFails(w) PROVE IInv'
  BY <1>4 DEF Connect, AttachFails
<1>5. ASSUME NEW w \in Sockets, Bridge(w) PROVE IInv'
  BY <1>5 DEF Bridge
<1>6. ASSUME NEW w \in Sockets, WriterSends(w) \/ Join(w) \/ ClientCloses(w) PROVE IInv'
  BY <1>6 DEF WriterSends, Join, ClientCloses
<1>7. ASSUME NEW w \in Sockets, Reader(w) PROVE IInv'
  BY <1>7 DEF Reader, ReaderReads, ReaderSends, ReaderEnds, ReaderGivesUp
<1>8. CASE UNCHANGED vars
  BY <1>8 DEF vars
<1> QED
  BY <1>1, <1>2, <1>3, <1>4, <1>5, <1>6, <1>7, <1>8, AttachStep, ListStep, WriterEndsStep
     DEF Next, Task

\* A shell has a session, and a session made for a socket that socket, unless its
\* bridge was starved, whatever is closed, deleted or abandoned, for any number of
\* terminals.
THEOREM NothingIsLeftBehindHolds == Spec => []NothingIsLeftBehind
<1>1. Init => IInv
  BY DEF Init, IInv, NoStrayShell, SessionKeepsUp
<1>2. IInv => NothingIsLeftBehind
  BY DEF IInv, NothingIsLeftBehind, SessionKeepsUp, NoStraySession
<1> QED
  BY TypeCorrect, Inductive, <1>1, <1>2, PTL DEF Spec
=============================================================================
