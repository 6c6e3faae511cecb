------------------------------ MODULE Requests ------------------------------
(***************************************************************************)
(* What a table of pending requests promises its callers: a request that   *)
(* was made ends once, answered with what the other side replied to it, or *)
(* failed because the connection is over, or abandoned by its caller; and  *)
(* once the connection is over no request stays pending.                   *)
(***************************************************************************)
CONSTANTS Callers

VARIABLES
    status,      \* of each request
    replied,     \* the requests the other side has replied to
    over         \* no request will be sent, or answered, any more

vars == <<status, replied, over>>

Init ==
    /\ status = [r \in Callers |-> "idle"]
    /\ replied = {}
    /\ over = FALSE

Become(r, from, to) ==
    /\ status[r] \in from
    /\ status' = [status EXCEPT ![r] = to]
    /\ UNCHANGED <<replied, over>>

Make(r) == Become(r, {"idle"}, "pending")
Answer(r) == r \in replied /\ Become(r, {"pending"}, "answered")
Fail(r) == over /\ Become(r, {"idle", "pending"}, "failed")
Abandon(r) == Become(r, {"pending"}, "abandoned")

Reply(r) ==
    /\ status[r] # "idle"
    /\ replied' = replied \union {r}
    /\ UNCHANGED <<status, over>>

Close ==
    /\ over' = TRUE
    /\ UNCHANGED <<status, replied>>

Next ==
    \/ Close
    \/ \E r \in Callers : Make(r) \/ Answer(r) \/ Fail(r) \/ Abandon(r) \/ Reply(r)

Spec ==
    /\ Init /\ [][Next]_vars
    /\ \A r \in Callers : over ~> status[r] # "pending"
=============================================================================
