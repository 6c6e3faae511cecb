-------------------------- MODULE ConnectionStatus --------------------------
(***************************************************************************)
(* The connection as the windows of a remote project see it, through       *)
(* RemoteClient::connection_state.                                         *)
(***************************************************************************)
VARIABLE status

Status == {"Connecting", "Connected", "HeartbeatMissed", "Reconnecting", "Disconnected"}

Init == status = "Connecting"

Establish == status = "Connecting" /\ status' \in {"Connected", "Disconnected"}

Miss == status = "Connected" /\ status' = "HeartbeatMissed"

\* Missed heartbeats end in recovery, or in a reconnect.
Resolve == status = "HeartbeatMissed" /\ status' \in {"Connected", "Reconnecting", "Disconnected"}

Lose == status = "Connected" /\ status' \in {"Reconnecting", "Disconnected"}

\* A reconnect succeeds, or is given up.
Settle == status = "Reconnecting" /\ status' \in {"Connected", "Disconnected"}

\* Disconnected is final.
Next == Establish \/ Miss \/ Resolve \/ Lose \/ Settle

Spec ==
    /\ Init /\ [][Next]_status
    /\ WF_status(Establish) /\ WF_status(Resolve) /\ WF_status(Settle)
=============================================================================
