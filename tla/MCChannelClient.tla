--------------------------- MODULE MCChannelClient ---------------------------
(* Instances of ChannelClient for TLC: who sends what, besides the first ping. *)
EXTENDS ChannelClient

Quiet == [k \in AppKind |-> 0]
Ends(client, server) == [e \in End |-> IF e = "client" THEN client ELSE server]

NoBackground == Ends(0, 0)
TwoEach == Ends(2, 2)

\* The editor opens a stream and the server asks something unknown; the first
\* ping and its answer come before.
StreamAndQuestions == Ends([Quiet EXCEPT !["Stream"] = 1],
                           [Quiet EXCEPT !["Unknown"] = 1])

\* A stream and a message of the editor, and a message from the server.
StreamAndMessages == Ends([Quiet EXCEPT !["Stream"] = 1, !["Message"] = 1],
                          [Quiet EXCEPT !["Message"] = 1])

\* A message each way.
OneMessageEach == Ends([Quiet EXCEPT !["Message"] = 1],
                       [Quiet EXCEPT !["Message"] = 1])
=============================================================================
