----------------------------- MODULE AtLeastOnce -----------------------------
(***************************************************************************)
(* What two ChannelClients promise the applications that use them:         *)
(* envelopes are handled only if they were sent, and everything sent is    *)
(* handled at least once.  Order and duplicates are left open.             *)
(***************************************************************************)
CONSTANT End, Peer(_)

VARIABLES sent, handled      \* sets of envelope ids, sent by and at an end

Init ==
    /\ sent = [e \in End |-> {}]
    /\ handled = [e \in End |-> {}]

\* An end handles envelopes sent to it, or it sends, or does both in a step
\* (the answer to an unknown request).
Step(e) ==
    /\ \E S \in SUBSET (sent[Peer(e)] \ handled[e]) :
        handled' = [handled EXCEPT ![e] = @ \union S]
    /\ \A d \in End : sent[d] \subseteq sent'[d] /\ (d # e => sent'[d] = sent[d])
    /\ DOMAIN sent' = End

Next == \E e \in End : Step(e)

AllHandled == \A e \in End : sent[Peer(e)] \subseteq handled[e]

Spec == Init /\ [][Next]_<<sent, handled>> /\ []<>AllHandled
=============================================================================
