------------------------------ MODULE Delivery ------------------------------
(***************************************************************************)
(* What a transactional outbox promises about each event it accepts:       *)
(* applied to the graph at least once before it is acknowledged, tried     *)
(* anew until it is acknowledged or given up, and never touched again.     *)
(* Module Outbox implements it.                                            *)
(***************************************************************************)

CONSTANT Ids        \* identifiers of events

VARIABLE event      \* event[i]: how far event i has got

Init == event = [i \in Ids |-> "none"]

Becomes(i, from, to) ==
    /\ event[i] \in from
    /\ event' = [event EXCEPT ![i] = to]

Publish(i)     == Becomes(i, {"none"}, "accepted")
Deliver(i)     == Becomes(i, {"accepted"}, "delivered")
Acknowledge(i) == Becomes(i, {"delivered"}, "acknowledged")
Abandon(i)     == Becomes(i, {"accepted", "delivered"}, "abandoned")

Next ==
    \E i \in Ids : Publish(i) \/ Deliver(i) \/ Acknowledge(i) \/ Abandon(i)

Spec == Init /\ [][Next]_event

\* Every accepted event is acknowledged or given up in the end.
Settled(i)  == event[i] \in {"acknowledged", "abandoned"}
Settles     == \A i \in Ids : (event[i] = "accepted") ~> Settled(i)

=============================================================================
