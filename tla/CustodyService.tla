--------------------------- MODULE CustodyService ---------------------------
(***************************************************************************)
(* What a custody relay promises, without queues, devices, attempts or     *)
(* crashes: each message for each destination is unknown to the relay,     *)
(* held by it, delivered, or dropped on the record.  A held message is     *)
(* never merely forgotten, a delivery is final, and no message is          *)
(* delivered that was not taken into custody first.                        *)
(***************************************************************************)
CONSTANTS Destinations, Messages

VARIABLE status

Pairs == Destinations \X Messages

Init == status = [p \in Pairs |-> "unknown"]

With(status0, S, v) == [p \in Pairs |-> IF p \in S THEN v ELSE status0[p]]

HeldPairs == {p \in Pairs : status[p] = "held"}

(* Take custody of a message; making room for it may drop others. *)
TakeCustody(p, D) ==
    /\ status[p] \in {"unknown", "dropped"}
    /\ D \subseteq HeldPairs
    /\ status' = With(With(status, D, "dropped"), {p}, "held")

Drop(D) ==
    /\ D \subseteq HeldPairs
    /\ status' = With(status, D, "dropped")

Deliver(p) ==
    /\ status[p] \in {"held", "dropped"}
    /\ status' = With(status, {p}, "delivered")

Next ==
    \/ \E D \in SUBSET Pairs : Drop(D)
    \/ \E p \in Pairs, D \in SUBSET Pairs : TakeCustody(p, D)
    \/ \E p \in Pairs : Deliver(p)

Spec == Init /\ [][Next]_status
=============================================================================
