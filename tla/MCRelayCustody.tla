--------------------------- MODULE MCRelayCustody ---------------------------
(* RelayCustody for TLC. *)
EXTENDS RelayCustody, TLC

MCIdentityOfKey == [k \in Keys |-> CHOOSE i \in Identities : TRUE]

(* Messages are interchangeable, and so are devices. *)
MCSymmetry == Permutations(Messages) \cup Permutations(Devices)
=============================================================================
