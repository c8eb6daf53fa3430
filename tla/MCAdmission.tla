----------------------------- MODULE MCAdmission -----------------------------
(* Admission for TLC: the addresses InA of one subnet and InB of another. *)
EXTENDS Admission, TLC

CONSTANTS InA, InB

MCIps == InA \cup InB
MCSubnets == {"a", "b"}
MCSubnetKey == [ip \in MCIps |-> IF ip \in InA THEN "a" ELSE "b"]
Symmetry == Permutations(Conns) \cup Permutations(InA)
=============================================================================
