---------------------------- MODULE MCConnection ----------------------------
(* Connection for TLC: every address is in a subnet of its own. *)
EXTENDS Connection, TLC

MCSubnetKey == [ip \in Ips |-> ip]
=============================================================================
