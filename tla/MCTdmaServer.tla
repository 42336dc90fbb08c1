---------------------------- MODULE MCTdmaServer ----------------------------
(* Instances of TdmaServer for TLC: two packets, one that fits beside any  *)
(* other traffic of a slot and one that needs almost the whole slot.       *)
EXTENDS TdmaServer, TLC

CONSTANTS c1, c2, c3, c4

MCPackets == {[id |-> 1, len |-> 20], [id |-> 2, len |-> 150]}

Symmetry == Permutations(Clients)
=============================================================================
