------------------------------- MODULE MCTdma -------------------------------
(* Instances of Tdma for TLC: with a gateway slot every two slots and two  *)
(* robots, the second registration makes the frame grow from two slots to  *)
(* four.                                                                   *)
EXTENDS Tdma

CONSTANTS c1, c2
=============================================================================
