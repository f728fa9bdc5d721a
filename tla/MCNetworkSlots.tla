-------------------------- MODULE MCNetworkSlots --------------------------
(* Instances of NetworkSlots for TLC.                                       *)
EXTENDS NetworkSlots, TLC

Symmetry == Permutations(Ids)
===========================================================================
