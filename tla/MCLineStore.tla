---------------------------- MODULE MCLineStore ----------------------------
(* Instances of LineStore for TLC.                                           *)
EXTENDS LineStore, TLC

Symmetry == Permutations(Ids) \cup Permutations(Threads)
============================================================================
