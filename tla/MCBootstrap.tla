---------------------------- MODULE MCBootstrap ----------------------------
(* Instances of Bootstrap for TLC.                                           *)
EXTENDS Bootstrap, TLC

CONSTANTS w, v, n1, n2, n3, j, k

\* Two countries: the policy of the one rejects one of its two nodes, which answers.
Countries  == w :> j @@ v :> k
TheirNodes == w :> {n1, n2} @@ v :> {n3}
Accepted   == w :> {n1} @@ v :> {n3}
============================================================================
