---------------------------- MODULE MCCatalogue ----------------------------
(* Instances of Catalogue for TLC.                                           *)
EXTENDS Catalogue, TLC

CONSTANTS n1, n2, m1, m2

Offers == m1 :> {n1} @@ m2 :> {n1, n2}
============================================================================
