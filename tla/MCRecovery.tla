----------------------------- MODULE MCRecovery -----------------------------
(* Instances of Recovery for TLC.                                            *)
EXTENDS Recovery

CONSTANTS a, b, n1, n3, j, k

Places == a :> 1 @@ b :> 2
TwoCountries == [x \in {a, b, n1, n3} |-> IF x = a THEN k ELSE j]
Modes == a :> "residential_preferred" @@ b :> "residential_preferred"
Types == n1 :> "residential" @@ n3 :> "residential"
============================================================================
