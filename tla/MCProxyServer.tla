--------------------------- MODULE MCProxyServer ---------------------------
(* Instances of ProxyServer for TLC.                                         *)
EXTENDS ProxyServer, TLC

Symmetry == Permutations(Clients) \cup Permutations(Flights)

\* What a thread saw does not matter before it looks again.  When it connects, it
\* does not matter what address it has, unless that is older than what it saw.
Settled(j) == j.at = "connect" /\ (j.address # Nil => j.address >= j.seen)
Seen(j) ==
    IF Settled(j) THEN [Idle EXCEPT !.at = "connect"]
    ELSE IF j.at = "ask" THEN [j EXCEPT !.seen = Nil]
    ELSE j

\* What a flight holds that nobody refers to does not matter: begin sets it anew.
View == <<tunnel, scope, entries, inflight, permits, lost, [c \in Clients |-> Seen(job[c])],
          [f \in Flights \ Unused |-> flights[f]]>>
============================================================================
