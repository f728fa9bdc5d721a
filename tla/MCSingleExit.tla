---------------------------- MODULE MCSingleExit ---------------------------
(* Instances of SingleExit for TLC.                                          *)
EXTENDS SingleExit, TLC

Symmetry == Permutations(Threads) \cup Permutations(Procs) \cup Permutations(Nodes)

\* What a thread no longer reads: the node and the outcome of a connection that has
\* ended, and why a maintenance was asked for once it has begun.
Seen(j) ==
    [j EXCEPT !.node  = IF j.at \in Guarded \cup {"claim", "demote"} THEN @ ELSE None,
              !.ok    = IF j.at \in Guarded THEN @ ELSE FALSE,
              !.force = IF j.at \in {"enter", "begin"} THEN @ ELSE FALSE]

\* A list that is not in use: a request that puts a list to use brings it along.
Rules == [cfg EXCEPT !.list = IF cfg.mode = "list" THEN @ ELSE {}]

\* Once a full maintenance has begun no property asks whether a change overlapped.
View ==
    <<tun, active, mark, mlock, Rules, [t \in Threads |-> Seen(job[t])], spawned, left,
      full, full \/ crossed>>
============================================================================
