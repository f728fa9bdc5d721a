--------------------------- MODULE MCExitDaemon ---------------------------
(* Instances of ExitDaemon for TLC.                                         *)
EXTENDS ExitDaemon, TLC

\* Each line's namespace carries the name of the line.
OwnNamespaces == [c \in Lines |-> c]

\* Two ids that differ only after their tenth character share one name.
SharedNamespaces == [c \in Lines |-> CHOOSE n \in Namespaces : TRUE]

Symmetry == Permutations(Pids) \cup Permutations(Lines)
===========================================================================
