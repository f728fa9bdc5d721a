---------------------------- MODULE LineService ----------------------------
(***************************************************************************)
(* What the exit daemon promises about its country lines, without passes,   *)
(* processes, files or namespaces.  A line is idle, being tried, or         *)
(* serving.  It serves only after it was tried, one line is tried at a      *)
(* time, and whatever address a serving line shows is one of the country it *)
(* is locked to.  Any lines may stop together, at any time.                 *)
(***************************************************************************)
CONSTANTS
    Lines,  \* the country lines
    Exits,  \* the addresses a line may show
    None    \* the exit of a line that does not serve

VARIABLES phase, exit

vars == <<phase, exit>>

TypeOK ==
    /\ phase \in [Lines -> {"idle", "trying", "serving"}]
    /\ exit \in [Lines -> Exits \cup {None}]

Init ==
    /\ phase = [c \in Lines |-> "idle"]
    /\ exit = [c \in Lines |-> None]

Try(c) ==
    /\ \A d \in Lines : phase[d] # "trying"
    /\ phase[c] = "idle"
    /\ phase' = [phase EXCEPT ![c] = "trying"]
    /\ UNCHANGED exit

Serve(c) ==
    /\ phase[c] = "trying"
    /\ phase' = [phase EXCEPT ![c] = "serving"]
    /\ \E e \in Exits : exit' = [exit EXCEPT ![c] = e]

\* The address behind a serving tunnel changes and is accepted.
Move(c) ==
    /\ phase[c] = "serving"
    /\ \E e \in Exits : exit' = [exit EXCEPT ![c] = e]
    /\ UNCHANGED phase

Stop(S) ==
    /\ phase' = [c \in Lines |-> IF c \in S THEN "idle" ELSE phase[c]]
    /\ exit' = [c \in Lines |-> IF c \in S THEN None ELSE exit[c]]

Next ==
    \/ \E c \in Lines : Try(c) \/ Serve(c) \/ Move(c)
    \/ \E S \in SUBSET Lines : Stop(S)

Spec == Init /\ [][Next]_vars
===========================================================================
