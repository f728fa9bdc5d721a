---------------------------- MODULE LineRegistry ----------------------------
(***************************************************************************)
(* What the dashboard promises about the lines and 3x-ui, without threads,  *)
(* files, scripts or undoing: one line is created, changed or deleted, or   *)
(* the direct protocol is changed, and what 3x-ui serves changes with it in *)
(* the same step.                                                           *)
(***************************************************************************)
EXTENDS Naturals, FiniteSets

CONSTANTS
    Ids, Line, Protocols,
    None,    \* a line that does not exist
    MaxLines

VARIABLES
    config, \* the lines and the direct protocol
    served  \* the inbound of each line and the direct protocol in 3x-ui

vars == <<config, served>>

Existing == {c \in Ids : config.lines[c] # None}

TypeOK ==
    /\ config.lines \in [Ids -> Line \cup {None}]
    /\ config.direct \in Protocols

\* No two lines have the same port, and there are not too many.
Sane ==
    /\ \A c, d \in Existing : c # d => config.lines[c].port # config.lines[d].port
    /\ Cardinality(Existing) <= MaxLines

\* 3x-ui has the inbounds of the lines that are enabled.
Provisioned ==
    served = [inbounds |-> [c \in Ids |->
                  IF c \in Existing /\ config.lines[c].enabled THEN config.lines[c].port
                  ELSE None],
              direct   |-> config.direct]

Init == TypeOK /\ Sane /\ Provisioned

SetLine(c) ==
    \E l \in Line \cup {None} : config' = [config EXCEPT !.lines[c] = l]

SetDirect ==
    \E protocol \in Protocols : config' = [config EXCEPT !.direct = protocol]

Next ==
    /\ SetDirect \/ \E c \in Ids : SetLine(c)
    /\ Sane' /\ Provisioned'

Spec == Init /\ [][Next]_vars
=============================================================================
