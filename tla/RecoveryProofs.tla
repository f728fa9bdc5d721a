----------------------------- MODULE RecoveryProofs -----------------------------
(* Proofs about Recovery: its types, and that what the dashboard counts as   *)
(* available for a line is never set aside by the daemon.                    *)
EXTENDS Recovery, FiniteSetTheorems, TLAPS

Record == [status : Status, node : Nodes \cup {None}, pref : Nodes \cup {None}, again : BOOLEAN]
Daemon == [at : {"idle", "pass", "try"}, todo : SUBSET Lines, again : SUBSET Lines,
           pref : [Lines -> Nodes \cup {None}], cur : Lines \cup {None}, order : Seq(Nodes)]
Passes == [Lines -> [Nodes -> 0..Backoff]]

Shape ==
    /\ line \in [Lines -> Record]
    /\ cooldown \in Passes /\ blocked \in Passes
    /\ daemon \in Daemon
    /\ listed \subseteq Nodes

\* A line that is being connected is still to be handled, or the one in hand.
Placed ==
    /\ \A c \in Lines : /\ Connected(c) <=> line[c].node # None
                        /\ line[c].status = "connecting" => c \in daemon.todo \cup {daemon.cur}
    /\ daemon.at # "try" => daemon.cur = None
    /\ daemon.at = "try" => /\ daemon.cur \in Lines /\ daemon.order # <<>>
                            /\ line[daemon.cur].status = "connecting"

\* A node is set aside in the history no longer than in the other record, and the
\* node a line uses is in neither for long: using it has cleared its history.
Agree ==
    \A c \in Lines : /\ \A n \in Nodes : cooldown[c][n] <= blocked[c][n]
                     /\ Connected(c) => cooldown[c][line[c].node] = 0

IInv == Shape /\ Placed /\ Agree

----------------------------------------------------------------------------
(* Steps that are not the daemon's.                                         *)

LEMMA ElsewhereKeeps ==
    ASSUME IInv, UNCHANGED <<exit, daemon>>, listed' \subseteq Nodes
    PROVE  IInv'
  BY DEF IInv, Shape, Placed, Agree, Connected, exit

LEMMA UpdatedIs == ASSUME IInv, Updated PROVE listed' \subseteq Nodes
  BY RecoveryAssumption DEF IInv, Shape, Updated

\* The preferred node of a line and its restart change nothing else.
LEMMA AskedKeeps ==
    ASSUME IInv, UNCHANGED <<cooldown, blocked, daemon, listed>>, line' \in [Lines -> Record],
           \A c \in Lines : line'[c].status = line[c].status /\ line'[c].node = line[c].node
    PROVE  IInv'
  BY DEF IInv, Shape, Placed, Agree, Connected, Daemon

LEMMA WakeKeeps ==
    ASSUME IInv, NEW c, Wake(c), UNCHANGED <<cooldown, blocked, daemon, listed>>
    PROVE  IInv'
  <1>1. line \in [Lines -> Record]
    BY DEF IInv, Shape
  <1>2. PICK p : p = IF line[c].pref \in Available(c) THEN line[c].pref ELSE None
    OBVIOUS
  <1>3. line' = [line EXCEPT ![c] = [line[c] EXCEPT !.again = TRUE, !.pref = p]]
    BY <1>2 DEF Wake
  <1>4. c \in Lines => p \in Nodes \cup {None}
    BY <1>1, <1>2 DEF Record
  <1>5. c \in Lines => /\ [line[c] EXCEPT !.again = TRUE, !.pref = p] \in Record
                       /\ [line[c] EXCEPT !.again = TRUE, !.pref = p].status = line[c].status
                       /\ [line[c] EXCEPT !.again = TRUE, !.pref = p].node = line[c].node
    BY <1>1, <1>4 DEF Record
  <1>6. /\ line' \in [Lines -> Record]
        /\ \A d \in Lines : line'[d].status = line[d].status /\ line'[d].node = line[d].node
    BY <1>1, <1>3, <1>5
  <1> QED
    BY <1>6, AskedKeeps

LEMMA PinKeeps ==
    ASSUME IInv, NEW c \in Lines, NEW n \in Nodes, Pin(c, n)
    PROVE  IInv'
  <1>1. line \in [Lines -> Record]
    BY DEF IInv, Shape
  <1>2. line' = [line EXCEPT ![c] = [line[c] EXCEPT !.pref = n, !.again = TRUE]]
        /\ UNCHANGED <<cooldown, blocked, daemon, listed>>
    BY DEF Pin, list
  <1>3. /\ [line[c] EXCEPT !.pref = n, !.again = TRUE] \in Record
        /\ [line[c] EXCEPT !.pref = n, !.again = TRUE].status = line[c].status
        /\ [line[c] EXCEPT !.pref = n, !.again = TRUE].node = line[c].node
    BY <1>1 DEF Record
  <1>4. /\ line' \in [Lines -> Record]
        /\ \A d \in Lines : line'[d].status = line[d].status /\ line'[d].node = line[d].node
    BY <1>1, <1>2, <1>3
  <1> QED
    BY <1>2, <1>4, AskedKeeps

----------------------------------------------------------------------------
(* The daemon's steps.                                                      *)

LEMMA IdleIs == Idle \in Daemon /\ Idle.at = "idle" /\ Idle.cur = None /\ Idle.todo = {}
  BY DEF Idle, Daemon

LEMMA BeginKeeps == ASSUME IInv, BeginPass PROVE IInv'
  <1>1. line \in [Lines -> Record] /\ UNCHANGED <<cooldown, blocked, listed>>
    BY DEF IInv, Shape, BeginPass, list
  <1>2. PICK again \in SUBSET Lines : again = {c \in Lines : line[c].again}
    OBVIOUS
  <1>3. PICK pref : pref = [c \in Lines |-> line[c].pref]
    OBVIOUS
  <1>4. pref \in [Lines -> Nodes \cup {None}]
    BY <1>1, <1>3 DEF Record
  <1>5. daemon' = [Idle EXCEPT !.at = "pass", !.todo = Lines, !.again = again, !.pref = pref]
    BY <1>2, <1>3 DEF BeginPass
  <1>6. daemon' \in Daemon /\ daemon'.at = "pass" /\ daemon'.todo = Lines /\ daemon'.cur = None
    BY <1>4, <1>5, IdleIs DEF Daemon
  <1>7. \A c \in Lines : line'[c] = [line[c] EXCEPT !.again = FALSE]
    BY DEF BeginPass
  <1>8. \A c \in Lines : /\ line'[c] \in Record /\ line'[c].status = line[c].status
                         /\ line'[c].node = line[c].node
    BY <1>1, <1>7 DEF Record
  <1>9. line' = [c \in Lines |-> [line[c] EXCEPT !.again = FALSE]]
    BY DEF BeginPass
  <1>10. line' \in [Lines -> Record]
    BY <1>8, <1>9
  <1> QED
    BY <1>1, <1>6, <1>8, <1>10 DEF IInv, Shape, Placed, Agree, Connected

LEMMA AgedIs ==
    ASSUME NEW f \in Passes, Backoff \in Nat
    PROVE  /\ Aged(f) \in Passes
           /\ \A c \in Lines, n \in Nodes :
                 Aged(f)[c][n] = IF f[c][n] = 0 THEN 0 ELSE f[c][n] - 1
  <1>1. \A c \in Lines, n \in Nodes : f[c][n] \in 0..Backoff
    BY DEF Passes
  <1>2. \A c \in Lines, n \in Nodes : (IF f[c][n] = 0 THEN 0 ELSE f[c][n] - 1) \in 0..Backoff
    BY <1>1
  <1> QED
    BY <1>2 DEF Aged, Passes

LEMMA EndKeeps == ASSUME IInv, EndPass PROVE IInv'
  <1>1. Shape /\ Placed /\ Agree /\ Backoff \in Nat /\ None \notin Lines
    BY RecoveryAssumption DEF IInv
  <1>2. daemon' = Idle /\ line' = line /\ cooldown' = Aged(cooldown) /\ blocked' = Aged(blocked)
        /\ listed' = listed
    BY DEF EndPass, list
  <1>3. cooldown' \in Passes /\ blocked' \in Passes
    BY <1>1, <1>2, AgedIs DEF Shape
  <1>4. Shape'
    BY <1>1, <1>2, <1>3, IdleIs DEF Shape
  <1>5. \A c \in Lines : line[c].status # "connecting"
    BY <1>1 DEF EndPass, Placed
  <1>6. Placed'
    BY <1>1, <1>2, <1>5, IdleIs DEF Placed, Connected
  <1>7. \A c \in Lines, n \in Nodes :
           /\ cooldown'[c][n] = IF cooldown[c][n] = 0 THEN 0 ELSE cooldown[c][n] - 1
           /\ blocked'[c][n] = IF blocked[c][n] = 0 THEN 0 ELSE blocked[c][n] - 1
    BY <1>1, <1>2, AgedIs DEF Shape
  <1>8. \A c \in Lines, n \in Nodes : cooldown[c][n] \in 0..Backoff /\ blocked[c][n] \in 0..Backoff
    BY <1>1 DEF Shape, Passes
  <1>9. \A c \in Lines, n \in Nodes : cooldown'[c][n] <= blocked'[c][n]
    BY <1>1, <1>7, <1>8 DEF Agree
  <1>10. \A c \in Lines : Connected(c) => line[c].node \in Nodes
    BY <1>1 DEF Shape, Placed, Record
  <1>11. \A c \in Lines : Connected(c) => cooldown'[c][line[c].node] = 0
    BY <1>1, <1>7, <1>10 DEF Agree
  <1>12. Agree'
    BY <1>2, <1>9, <1>11 DEF Agree, Connected
  <1> QED
    BY <1>4, <1>6, <1>12 DEF IInv

LEMMA KeepKeeps == ASSUME IInv, NEW c \in Lines, Keep(c) PROVE IInv'
  <1>1. Shape /\ Placed /\ Agree /\ Backoff \in Nat /\ None \notin Lines
    BY RecoveryAssumption DEF IInv
  <1>2. /\ daemon.at = "pass" /\ Connected(c) /\ UNCHANGED <<line, cooldown, listed>>
        /\ blocked' = [blocked EXCEPT ![c][line[c].node] = 0]
        /\ daemon' = [daemon EXCEPT !.todo = daemon.todo \ {c}, !.pref = [daemon.pref EXCEPT ![c] = None]]
    BY DEF Keep, Handles, Absolve, list
  <1>3. line[c].node \in Nodes
    BY <1>1, <1>2 DEF Shape, Placed, Record
  <1>4. 0 \in 0..Backoff /\ blocked \in Passes
    BY <1>1 DEF Shape
  <1>5. /\ blocked' \in Passes
        /\ \A d \in Lines, m \in Nodes :
              blocked'[d][m] = IF d = c /\ m = line[c].node THEN 0 ELSE blocked[d][m]
    BY <1>2, <1>3, <1>4 DEF Passes
  <1>6. [daemon.pref EXCEPT ![c] = None] \in [Lines -> Nodes \cup {None}]
    BY <1>1 DEF Shape, Daemon
  <1>7. /\ daemon' \in Daemon /\ daemon'.at = daemon.at /\ daemon'.cur = daemon.cur
        /\ daemon'.todo = daemon.todo \ {c} /\ daemon'.order = daemon.order
    BY <1>1, <1>2, <1>6 DEF Shape, Daemon
  <1>8. Shape'
    BY <1>1, <1>2, <1>5, <1>7 DEF Shape
  <1>9. Placed'
    BY <1>1, <1>2, <1>7 DEF Placed, Connected
  <1>10. \A d \in Lines, m \in Nodes : cooldown[d][m] <= blocked'[d][m]
    BY <1>1, <1>2, <1>5 DEF Agree
  <1>11. Agree'
    BY <1>1, <1>2, <1>10 DEF Agree, Connected
  <1> QED
    BY <1>8, <1>9, <1>11 DEF IInv

\* The candidates in their order: none of them if there is none, and else not none.
LEMMA OrderIs ==
    ASSUME NEW c, NEW S \in SUBSET Nodes, NEW s \in Orders(c, S),
           NEW t, t = SubSeq(s, 1, Shorter(MaxCandidates, Len(s)))
    PROVE  t \in Seq(Nodes) /\ (s = <<>> <=> S = {}) /\ (s # <<>> => t # <<>>)
  <1>1. IsFiniteSet(S)
    BY RecoveryAssumption, FS_Subset
  <1>2. Cardinality(S) \in Nat /\ (Cardinality(S) = 0 <=> S = {})
    BY <1>1, FS_CardinalityType, FS_EmptySet
  <1>3. s \in [1..Cardinality(S) -> S]
    BY DEF Orders, SetToSeqs
  <1>4. s \in Seq(Nodes) /\ Len(s) = Cardinality(S)
    BY <1>2, <1>3
  <1>5. s = <<>> <=> S = {}
    BY <1>2, <1>4
  <1>6. MaxCandidates \in Nat \ {0}
    BY RecoveryAssumption
  <1>7. /\ Shorter(MaxCandidates, Len(s)) \in 0..Len(s)
        /\ Len(s) # 0 => Shorter(MaxCandidates, Len(s)) >= 1
    BY <1>2, <1>4, <1>6 DEF Shorter
  <1>8. PICK k \in 0..Len(s) : k = Shorter(MaxCandidates, Len(s))
    BY <1>7
  <1>9. t \in Seq(Nodes) /\ Len(t) = k
    BY <1>4, <1>8
  <1> QED
    BY <1>4, <1>5, <1>7, <1>8, <1>9

LEMMA StartKeeps == ASSUME IInv, NEW c \in Lines, Start(c) PROVE IInv'
  <1>1. Shape /\ Placed /\ Agree /\ None \notin Lines
    BY RecoveryAssumption DEF IInv
  <1>2. daemon.at = "pass" /\ UNCHANGED <<cooldown, blocked, listed>>
    BY DEF Start, Handles, list
  <1>3. PICK S \in SUBSET Nodes : S = Chosen(c)
    <2>1. Chosen(c) \subseteq listed
      BY DEF Chosen, Selectable, Accepted, InCountry
    <2> QED
      BY <1>1, <2>1 DEF Shape
  <1>4. PICK s \in Orders(c, S) :
          daemon' = [daemon EXCEPT
              !.at = IF s = <<>> THEN "pass" ELSE "try",
              !.todo = @ \ {c}, !.again = @ \ {c}, !.pref[c] = None,
              !.cur = IF s = <<>> THEN None ELSE c,
              !.order = SubSeq(s, 1, Shorter(MaxCandidates, Len(s)))]
    BY <1>3, Zenon DEF Start, Reconnect
  <1>5. PICK t : t = SubSeq(s, 1, Shorter(MaxCandidates, Len(s)))
    OBVIOUS
  <1>6. t \in Seq(Nodes) /\ (s = <<>> <=> S = {}) /\ (s # <<>> => t # <<>>)
    BY <1>5, OrderIs
  <1>7. [daemon.pref EXCEPT ![c] = None] \in [Lines -> Nodes \cup {None}]
    BY <1>1 DEF Shape, Daemon
  <1>8. /\ daemon' \in Daemon /\ daemon'.todo = daemon.todo \ {c} /\ daemon'.order = t
        /\ daemon'.at = IF s = <<>> THEN "pass" ELSE "try"
        /\ daemon'.cur = IF s = <<>> THEN None ELSE c
    BY <1>1, <1>4, <1>5, <1>6, <1>7 DEF Shape, Daemon
  <1>9. PICK st : st = IF S = {} THEN "failed" ELSE "connecting"
    OBVIOUS
  <1>10. line' = [line EXCEPT ![c] = [line[c] EXCEPT !.node = None, !.status = st]]
    BY <1>3, <1>9 DEF Start, Reconnect
  <1>11. /\ [line[c] EXCEPT !.node = None, !.status = st] \in Record
         /\ [line[c] EXCEPT !.node = None, !.status = st].node = None
         /\ [line[c] EXCEPT !.node = None, !.status = st].status = st
    BY <1>1, <1>9 DEF Shape, Record, Status
  <1>12. /\ line' \in [Lines -> Record]
         /\ line'[c].node = None /\ line'[c].status = st
         /\ \A d \in Lines : d # c => line'[d] = line[d]
    BY <1>1, <1>10, <1>11 DEF Shape
  <1>13. Shape'
    BY <1>1, <1>2, <1>8, <1>12 DEF Shape
  <1>14. st # "connected" /\ (st = "connecting" <=> s # <<>>)
    BY <1>6, <1>9
  <1>15. Placed'
    BY <1>1, <1>2, <1>6, <1>8, <1>12, <1>14 DEF Placed, Connected
  <1>16. Agree'
    BY <1>1, <1>2, <1>12, <1>14 DEF Agree, Connected
  <1> QED
    BY <1>13, <1>15, <1>16 DEF IInv

LEMMA AsideWrites ==
    ASSUME IInv, NEW c \in Lines, NEW n \in Nodes, SetAside(c, n)
    PROVE  /\ cooldown' \in Passes /\ blocked' \in Passes
           /\ \A d \in Lines, m \in Nodes : cooldown'[d][m] <= blocked'[d][m]
           /\ \A d \in Lines, m \in Nodes : d # c => cooldown'[d][m] = cooldown[d][m]
  <1>1. cooldown \in Passes /\ blocked \in Passes /\ Backoff \in 0..Backoff
    BY RecoveryAssumption DEF IInv, Shape
  <1>2. /\ cooldown' = [cooldown EXCEPT ![c][n] = Backoff]
        /\ blocked' = [blocked EXCEPT ![c][n] = Backoff]
    BY DEF SetAside
  <1>3. /\ cooldown' \in Passes
        /\ \A d \in Lines, m \in Nodes :
              cooldown'[d][m] = IF d = c /\ m = n THEN Backoff ELSE cooldown[d][m]
    BY <1>1, <1>2 DEF Passes
  <1>4. /\ blocked' \in Passes
        /\ \A d \in Lines, m \in Nodes :
              blocked'[d][m] = IF d = c /\ m = n THEN Backoff ELSE blocked[d][m]
    BY <1>1, <1>2 DEF Passes
  <1> QED
    BY <1>1, <1>3, <1>4 DEF IInv, Agree

LEMMA FailKeeps == ASSUME IInv, NEW c \in Lines, Fail(c) PROVE IInv'
  <1>1. Shape /\ Placed /\ Agree /\ None \notin Lines
    BY RecoveryAssumption DEF IInv
  <1>2. /\ daemon.at = "pass" /\ c \in daemon.todo /\ Connected(c)
        /\ daemon' = daemon /\ listed' = listed
        /\ SetAside(c, line[c].node)
        /\ line' = [line EXCEPT ![c] = [line[c] EXCEPT !.node = None, !.status = "connecting"]]
    BY DEF Fail, Handles, IsNext, list
  <1>3. line[c].node \in Nodes
    BY <1>1, <1>2 DEF Shape, Placed, Record
  <1>4. /\ cooldown' \in Passes /\ blocked' \in Passes
        /\ \A d \in Lines, m \in Nodes : cooldown'[d][m] <= blocked'[d][m]
        /\ \A d \in Lines, m \in Nodes : d # c => cooldown'[d][m] = cooldown[d][m]
    BY <1>2, <1>3, AsideWrites
  <1>5. /\ [line[c] EXCEPT !.node = None, !.status = "connecting"] \in Record
        /\ [line[c] EXCEPT !.node = None, !.status = "connecting"].node = None
        /\ [line[c] EXCEPT !.node = None, !.status = "connecting"].status = "connecting"
    BY <1>1 DEF Shape, Record, Status
  <1>6. /\ line' \in [Lines -> Record]
        /\ line'[c].node = None /\ line'[c].status = "connecting"
        /\ \A d \in Lines : d # c => line'[d] = line[d]
    BY <1>1, <1>2, <1>5 DEF Shape
  <1>7. Shape'
    BY <1>1, <1>2, <1>4, <1>6 DEF Shape
  <1>8. Placed'
    BY <1>1, <1>2, <1>6 DEF Placed, Connected
  <1>9. \A d \in Lines : Connected(d) => line[d].node \in Nodes
    BY <1>1 DEF Shape, Placed, Record
  <1>10. Agree'
    BY <1>1, <1>4, <1>6, <1>9 DEF Agree, Connected
  <1> QED
    BY <1>7, <1>8, <1>10 DEF IInv

LEMMA FirstIs == ASSUME IInv, Trying PROVE First \in Nodes /\ Tail(daemon.order) \in Seq(Nodes)
  <1>1. daemon.order \in Seq(Nodes) /\ daemon.order # <<>>
    BY DEF IInv, Shape, Placed, Trying, Daemon
  <1> QED
    BY <1>1 DEF First

\* The line in hand is settled, one way or the other.
LEMMA SettledIs ==
    ASSUME IInv, Trying, NEW n \in Nodes \cup {None}, NEW st \in {"connected", "failed"},
           line' = [line EXCEPT ![daemon.cur].status = st, ![daemon.cur].node = n],
           st = "connected" <=> n # None,
           daemon' = [daemon EXCEPT !.at = "pass", !.cur = None, !.order = <<>>],
           listed' = listed, cooldown' \in Passes, blocked' \in Passes,
           \A d \in Lines, m \in Nodes : cooldown'[d][m] <= blocked'[d][m],
           \A d \in Lines, m \in Nodes : d # daemon.cur => cooldown'[d][m] = cooldown[d][m],
           n # None => cooldown'[daemon.cur][n] = 0
    PROVE  IInv'
  <1>1. Shape /\ Placed /\ Agree /\ daemon.at = "try" /\ daemon.cur \in Lines
    BY DEF IInv, Placed, Trying
  <1>2. PICK c \in Lines : c = daemon.cur
    BY <1>1
  <1>3. line' = [line EXCEPT ![c] = [line[c] EXCEPT !.status = st, !.node = n]]
    BY <1>2
  <1>4. /\ [line[c] EXCEPT !.status = st, !.node = n] \in Record
        /\ [line[c] EXCEPT !.status = st, !.node = n].node = n
        /\ [line[c] EXCEPT !.status = st, !.node = n].status = st
    BY <1>1 DEF Shape, Record, Status
  <1>5. /\ line' \in [Lines -> Record] /\ line'[c].node = n /\ line'[c].status = st
        /\ \A d \in Lines : d # c => line'[d] = line[d]
    BY <1>1, <1>3, <1>4 DEF Shape
  <1>6. <<>> \in Seq(Nodes)
    OBVIOUS
  <1>7. /\ daemon' \in Daemon /\ daemon'.at = "pass" /\ daemon'.cur = None
        /\ daemon'.todo = daemon.todo
    BY <1>1, <1>6 DEF Shape, Daemon
  <1>8. Shape'
    BY <1>1, <1>5, <1>7 DEF Shape
  <1>9. Placed'
    BY <1>1, <1>2, <1>5, <1>7 DEF Placed, Connected
  <1>10. \A d \in Lines : Connected(d) => line[d].node \in Nodes
    BY <1>1 DEF Shape, Placed, Record
  <1>11. Agree'
    BY <1>1, <1>2, <1>5, <1>10 DEF Agree, Connected
  <1> QED
    BY <1>8, <1>9, <1>11 DEF IInv

LEMMA SucceedKeeps == ASSUME IInv, Succeed PROVE IInv'
  <1>1. Shape /\ Placed /\ Agree /\ Trying /\ Backoff \in Nat /\ None \notin Nodes
    BY RecoveryAssumption DEF IInv, Succeed
  <1>2. daemon.cur \in Lines /\ First \in Nodes
    BY <1>1, FirstIs DEF Placed, Trying
  <1>3. PICK n \in Nodes : n = First
    BY <1>2
  <1>4. /\ cooldown' = [cooldown EXCEPT ![daemon.cur][n] = 0]
        /\ blocked' = [blocked EXCEPT ![daemon.cur][n] = 0]
    BY <1>3 DEF Succeed, Credit, Absolve
  <1>5. 0 \in 0..Backoff /\ cooldown \in Passes /\ blocked \in Passes
    BY <1>1 DEF Shape
  <1>6. /\ cooldown' \in Passes
        /\ \A d \in Lines, m \in Nodes :
              cooldown'[d][m] = IF d = daemon.cur /\ m = n THEN 0 ELSE cooldown[d][m]
    BY <1>2, <1>4, <1>5 DEF Passes
  <1>7. /\ blocked' \in Passes
        /\ \A d \in Lines, m \in Nodes :
              blocked'[d][m] = IF d = daemon.cur /\ m = n THEN 0 ELSE blocked[d][m]
    BY <1>2, <1>4, <1>5 DEF Passes
  <1>8. \A d \in Lines, m \in Nodes : cooldown'[d][m] <= blocked'[d][m]
    BY <1>1, <1>6, <1>7 DEF Agree
  <1>9. /\ line' = [line EXCEPT ![daemon.cur].status = "connected", ![daemon.cur].node = n]
        /\ daemon' = [daemon EXCEPT !.at = "pass", !.cur = None, !.order = <<>>]
        /\ listed' = listed
    BY <1>3 DEF Succeed, list
  <1>10. cooldown'[daemon.cur][n] = 0
    BY <1>2, <1>6
  <1>11. \A d \in Lines, m \in Nodes : d # daemon.cur => cooldown'[d][m] = cooldown[d][m]
    BY <1>6
  <1> QED
    BY <1>1, <1>6, <1>7, <1>8, <1>9, <1>10, <1>11, SettledIs

LEMMA TryKeeps == ASSUME IInv, TryNext PROVE IInv'
  <1>1. Shape /\ Placed /\ Agree /\ Trying
    BY DEF IInv, TryNext
  <1>2. /\ daemon.cur \in Lines /\ line[daemon.cur].status = "connecting"
        /\ First \in Nodes /\ Tail(daemon.order) \in Seq(Nodes)
    BY <1>1, FirstIs DEF Placed, Trying
  <1>3. SetAside(daemon.cur, First) /\ listed' = listed
    BY DEF TryNext, list
  <1>4. /\ cooldown' \in Passes /\ blocked' \in Passes
        /\ \A d \in Lines, m \in Nodes : cooldown'[d][m] <= blocked'[d][m]
        /\ \A d \in Lines, m \in Nodes : d # daemon.cur => cooldown'[d][m] = cooldown[d][m]
    BY <1>2, <1>3, AsideWrites
  <1>5. CASE Tail(daemon.order) = <<>>
    <2>1. /\ line' = [line EXCEPT ![daemon.cur].status = "failed"]
          /\ daemon' = [daemon EXCEPT !.at = "pass", !.cur = None, !.order = <<>>]
      BY <1>5 DEF TryNext
    <2>2. line[daemon.cur].node = None
      BY <1>1, <1>2 DEF Placed, Connected
    <2>3. line' = [line EXCEPT ![daemon.cur].status = "failed", ![daemon.cur].node = None]
      <3>1. line[daemon.cur] \in Record /\ line \in [Lines -> Record]
        BY <1>1, <1>2 DEF Shape
      <3>2. [line[daemon.cur] EXCEPT !.status = "failed", !.node = None]
            = [line[daemon.cur] EXCEPT !.status = "failed"]
        BY <2>2, <3>1 DEF Record
      <3> QED
        BY <1>2, <2>1, <3>1, <3>2
    <2> QED
      BY <1>1, <1>3, <1>4, <2>1, <2>3, SettledIs
  <1>6. CASE Tail(daemon.order) # <<>>
    <2>1. line' = line /\ daemon' = [daemon EXCEPT !.order = Tail(daemon.order)]
      BY <1>6 DEF TryNext
    <2>2. /\ daemon' \in Daemon /\ daemon'.at = daemon.at /\ daemon'.cur = daemon.cur
          /\ daemon'.todo = daemon.todo /\ daemon'.order = Tail(daemon.order)
      BY <1>1, <1>2, <2>1 DEF Shape, Daemon
    <2>3. Shape' /\ Placed'
      BY <1>1, <1>3, <1>4, <1>6, <2>1, <2>2 DEF Shape, Placed, Connected
    <2>4. \A d \in Lines : Connected(d) => line[d].node \in Nodes /\ d # daemon.cur
      BY <1>1, <1>2 DEF Shape, Placed, Record, Connected
    <2>5. Agree'
      BY <1>1, <1>4, <2>1, <2>4 DEF Agree, Connected
    <2> QED
      BY <2>3, <2>5 DEF IInv
  <1> QED
    BY <1>5, <1>6

----------------------------------------------------------------------------
LEMMA InitInv == Init => IInv
  <1> SUFFICES ASSUME Init PROVE IInv
    OBVIOUS
  <1>1. Backoff \in Nat /\ 0 \in 0..Backoff
    BY RecoveryAssumption
  <1>2. \A c \in Lines : line[c] = [status |-> "failed", node |-> None, pref |-> None, again |-> FALSE]
    BY DEF Init
  <1>3. line \in [Lines -> Record] /\ \A c \in Lines : line[c].status = "failed" /\ line[c].node = None
    BY DEF Init, Record, Status
  <1>4. cooldown \in Passes /\ blocked \in Passes
    BY <1>1 DEF Init, Passes
  <1>5. \A c \in Lines, n \in Nodes : cooldown[c][n] <= blocked[c][n]
    BY DEF Init
  <1>6. listed \subseteq Nodes
    BY RecoveryAssumption DEF Init
  <1> QED
    BY <1>3, <1>4, <1>5, <1>6, IdleIs DEF IInv, Shape, Placed, Agree, Connected, Init

LEMMA NextInv == IInv /\ [Next]_vars => IInv'
  <1> SUFFICES ASSUME IInv, [Next]_vars PROVE IInv'
    OBVIOUS
  <1>1. CASE DaemonStep
    BY <1>1, BeginKeeps, EndKeeps, SucceedKeeps, TryKeeps, KeepKeeps, StartKeeps, FailKeeps
       DEF DaemonStep
  <1>2. CASE Found
    BY <1>2, WakeKeeps DEF Found, list
  <1>3. CASE RecoveryStep /\ ~Found
    <2>1. UNCHANGED <<exit, daemon>>
      BY <1>3 DEF RecoveryStep, Watch, Rest, TestCountry, NotTested, NothingToTest, NotFound,
         EmergencyUpdate, NotUpdated, PassOver, Pick
    <2>2. listed' = listed \/ Updated
      BY <1>3 DEF RecoveryStep, Watch, Rest, TestCountry, NotTested, NothingToTest, NotFound,
         EmergencyUpdate, NotUpdated, PassOver, Pick, list
    <2> QED
      BY <2>1, <2>2, UpdatedIs, ElsewhereKeeps DEF IInv, Shape
  <1>4. CASE \E c \in Lines, n \in Nodes : Pin(c, n)
    BY <1>4, PinKeeps
  <1>5. CASE Around /\ ~\E c \in Lines, n \in Nodes : Pin(c, n)
    <2>1. UNCHANGED <<exit, daemon>>
      BY <1>5 DEF Around, TestDue, UpdateDue, StandbyTest, RoutineUpdate, Pause
    <2>2. listed' = listed \/ Updated
      BY <1>5 DEF Around, TestDue, UpdateDue, StandbyTest, RoutineUpdate, Pause, list
    <2> QED
      BY <2>1, <2>2, UpdatedIs, ElsewhereKeeps DEF IInv, Shape
  <1>6. CASE UNCHANGED vars
    BY <1>6, ElsewhereKeeps DEF vars, list, IInv, Shape
  <1> QED
    BY <1>1, <1>2, <1>3, <1>4, <1>5, <1>6 DEF Next

LEMMA Invariant == Spec => []IInv
  BY InitInv, NextInv, PTL DEF Spec

\* The types; only a connected line has a node, and one that is being connected is
\* still before the daemon.
THEOREM TypeCorrect == Spec => []TypeOK
  <1>1. IInv => TypeOK
    BY DEF IInv, Shape, Placed, TypeOK, Record, Passes
  <1> QED
    BY <1>1, Invariant, PTL

\* A node that the dashboard counts as available for a line is a candidate of the line:
\* the record by which the dashboard excludes a node lasts at least as long as the one
\* by which the daemon does.
THEOREM AvailableIsTriedCorrect == Spec => []AvailableIsTried
  <1>1. IInv => AvailableIsTried
    <2> SUFFICES ASSUME IInv, NEW c \in Lines, NEW n \in Available(c)
                 PROVE  n \in Selectable(c, TRUE)
      BY DEF AvailableIsTried
    <2>1. n \in Accepted(c) /\ probe[n] = "available" /\ blocked[c][n] = 0
      BY DEF Available
    <2>2. n \in Nodes
      BY <2>1 DEF Accepted, InCountry, IInv, Shape
    <2>3. cooldown[c][n] \in 0..Backoff /\ cooldown[c][n] <= 0
      BY <2>1, <2>2 DEF IInv, Shape, Agree, Passes
    <2>4. OffCooldown(c, n, TRUE)
      BY <2>3, RecoveryAssumption DEF OffCooldown
    <2> QED
      BY <2>1, <2>4 DEF Selectable
  <1> QED
    BY <1>1, Invariant, PTL

=============================================================================
