-------------------------- MODULE LineStoreProofs --------------------------
(***************************************************************************)
(* Proofs about LineStore: the file stays sane under any overlap of all     *)
(* requests and any fault; the requests that hold the lock leave other      *)
(* lines alone and change the database only while x-ui is down; one request *)
(* at a time leaves the database in agreement with the file.                *)
(***************************************************************************)
EXTENDS LineStore, FiniteSetTheorems, TLAPS

LEMMA LinesFinite ==
    ASSUME NEW f
    PROVE  IsFiniteSet(Lines(f)) /\ Cardinality(Lines(f)) \in Nat
  <1>1. Lines(f) \in SUBSET Ids
    BY DEF Lines
  <1>2. IsFiniteSet(Lines(f))
    BY <1>1, StoreAssumption, FS_Subset
  <1> QED
    BY <1>2, FS_CardinalityType

\* A file whose lines are lines of a sane file, with their ports, is sane.
LEMMA FewerLinesSane ==
    ASSUME NEW f, Sane(f), NEW g, Lines(g) \subseteq Lines(f),
           \A c \in Lines(g) : g.lines[c].port = f.lines[c].port
    PROVE  Sane(g)
  <1>1. \A c \in Lines(g) : PortFree(g, c, g.lines[c].port)
    BY DEF Sane, PortFree
  <1>2. Cardinality(Lines(g)) <= Cardinality(Lines(f))
    BY LinesFinite, FS_Subset
  <1>3. Cardinality(Lines(f)) <= MaxLines
    BY DEF Sane
  <1> QED
    BY <1>1, <1>2, <1>3, LinesFinite, StoreAssumption DEF Sane

\* A file in which one line is new or has another free port is sane.
LEMMA SavedLineSane ==
    ASSUME NEW f \in Config, Sane(f), NEW c \in Ids, NEW l \in Line,
           PortFree(f, c, l.port),
           c \in Lines(f) \/ Cardinality(Lines(f)) < MaxLines
    PROVE  Sane([f EXCEPT !.lines[c] = l])
  <1> DEFINE g == [f EXCEPT !.lines[c] = l]
  <1>1. /\ g.lines[c] = l
        /\ \A d \in Ids \ {c} : g.lines[d] = f.lines[d]
    BY DEF Config
  <1> HIDE DEF g
  <1>2. Lines(g) \subseteq Lines(f) \cup {c}
    BY <1>1 DEF Lines
  <1>3. ASSUME NEW d \in Lines(g), NEW e \in Lines(g) \ {d}
        PROVE  g.lines[e].port # g.lines[d].port
    <2>1. CASE d = c
      BY <1>1, <1>2, <1>3, <2>1 DEF PortFree, Lines
    <2>2. CASE e = c
      BY <1>1, <1>2, <1>3, <2>2 DEF PortFree, Lines
    <2>3. CASE d # c /\ e # c
      BY <1>1, <1>2, <1>3, <2>3 DEF Sane, PortFree, Lines
    <2> QED
      BY <2>1, <2>2, <2>3
  <1>4. Cardinality(Lines(g)) <= MaxLines
    <2>1. IsFiniteSet(Lines(f)) /\ Cardinality(Lines(f)) \in Nat
      BY LinesFinite
    <2>2. /\ IsFiniteSet(Lines(f) \cup {c})
          /\ Cardinality(Lines(f) \cup {c}) =
                IF c \in Lines(f) THEN Cardinality(Lines(f)) ELSE Cardinality(Lines(f)) + 1
      BY <2>1, FS_AddElement
    <2>3. Cardinality(Lines(f) \cup {c}) <= MaxLines
      BY <2>1, <2>2, StoreAssumption DEF Sane
    <2>4. Cardinality(Lines(g)) <= Cardinality(Lines(f) \cup {c})
      BY <1>2, <2>2, FS_Subset
    <2>5. Cardinality(Lines(g)) \in Nat
      BY LinesFinite
    <2> QED
      BY <2>1, <2>2, <2>3, <2>4, <2>5, StoreAssumption
  <1>5. Sane(g)
    BY <1>3, <1>4 DEF Sane, PortFree
  <1> QED
    BY <1>5 DEF g

-----------------------------------------------------------------------------
(* The inductive invariant of all requests.                                  *)

\* What a request has read and what it writes are sane, and the script has a
\* copy of the database before it changes it.
JobGood(j) ==
    /\ Sane(j.old) /\ Sane(j.conf)
    /\ j.step = "commit" => j.backup \in Database

IInv ==
    /\ TypeOK
    /\ Sane(file)
    /\ \A t \in Threads : jobs[t] # None => JobGood(jobs[t])

LEMMA InitGood == Init => IInv
  <1> SUFFICES ASSUME Init PROVE IInv
    OBVIOUS
  <1>1. file \in Config /\ Sane(file)
    BY DEF Init
  <1>2. db \in Database
    BY DEF Init, Database, Config, Enabled, Lines, Line
  <1>3. jobs \in [Threads -> Job \cup {None}] /\ \A t \in Threads : jobs[t] = None
    BY DEF Init
  <1>4. xui \in BOOLEAN /\ lock \in Threads \cup {None} /\ left \in 0..Requests
    BY StoreAssumption DEF Init
  <1> QED
    BY <1>1, <1>2, <1>3, <1>4 DEF IInv, TypeOK

\* A request whose copy of the file is sane may begin.
LEMMA BeginGood ==
    ASSUME IInv, NEW t \in Threads, NEW op, NEW id \in Ids \cup {None},
           NEW conf \in Config, Sane(conf), NEW provision \in BOOLEAN,
           Begin(t, op, id, conf, provision)
    PROVE  IInv'
  <1> DEFINE j == [op |-> op, id |-> id, step |-> "write", old |-> file, conf |-> conf,
                   provision |-> provision, again |-> FALSE, backup |-> None]
  <1>1. /\ op \in Ops /\ jobs' = [jobs EXCEPT ![t] = j]
        /\ file' = file /\ db' = db /\ xui' = xui
        /\ left > 0 /\ left' = left - 1 /\ lock' \in {lock, t}
    BY DEF Begin, Enter
  <1>2. j \in Job
    BY <1>1 DEF IInv, TypeOK, Job
  <1>3. JobGood(j)
    BY DEF JobGood, IInv
  <1> HIDE DEF j
  <1>4. jobs' \in [Threads -> Job \cup {None}]
    BY <1>1, <1>2 DEF IInv, TypeOK
  <1>5. \A u \in Threads : jobs'[u] = IF u = t THEN j ELSE jobs[u]
    BY <1>1 DEF IInv, TypeOK
  <1>6. left' \in 0..Requests
    BY <1>1, StoreAssumption DEF IInv, TypeOK
  <1>7. TypeOK'
    BY <1>1, <1>4, <1>6 DEF IInv, TypeOK
  <1> QED
    BY <1>1, <1>3, <1>5, <1>7 DEF IInv

LEMMA LineOf ==
    ASSUME NEW f \in Config, NEW c \in Lines(f)
    PROVE  c \in Ids /\ f.lines[c] \in Line
  BY DEF Lines, Config

\* A request that changes one line, not its port.
LEMMA ChangedLine ==
    ASSUME NEW f \in Config, Sane(f), NEW c \in Lines(f), NEW l \in Line,
           l.port = f.lines[c].port
    PROVE  LET g == [f EXCEPT !.lines[c] = l] IN g \in Config /\ Sane(g)
  <1> DEFINE g == [f EXCEPT !.lines[c] = l]
  <1>1. g \in Config
    BY LineOf DEF Config
  <1>2. /\ g.lines[c] = l
        /\ \A d \in Ids \ {c} : g.lines[d] = f.lines[d]
    BY LineOf DEF Config
  <1> HIDE DEF g
  <1>3. Lines(g) \subseteq Lines(f) /\ \A d \in Lines(g) : g.lines[d].port = f.lines[d].port
    BY <1>2 DEF Lines
  <1>4. Sane(g)
    BY <1>3, FewerLinesSane
  <1> QED
    BY <1>1, <1>4 DEF g

LEMMA RequestGood ==
    ASSUME IInv, NEW t \in Threads, Request(t)
    PROVE  IInv'
  <1>0. file \in Config /\ Sane(file)
    BY DEF IInv, TypeOK
  <1>1. ASSUME NEW c \in Ids, NEW port \in Ports, NEW pin \in Pins \cup {None},
               NEW fresh \in BOOLEAN, Save(t, c, port, pin, fresh)
        PROVE  IInv'
    <2> DEFINE l == [port |-> port, pin |-> pin, enabled |-> TRUE,
                     awaiting |-> fresh \/ file.lines[c].awaiting]
               provision == fresh \/ file.lines[c].port # port
    <2>1. /\ PortFree(file, c, port)
          /\ file.lines[c] = None => fresh /\ Cardinality(Lines(file)) < MaxLines
          /\ Begin(t, "save", c, [file EXCEPT !.lines[c] = l], provision)
      BY <1>1 DEF Save
    <2>2. (fresh \/ file.lines[c].awaiting) \in BOOLEAN
      OBVIOUS
    <2>3. l \in Line
      BY <2>2 DEF Line
    <2>4. provision \in BOOLEAN
      OBVIOUS
    <2>5. l.port = port
      OBVIOUS
    <2> HIDE DEF l, provision
    <2>6. Sane([file EXCEPT !.lines[c] = l])
      BY <1>0, <2>1, <2>3, <2>5, SavedLineSane DEF Lines
    <2>7. [file EXCEPT !.lines[c] = l] \in Config
      BY <1>0, <2>3 DEF Config
    <2> QED
      BY <2>1, <2>4, <2>6, <2>7, BeginGood
  <1>2. ASSUME NEW c \in Ids, Delete(t, c)
        PROVE  IInv'
    <2> DEFINE g == [file EXCEPT !.lines[c] = None]
    <2>1. g \in Config
      BY <1>0 DEF Config
    <2>2. Lines(g) \subseteq Lines(file)
          /\ \A d \in Lines(g) : g.lines[d].port = file.lines[d].port
      BY <1>0 DEF Lines, Config
    <2>3. Begin(t, "delete", c, g, TRUE)
      BY <1>2 DEF Delete
    <2> HIDE DEF g
    <2>4. Sane(g)
      BY <1>0, <2>2, FewerLinesSane
    <2> QED
      BY <2>1, <2>3, <2>4, BeginGood
  <1>3. ASSUME NEW c \in Ids, Ready(t, c)
        PROVE  IInv'
    <2> DEFINE l == [file.lines[c] EXCEPT !.awaiting = FALSE]
    <2>1. c \in Lines(file) /\ Begin(t, "ready", c, [file EXCEPT !.lines[c].awaiting = FALSE], FALSE)
      BY <1>3 DEF Ready
    <2>2. l \in Line /\ l.port = file.lines[c].port
      BY <1>0, <2>1, LineOf DEF Line
    <2>3. [file EXCEPT !.lines[c].awaiting = FALSE] = [file EXCEPT !.lines[c] = l]
      OBVIOUS
    <2> HIDE DEF l
    <2> QED
      BY <1>0, <2>1, <2>2, <2>3, ChangedLine, BeginGood
  <1>4. ASSUME NEW c \in Ids, Unpin(t, c)
        PROVE  IInv'
    <2> DEFINE l == [file.lines[c] EXCEPT !.pin = None]
    <2>1. c \in Lines(file) /\ Begin(t, "wake", c, [file EXCEPT !.lines[c].pin = None], FALSE)
      BY <1>4 DEF Unpin
    <2>2. l \in Line /\ l.port = file.lines[c].port
      BY <1>0, <2>1, LineOf DEF Line
    <2>3. [file EXCEPT !.lines[c].pin = None] = [file EXCEPT !.lines[c] = l]
      OBVIOUS
    <2> HIDE DEF l
    <2> QED
      BY <1>0, <2>1, <2>2, <2>3, ChangedLine, BeginGood
  <1>5. ASSUME NEW c \in Ids, NEW pin \in Pins, Switch(t, c, pin)
        PROVE  IInv'
    <2> DEFINE l == [file.lines[c] EXCEPT !.pin = pin]
    <2>1. c \in Lines(file) /\ Begin(t, "switch", c, [file EXCEPT !.lines[c].pin = pin], FALSE)
      BY <1>5 DEF Switch
    <2>2. l \in Line /\ l.port = file.lines[c].port
      BY <1>0, <2>1, LineOf DEF Line
    <2>3. [file EXCEPT !.lines[c].pin = pin] = [file EXCEPT !.lines[c] = l]
      OBVIOUS
    <2> HIDE DEF l
    <2> QED
      BY <1>0, <2>1, <2>2, <2>3, ChangedLine, BeginGood
  <1>6. ASSUME NEW protocol \in Protocols, SaveDirect(t, protocol)
        PROVE  IInv'
    <2> DEFINE g == [file EXCEPT !.direct = protocol]
    <2>1. g \in Config /\ g.lines = file.lines
      BY <1>0 DEF Config
    <2>2. Begin(t, "direct", None, g, TRUE)
      BY <1>6 DEF SaveDirect
    <2> HIDE DEF g
    <2>3. Sane(g)
      BY <1>0, <2>1, FewerLinesSane DEF Lines
    <2> QED
      BY <2>1, <2>2, <2>3, BeginGood
  <1>7. ASSUME NEW ports \in [Ids -> Ports \cup {None}], NEW enabled \in SUBSET Ids,
               NEW protocol \in Protocols, SaveAll(t, ports, enabled, protocol)
        PROVE  IInv'
    <2> DEFINE line(c) == [port |-> ports[c], enabled |-> c \in enabled,
                           pin |-> IF c \in Lines(file) THEN file.lines[c].pin ELSE None,
                           awaiting |-> c \in Lines(file) /\ file.lines[c].awaiting]
               new == [c \in Ids |-> IF ports[c] = None THEN None ELSE line(c)]
               g == [lines |-> new, direct |-> protocol]
    <2>1. Sane(g) /\ Begin(t, "all", None, g, TRUE)
      BY <1>7 DEF SaveAll
    <2>2. ASSUME NEW c \in Ids, ports[c] # None
          PROVE  line(c) \in Line
      <3>1. (IF c \in Lines(file) THEN file.lines[c].pin ELSE None) \in Pins \cup {None}
        BY <1>0, LineOf DEF Line
      <3>2. (c \in Lines(file) /\ file.lines[c].awaiting) \in BOOLEAN
        OBVIOUS
      <3>3. (c \in enabled) \in BOOLEAN
        OBVIOUS
      <3>4. ports[c] \in Ports
        BY <2>2
      <3> QED
        BY <3>1, <3>2, <3>3, <3>4 DEF Line
    <2> HIDE DEF line
    <2>3. new \in [Ids -> Line \cup {None}]
      BY <2>2
    <2>4. g \in Config
      BY <2>3 DEF Config
    <2> HIDE DEF g
    <2> QED
      BY <2>1, <2>4, BeginGood
  <1> QED
    BY <1>1, <1>2, <1>3, <1>4, <1>5, <1>6, <1>7 DEF Request

\* A step leaves the other requests alone, and its own gone or as good.
LEMMA JobsGood ==
    ASSUME IInv, NEW t \in Threads, NEW j,
           j = None \/ (j \in Job /\ JobGood(j)),
           jobs' = [jobs EXCEPT ![t] = j]
    PROVE  /\ jobs' \in [Threads -> Job \cup {None}]
           /\ \A u \in Threads : jobs'[u] # None => JobGood(jobs'[u])
  BY DEF IInv, TypeOK

LEMMA LeaveGood ==
    ASSUME IInv, NEW t \in Threads, Leave(t), left' = left,
           file' \in Config, Sane(file)', db' \in Database, xui' \in BOOLEAN
    PROVE  IInv'
  <1>1. jobs' = [jobs EXCEPT ![t] = None] /\ lock' \in Threads \cup {None}
    BY DEF Leave, IInv, TypeOK
  <1> DEFINE n == None
  <1>2. jobs' = [jobs EXCEPT ![t] = n] /\ n = None
    BY <1>1
  <1> HIDE DEF n
  <1>3. /\ jobs' \in [Threads -> Job \cup {None}]
        /\ \A u \in Threads : jobs'[u] # None => JobGood(jobs'[u])
    BY <1>2, JobsGood
  <1> QED
    BY <1>1, <1>3 DEF IInv, TypeOK

\* A job with another step is as good, unless it is about to commit.
LEMMA GoToGood ==
    ASSUME IInv, NEW t \in Threads, jobs[t] # None,
           NEW step \in {"stop", "copy", "undo", "start"}, GoTo(t, step),
           lock' = lock, left' = left,
           file' \in Config, Sane(file)', db' \in Database, xui' \in BOOLEAN
    PROVE  IInv'
  <1> DEFINE j == [jobs[t] EXCEPT !.step = step, !.backup = None]
  <1>1. jobs[t] \in Job /\ JobGood(jobs[t])
    BY DEF IInv, TypeOK
  <1>2. j \in Job /\ JobGood(j)
    BY <1>1 DEF Job, JobGood
  <1>3. jobs' = [jobs EXCEPT ![t] = j]
    BY DEF GoTo
  <1> HIDE DEF j
  <1>4. /\ jobs' \in [Threads -> Job \cup {None}]
        /\ \A u \in Threads : jobs'[u] # None => JobGood(jobs'[u])
    BY <1>2, <1>3, JobsGood
  <1> QED
    BY <1>4 DEF IInv, TypeOK

LEMMA AppliedType ==
    ASSUME db \in Database, NEW j \in Job, Possible(j)
    PROVE  Applied(j) \in Database
  <1>1. db.inbounds \in [Ids -> Ports \cup {None}] /\ db.direct \in Protocols
    BY DEF Database
  <1>2. \A c \in Enabled(j.conf) : j.conf.lines[c].port \in Ports
    BY LineOf DEF Enabled, Job, Line
  <1>3. j.conf.direct \in Protocols
    BY DEF Job, Config
  <1>4. Inbounds(j) \in [Ids -> Ports \cup {None}]
    <2>1. CASE Deletes(j)
      <3>1. Inbounds(j) = [db.inbounds EXCEPT ![j.id] = None]
        BY <2>1 DEF Inbounds
      <3> QED
        BY <1>1, <3>1
    <2>2. CASE ~Deletes(j) /\ OneLine(j)
      <3>1. j.conf.lines[j.id].port \in Ports
        BY <1>2, <2>2 DEF Possible
      <3>2. Inbounds(j) = [db.inbounds EXCEPT ![j.id] = j.conf.lines[j.id].port]
        BY <2>2 DEF Inbounds
      <3> QED
        BY <1>1, <3>1, <3>2
    <2>3. CASE ~Deletes(j) /\ ~OneLine(j) /\ j.op = "all"
      BY <1>2, <2>3 DEF Inbounds
    <2>4. CASE ~Deletes(j) /\ ~OneLine(j) /\ j.op # "all"
      BY <1>1, <2>4 DEF Inbounds
    <2> QED
      BY <2>1, <2>2, <2>3, <2>4
  <1> QED
    BY <1>1, <1>3, <1>4 DEF Applied, Database

LEMMA StepGood ==
    ASSUME IInv, NEW t \in Threads, Step(t)
    PROVE  IInv'
  <1>0. /\ file \in Config /\ Sane(file) /\ db \in Database /\ xui \in BOOLEAN
        /\ lock \in Threads \cup {None} /\ left \in 0..Requests
    BY DEF IInv, TypeOK
  <1>00. jobs[t] # None => jobs[t] \in Job /\ JobGood(jobs[t])
    BY DEF IInv, TypeOK
  <1>1. CASE Write(t)
    <2>1. jobs[t] # None /\ file' = jobs[t].conf /\ db' = db /\ xui' = xui /\ left' = left
      BY <1>1 DEF Write, At
    <2>2. file' \in Config /\ Sane(file)'
      BY <1>00, <2>1 DEF Job, JobGood
    <2>3. CASE GoTo(t, "stop") /\ UNCHANGED lock
      BY <1>0, <2>1, <2>2, <2>3, GoToGood
    <2>4. CASE Leave(t)
      BY <1>0, <2>1, <2>2, <2>4, LeaveGood
    <2> QED
      BY <1>1, <2>3, <2>4 DEF Write
  <1>2. CASE Stop(t)
    <2>1. /\ jobs[t] # None /\ GoTo(t, "copy") /\ file' = file /\ db' = db
          /\ xui' = FALSE /\ lock' = lock /\ left' = left
      BY <1>2 DEF Stop, At
    <2> QED
      BY <1>0, <2>1, GoToGood
  <1>3. CASE StopFails(t)
    BY <1>0, <1>3, LeaveGood DEF StopFails
  <1>4. CASE Copy(t)
    <2> DEFINE j == [jobs[t] EXCEPT !.step = "commit", !.conf = file, !.backup = db]
    <2>1. /\ jobs[t] # None /\ jobs' = [jobs EXCEPT ![t] = j]
          /\ UNCHANGED <<file, db, xui, lock, left>>
      BY <1>4 DEF Copy, At
    <2>2. j \in Job /\ JobGood(j)
      BY <1>0, <1>00, <2>1 DEF Job, JobGood
    <2> HIDE DEF j
    <2>3. /\ jobs' \in [Threads -> Job \cup {None}]
          /\ \A u \in Threads : jobs'[u] # None => JobGood(jobs'[u])
      BY <2>1, <2>2, JobsGood
    <2> QED
      BY <1>0, <2>1, <2>3 DEF IInv, TypeOK
  <1>5. CASE NothingEnabled(t)
    <2>1. /\ jobs[t] # None /\ GoTo(t, "undo") /\ file' = file /\ db' = db
          /\ xui' = xui /\ lock' = lock /\ left' = left
      BY <1>5 DEF NothingEnabled, At
    <2> QED
      BY <1>0, <2>1, GoToGood
  <1>6. CASE Commit(t) \/ CommitUnreported(t)
    <2>1. PICK step \in {"start", "undo"} :
              /\ jobs[t] # None /\ GoTo(t, step) /\ file' = file
              /\ db' = Applied(jobs[t]) /\ Possible(jobs[t])
              /\ xui' = xui /\ lock' = lock /\ left' = left
      BY <1>6 DEF Commit, CommitUnreported, At
    <2>2. db' \in Database
      BY <1>0, <1>00, <2>1, AppliedType
    <2> QED
      BY <1>0, <2>1, <2>2, GoToGood
  <1>7. CASE Abort(t)
    <2>1. /\ jobs[t] # None /\ jobs[t].step = "commit" /\ GoTo(t, "undo") /\ file' = file
          /\ db' = jobs[t].backup /\ xui' = xui /\ lock' = lock /\ left' = left
      BY <1>7 DEF Abort, At
    <2>2. db' \in Database
      BY <1>00, <2>1 DEF JobGood
    <2> QED
      BY <1>0, <2>1, <2>2, GoToGood
  <1>8. CASE Undo(t)
    <2> DEFINE redo == Deletes(jobs[t])
               j == [jobs[t] EXCEPT !.step = IF redo THEN "copy" ELSE "start",
                                    !.again = @ \/ redo]
    <2>1. /\ jobs[t] # None /\ jobs[t].step = "undo" /\ jobs' = [jobs EXCEPT ![t] = j]
          /\ file' = IF jobs[t].op = "all" \/ jobs[t].again THEN file ELSE jobs[t].old
          /\ UNCHANGED <<db, xui, lock, left>>
      BY <1>8 DEF Undo, At
    <2>2. j \in Job /\ JobGood(j)
      BY <1>00, <2>1 DEF Job, JobGood
    <2>3. file' \in Config /\ Sane(file)'
      BY <1>0, <1>00, <2>1 DEF Job, JobGood
    <2> HIDE DEF j
    <2>4. /\ jobs' \in [Threads -> Job \cup {None}]
          /\ \A u \in Threads : jobs'[u] # None => JobGood(jobs'[u])
      BY <2>1, <2>2, JobsGood
    <2> QED
      BY <1>0, <2>1, <2>3, <2>4 DEF IInv, TypeOK
  <1>9. CASE Start(t)
    BY <1>0, <1>9, LeaveGood DEF Start
  <1> QED
    BY <1>1, <1>2, <1>3, <1>4, <1>5, <1>6, <1>7, <1>8, <1>9 DEF Step

LEMMA NextGood == IInv /\ [Next]_vars => IInv'
  <1> SUFFICES ASSUME IInv, [Next]_vars PROVE IInv'
    OBVIOUS
  <1>1. ASSUME NEW t \in Threads, Request(t) PROVE IInv'
    BY <1>1, RequestGood
  <1>2. ASSUME NEW t \in Threads, Step(t) PROVE IInv'
    BY <1>2, StepGood
  <1>3. CASE Crash
    BY <1>3 DEF Crash, IInv, TypeOK
  <1>4. CASE UNCHANGED vars
    BY <1>4 DEF vars, IInv, TypeOK
  <1> QED
    BY <1>1, <1>2, <1>3, <1>4 DEF Next

LEMMA InvariantHolds == Spec => []IInv
  BY InitGood, NextGood, PTL DEF Spec

\* Every reachable state has the types of TypeOK; in particular a script that
\* copies the database back has a copy.
THEOREM TypeCorrect == Spec => []TypeOK
  <1>1. IInv => TypeOK
    BY DEF IInv
  <1> QED
    BY <1>1, InvariantHolds, PTL

\* Whatever requests overlap, with or without the lock, and whatever fails: no
\* two lines of channels.json have the same port, and there are not too many.
THEOREM FileAlwaysSane == Spec => []FileSane
  <1>1. IInv => FileSane
    BY DEF IInv, FileSane, Sane, PortFree
  <1> QED
    BY <1>1, InvariantHolds, PTL

-----------------------------------------------------------------------------
(* The requests that hold the lock.                                          *)

\* The request has the lock; the file, what it has read and what it writes
\* differ at most in its own line; x-ui is down from the stop to the start.
HasLock(t) ==
    LET j == jobs[t] IN
    /\ lock = t
    /\ j.op \in Locked
    /\ \A d \in Ids : d # j.id => /\ file.lines[d] = j.old.lines[d]
                                 /\ j.conf.lines[d] = j.old.lines[d]
    /\ j.step \in {"copy", "commit", "undo", "start"} => ~xui

LockInv == \A t \in Threads : jobs[t] # None => HasLock(t)

\* With the lock a request is the only one.
LEMMA OnlyOne ==
    ASSUME LockInv, NEW t \in Threads, NEW u \in Threads, jobs[t] # None, jobs[u] # None
    PROVE  t = u
  BY DEF LockInv, HasLock

\* One line of the copy differs, and the lock is taken.
LEMMA BeginLocked ==
    ASSUME TypeOK, LockInv, NEW t \in Threads, NEW op \in Locked, NEW id,
           NEW conf, NEW provision, Begin(t, op, id, conf, provision),
           \A d \in Ids : d # id => conf.lines[d] = file.lines[d]
    PROVE  LockInv'
  <1> DEFINE j == [op |-> op, id |-> id, step |-> "write", old |-> file, conf |-> conf,
                   provision |-> provision, again |-> FALSE, backup |-> None]
  <1>1. /\ lock = None /\ lock' = t
        /\ jobs' = [jobs EXCEPT ![t] = j] /\ file' = file /\ xui' = xui
    BY DEF Begin, Enter
  <1>2. \A u \in Threads : jobs[u] = None
    BY <1>1, StoreAssumption DEF LockInv, HasLock
  <1>3. /\ j.op \in Locked /\ j.step = "write"
        /\ \A d \in Ids : d # j.id => /\ file.lines[d] = j.old.lines[d]
                                     /\ j.conf.lines[d] = j.old.lines[d]
    OBVIOUS
  <1> HIDE DEF j
  <1>4. jobs'[t] = j /\ \A u \in Threads \ {t} : jobs'[u] = None
    BY <1>1, <1>2 DEF TypeOK
  <1> QED
    BY <1>1, <1>3, <1>4 DEF LockInv, HasLock

LEMMA RequestLocked ==
    ASSUME Ops \subseteq Locked, TypeOK, LockInv, NEW t \in Threads, Request(t)
    PROVE  LockInv'
  <1>0. file \in Config
    BY DEF TypeOK
  <1>1. ASSUME NEW c \in Ids, Delete(t, c) PROVE LockInv'
    <2> DEFINE g == [file EXCEPT !.lines[c] = None]
    <2>1. Begin(t, "delete", c, g, TRUE) /\ "delete" \in Locked
      BY <1>1 DEF Delete, Locked
    <2>2. \A d \in Ids : d # c => g.lines[d] = file.lines[d]
      BY <1>0 DEF Config
    <2> HIDE DEF g
    <2> QED
      BY <2>1, <2>2, BeginLocked
  <1>2. ASSUME NEW c \in Ids, Ready(t, c) PROVE LockInv'
    <2> DEFINE g == [file EXCEPT !.lines[c].awaiting = FALSE]
    <2>1. Begin(t, "ready", c, g, FALSE) /\ "ready" \in Locked
      BY <1>2 DEF Ready, Locked
    <2>2. \A d \in Ids : d # c => g.lines[d] = file.lines[d]
      BY <1>0 DEF Config
    <2> HIDE DEF g
    <2> QED
      BY <2>1, <2>2, BeginLocked
  <1>3. ASSUME NEW c \in Ids, Unpin(t, c) PROVE LockInv'
    <2> DEFINE g == [file EXCEPT !.lines[c].pin = None]
    <2>1. Begin(t, "wake", c, g, FALSE) /\ "wake" \in Locked
      BY <1>3 DEF Unpin, Locked
    <2>2. \A d \in Ids : d # c => g.lines[d] = file.lines[d]
      BY <1>0 DEF Config
    <2> HIDE DEF g
    <2> QED
      BY <2>1, <2>2, BeginLocked
  <1>4. "save" \notin Ops /\ "switch" \notin Ops /\ "direct" \notin Ops /\ "all" \notin Ops
    BY DEF Locked
  <1> QED
    BY <1>1, <1>2, <1>3, <1>4 DEF Request, Save, Switch, SaveDirect, SaveAll, Begin

\* What a step does to its own job, to the file and to x-ui keeps the invariant.
LEMMA KeepsLocked ==
    ASSUME TypeOK, LockInv, NEW t \in Threads, jobs[t] # None, NEW j,
           jobs' = [jobs EXCEPT ![t] = j],
           j # None => /\ lock' = lock /\ j.op \in Locked
                       /\ \A d \in Ids : d # j.id => /\ file'.lines[d] = j.old.lines[d]
                                                    /\ j.conf.lines[d] = j.old.lines[d]
                       /\ j.step \in {"copy", "commit", "undo", "start"} => ~xui'
    PROVE  LockInv'
  <1>1. \A u \in Threads \ {t} : jobs[u] = None
    BY OnlyOne
  <1>2. lock = t
    BY DEF LockInv, HasLock
  <1>3. jobs'[t] = j /\ \A u \in Threads \ {t} : jobs'[u] = None
    BY <1>1 DEF TypeOK
  <1> QED
    BY <1>2, <1>3 DEF LockInv, HasLock

LEMMA StepLocked ==
    ASSUME TypeOK, LockInv, NEW t \in Threads, Step(t)
    PROVE  LockInv'
  <1>0. jobs[t] # None
    BY DEF Step, Write, Stop, StopFails, Copy, NothingEnabled, Commit, CommitUnreported,
           Abort, Undo, Start, At
  <1>1. /\ jobs[t] \in Job /\ jobs[t].op \in Locked
        /\ \A d \in Ids : d # jobs[t].id => /\ file.lines[d] = jobs[t].old.lines[d]
                                           /\ jobs[t].conf.lines[d] = jobs[t].old.lines[d]
        /\ jobs[t].step \in {"copy", "commit", "undo", "start"} => ~xui
    BY <1>0 DEF TypeOK, LockInv, HasLock
  <1>2. ASSUME Leave(t) PROVE LockInv'
    <2> DEFINE n == None
    <2>1. jobs' = [jobs EXCEPT ![t] = n] /\ n = None
      BY <1>2 DEF Leave
    <2> HIDE DEF n
    <2> QED
      BY <1>0, <2>1, KeepsLocked
  <1>3. ASSUME NEW step \in {"stop", "copy", "undo", "start"}, GoTo(t, step), lock' = lock,
               step # "stop" => ~xui',
               \A d \in Ids : d # jobs[t].id => file'.lines[d] = jobs[t].old.lines[d]
        PROVE  LockInv'
    <2> DEFINE j == [jobs[t] EXCEPT !.step = step, !.backup = None]
    <2>1. jobs' = [jobs EXCEPT ![t] = j]
      BY <1>3 DEF GoTo
    <2>2. /\ j.op = jobs[t].op /\ j.id = jobs[t].id /\ j.old = jobs[t].old
          /\ j.conf = jobs[t].conf /\ j.step = step
      BY <1>1 DEF Job
    <2> HIDE DEF j
    <2> QED
      BY <1>0, <1>1, <1>3, <2>1, <2>2, KeepsLocked
  <1>4. CASE Write(t)
    <2>1. /\ \A d \in Ids : d # jobs[t].id => file'.lines[d] = jobs[t].old.lines[d]
          /\ Leave(t) \/ (GoTo(t, "stop") /\ lock' = lock)
      BY <1>1, <1>4 DEF Write
    <2> QED
      BY <1>2, <1>3, <2>1
  <1>5. CASE Stop(t)
    BY <1>1, <1>3, <1>5 DEF Stop
  <1>6. CASE StopFails(t) \/ Start(t)
    BY <1>2, <1>6 DEF StopFails, Start
  <1>7. CASE Copy(t)
    <2> DEFINE j == [jobs[t] EXCEPT !.step = "commit", !.conf = file, !.backup = db]
    <2>1. /\ jobs' = [jobs EXCEPT ![t] = j] /\ jobs[t].step = "copy"
          /\ UNCHANGED <<file, xui, lock>>
      BY <1>7 DEF Copy, At
    <2>2. /\ j.op = jobs[t].op /\ j.id = jobs[t].id /\ j.old = jobs[t].old
          /\ j.conf = file
      BY <1>1 DEF Job
    <2> HIDE DEF j
    <2> QED
      BY <1>0, <1>1, <2>1, <2>2, KeepsLocked
  <1>8. CASE NothingEnabled(t) \/ Commit(t) \/ CommitUnreported(t) \/ Abort(t)
    <2>1. PICK step \in {"undo", "start"} :
              /\ GoTo(t, step) /\ jobs[t].step \in {"copy", "commit"}
              /\ UNCHANGED <<file, xui, lock>>
      BY <1>8 DEF NothingEnabled, Commit, CommitUnreported, Abort, At
    <2> QED
      BY <1>1, <1>3, <2>1
  <1>9. CASE Undo(t)
    <2> DEFINE redo == Deletes(jobs[t])
               j == [jobs[t] EXCEPT !.step = IF redo THEN "copy" ELSE "start",
                                    !.again = @ \/ redo]
    <2>1. /\ jobs' = [jobs EXCEPT ![t] = j] /\ jobs[t].step = "undo"
          /\ file' = file \/ file' = jobs[t].old
          /\ UNCHANGED <<xui, lock>>
      BY <1>9 DEF Undo, At
    <2>2. /\ j.op = jobs[t].op /\ j.id = jobs[t].id /\ j.old = jobs[t].old
          /\ j.conf = jobs[t].conf
      BY <1>1 DEF Job
    <2> HIDE DEF j
    <2> QED
      BY <1>0, <1>1, <2>1, <2>2, KeepsLocked
  <1> QED
    BY <1>4, <1>5, <1>6, <1>7, <1>8, <1>9 DEF Step

LEMMA NextLocked ==
    ASSUME Ops \subseteq Locked
    PROVE  TypeOK /\ LockInv /\ [Next]_vars => LockInv'
  <1> SUFFICES ASSUME TypeOK, LockInv, [Next]_vars PROVE LockInv'
    OBVIOUS
  <1>1. ASSUME NEW t \in Threads, Request(t) PROVE LockInv'
    BY <1>1, RequestLocked
  <1>2. ASSUME NEW t \in Threads, Step(t) PROVE LockInv'
    BY <1>2, StepLocked
  <1>3. CASE Crash
    BY <1>3 DEF Crash, LockInv
  <1>4. CASE UNCHANGED vars
    BY <1>4 DEF vars, LockInv, HasLock
  <1> QED
    BY <1>1, <1>2, <1>3, <1>4 DEF Next

LEMMA LockInvariantHolds ==
    ASSUME Ops \subseteq Locked
    PROVE  Spec => [](TypeOK /\ LockInv)
  <1>1. Init => LockInv
    BY DEF Init, LockInv
  <1>2. TypeOK /\ LockInv /\ [Next]_vars => LockInv'
    BY NextLocked
  <1> QED
    BY <1>1, <1>2, TypeCorrect, PTL DEF Spec

\* When only the requests that hold the lock occur, none of them ever changes
\* another line, whatever fails and wherever the dashboard is killed.
THEOREM LockedLeaveOthers ==
    ASSUME Ops \subseteq Locked
    PROVE  Spec => OthersUntouched
  <1> DEFINE Own == \A c \in Ids : file'.lines[c] # file.lines[c] =>
                       \E t \in Threads : /\ jobs'[t] # jobs[t] /\ jobs[t] # None
                                          /\ jobs[t].op = "all" \/ jobs[t].id = c
  <1>1. ASSUME TypeOK, LockInv, NEW t \in Threads, Step(t), NEW c \in Ids,
               file'.lines[c] # file.lines[c]
        PROVE  jobs'[t] # jobs[t] /\ jobs[t] # None /\ jobs[t].id = c
    <2>1. Write(t) \/ Undo(t)
      BY <1>1 DEF Step, Stop, StopFails, Copy, NothingEnabled, Commit, CommitUnreported,
                  Abort, Start
    <2>2. jobs[t] # None /\ jobs[t] \in Job /\ HasLock(t)
      BY <1>1, <2>1 DEF Write, Undo, At, TypeOK, LockInv
    <2>3. jobs[t].id = c
      BY <1>1, <2>1, <2>2 DEF Write, Undo, HasLock
    <2>4. CASE Write(t)
      <3>1. jobs[t].step = "write"
        BY <2>4 DEF Write, At
      <3>2. CASE GoTo(t, "stop")
        <4>1. jobs'[t].step = "stop"
          BY <1>1, <2>2, <3>2 DEF GoTo, TypeOK, Job
        <4> QED
          BY <2>2, <2>3, <3>1, <4>1
      <3>3. CASE Leave(t)
        BY <1>1, <2>2, <2>3, <3>3 DEF Leave, TypeOK
      <3> QED
        BY <2>4, <3>2, <3>3 DEF Write
    <2>5. CASE Undo(t)
      <3>1. jobs[t].step = "undo"
        BY <2>5 DEF Undo, At
      <3>2. jobs'[t].step # "undo"
        BY <1>1, <2>2, <2>5 DEF Undo, TypeOK, Job
      <3> QED
        BY <2>2, <2>3, <3>1, <3>2
    <2> QED
      BY <2>1, <2>4, <2>5
  <1>2. ASSUME NEW t \in Threads, Request(t) PROVE file' = file
    BY <1>2 DEF Request, Save, Delete, Switch, SaveDirect, SaveAll, Ready, Unpin, Begin
  <1>3. Crash => file' = file
    BY DEF Crash
  <1>4. TypeOK /\ LockInv /\ [Next]_vars => [Own]_vars
    BY <1>1, <1>2, <1>3 DEF Next
  <1>5. Spec => [](TypeOK /\ LockInv)
    BY LockInvariantHolds
  <1> QED
    BY <1>4, <1>5, PTL DEF Spec, OthersUntouched

\* And the database of 3x-ui is changed or copied back only while x-ui is down.
THEOREM LockedChangeWhileDown ==
    ASSUME Ops \subseteq Locked
    PROVE  Spec => ChangedWhileDown
  <1> DEFINE Down == db' # db => ~xui
  <1>1. ASSUME LockInv, NEW t \in Threads, Step(t) PROVE Down
    BY <1>1 DEF Step, Write, Stop, StopFails, Copy, NothingEnabled, Commit,
                CommitUnreported, Abort, Undo, Start, At, LockInv, HasLock
  <1>2. ASSUME NEW t \in Threads, Request(t) PROVE Down
    BY <1>2 DEF Request, Save, Delete, Switch, SaveDirect, SaveAll, Ready, Unpin, Begin
  <1>3. Crash => Down
    BY DEF Crash
  <1>4. TypeOK /\ LockInv /\ [Next]_vars => [Down]_vars
    BY <1>1, <1>2, <1>3 DEF Next
  <1>5. Spec => [](TypeOK /\ LockInv)
    BY LockInvariantHolds
  <1> QED
    BY <1>4, <1>5, PTL DEF Spec, ChangedWhileDown

-----------------------------------------------------------------------------
(* One request at a time: the file and the database.                         *)

Alone == \A t, u \in Threads : t = u

\* One request at a time: there is one thread, or every request takes the lock.
Serial == Alone \/ Ops \subseteq Locked

Wanted(f) == [c \in Ids |-> IF c \in Enabled(f) THEN f.lines[c].port ELSE None]

Synced(f, d) == d.inbounds = Wanted(f) /\ d.direct = f.direct

AllEnabled(f) == \A c \in Lines(f) : f.lines[c].enabled

\* The files differ in one line, or in the direct protocol.
OneChange(f, g) ==
    \/ \E c \in Ids, l \in Line \cup {None} : g = [f EXCEPT !.lines[c] = l]
    \/ \E protocol \in Protocols : g = [f EXCEPT !.direct = protocol]

\* What the request changes when the file becomes g: one inbound, the direct
\* protocol, or, when it provisions nothing, neither.
Changes(j, g) ==
    /\ AllEnabled(g) /\ OneChange(j.old, g)
    /\ j.provision => j.op \in {"save", "delete", "direct"}
    /\ ~j.provision => Wanted(g) = Wanted(j.old) /\ g.direct = j.old.direct
    /\ j.op = "save" => /\ g.direct = j.old.direct
                        /\ Wanted(g) = [Wanted(j.old) EXCEPT ![j.id] = g.lines[j.id].port]
    /\ j.op = "delete" => /\ g.direct = j.old.direct
                          /\ Wanted(g) = [Wanted(j.old) EXCEPT ![j.id] = None]
    /\ j.op = "direct" => Wanted(g) = Wanted(j.old)

\* Until the commit, or if it fails, the database agrees with the file that was
\* read; after it, and while a failed deletion is repaired, with the file.
JobSync(j) ==
    /\ j.op # "all" /\ AllEnabled(j.old)
    /\ j.again => j.op = "delete" /\ j.step # "write" /\ Synced(file, db)
    /\ j.step = "write" => file = j.old /\ Synced(j.old, db) /\ Changes(j, j.conf)
    /\ j.step \in {"stop", "copy", "commit"} /\ ~j.again =>
           j.provision /\ Synced(j.old, db) /\ Changes(j, file)
    /\ j.step = "commit" => j.conf = file /\ j.backup = db
    /\ j.step = "undo" /\ ~j.again => Synced(j.old, db)
    /\ j.step = "start" => Synced(file, db)

SyncInv ==
    /\ AllEnabled(file)
    /\ (\A t \in Threads : jobs[t] = None) => Synced(file, db)
    /\ \A t \in Threads : jobs[t] # None =>
           JobSync(jobs[t]) /\ \A u \in Threads \ {t} : jobs[u] = None

\* The step of the only request leaves SyncInv true when its job is in sync, or
\* gone with the file and the database in sync.
LEMMA OnlyJob ==
    ASSUME TypeOK, NEW t \in Threads, NEW j, \A u \in Threads \ {t} : jobs[u] = None,
           jobs' = [jobs EXCEPT ![t] = j], AllEnabled(file)',
           j = None => Synced(file, db)',
           j # None =>
             /\ j.op # "all" /\ AllEnabled(j.old)
             /\ j.again => j.op = "delete" /\ j.step # "write" /\ Synced(file', db')
             /\ j.step = "write" => file' = j.old /\ Synced(j.old, db') /\ Changes(j, j.conf)
             /\ j.step \in {"stop", "copy", "commit"} /\ ~j.again =>
                    j.provision /\ Synced(j.old, db') /\ Changes(j, file')
             /\ j.step = "commit" => j.conf = file' /\ j.backup = db'
             /\ j.step = "undo" /\ ~j.again => Synced(j.old, db')
             /\ j.step = "start" => Synced(file', db')
    PROVE  SyncInv'
  <1>1. jobs'[t] = j /\ \A u \in Threads \ {t} : jobs'[u] = None
    BY DEF TypeOK
  <1>2. CASE j = None
    BY <1>1, <1>2 DEF SyncInv
  <1>3. CASE j # None
    <2>1. JobSync(jobs[t])'
      BY <1>1, <1>3 DEF JobSync
    <2> QED
      BY <1>1, <1>3, <2>1 DEF SyncInv
  <1> QED
    BY <1>2, <1>3

LEMMA OneLineWanted ==
    ASSUME NEW f \in Config, AllEnabled(f), NEW c \in Ids, NEW l \in Line, l.enabled
    PROVE  LET g == [f EXCEPT !.lines[c] = l] IN
           /\ AllEnabled(g) /\ g.direct = f.direct /\ g.lines[c] = l
           /\ Wanted(g) = [Wanted(f) EXCEPT ![c] = l.port]
           /\ c \in Lines(f) /\ l.port = f.lines[c].port => Wanted(g) = Wanted(f)
  <1> DEFINE g == [f EXCEPT !.lines[c] = l]
  <1>1. /\ g.lines[c] = l /\ g.direct = f.direct
        /\ \A d \in Ids \ {c} : g.lines[d] = f.lines[d]
    BY DEF Config
  <1>2. l # None
    BY NoneAssumption
  <1> HIDE DEF g
  <1>3. AllEnabled(g)
    BY <1>1 DEF AllEnabled, Lines
  <1>4. c \in Enabled(g) /\ \A d \in Ids \ {c} : d \in Enabled(g) <=> d \in Enabled(f)
    BY <1>1, <1>2 DEF Enabled, Lines
  <1>5. Wanted(g) = [Wanted(f) EXCEPT ![c] = l.port]
    BY <1>1, <1>4 DEF Wanted
  <1>6. ASSUME c \in Lines(f), l.port = f.lines[c].port PROVE Wanted(g) = Wanted(f)
    <2>1. c \in Enabled(f)
      BY <1>6 DEF AllEnabled, Enabled
    <2> QED
      BY <1>1, <1>4, <1>6, <2>1 DEF Wanted
  <1> QED
    BY <1>1, <1>3, <1>5, <1>6 DEF g

LEMMA BeginSync ==
    ASSUME TypeOK, SyncInv, \A u \in Threads : jobs[u] = None, NEW t \in Threads, NEW op, op # "all", NEW id,
           NEW conf, NEW provision, Begin(t, op, id, conf, provision),
           Changes([op |-> op, id |-> id, step |-> "write", old |-> file, conf |-> conf,
                    provision |-> provision, again |-> FALSE, backup |-> None], conf)
    PROVE  SyncInv'
  <1> DEFINE j == [op |-> op, id |-> id, step |-> "write", old |-> file, conf |-> conf,
                   provision |-> provision, again |-> FALSE, backup |-> None]
  <1>1. /\ jobs[t] = None /\ jobs' = [jobs EXCEPT ![t] = j]
        /\ file' = file /\ db' = db
    BY DEF Begin
  <1>2. AllEnabled(file) /\ Synced(file, db)
    BY <1>1 DEF SyncInv
  <1>3. /\ j.op # "all" /\ ~j.again /\ j.step = "write" /\ j.old = file /\ j.conf = conf
        /\ Changes(j, conf)
    OBVIOUS
  <1> HIDE DEF j
  <1> QED
    BY <1>1, <1>2, <1>3, OnlyJob

\* A request that changes no port and no direct protocol provisions nothing.
LEMMA UnprovisionedSync ==
    ASSUME TypeOK, SyncInv, \A u \in Threads : jobs[u] = None, NEW t \in Threads, NEW op \in {"ready", "wake", "switch"},
           NEW c, NEW g, Begin(t, op, c, g, FALSE),
           AllEnabled(g), OneChange(file, g), g.direct = file.direct, Wanted(g) = Wanted(file)
    PROVE  SyncInv'
  <1>1. Changes([op |-> op, id |-> c, step |-> "write", old |-> file, conf |-> g,
                 provision |-> FALSE, again |-> FALSE, backup |-> None], g)
    BY DEF Changes
  <1> QED
    BY <1>1, BeginSync

LEMMA RequestSync ==
    ASSUME "all" \notin Ops, TypeOK, SyncInv, \A u \in Threads : jobs[u] = None,
           NEW t \in Threads, Request(t)
    PROVE  SyncInv'
  <1>0. file \in Config /\ AllEnabled(file)
    BY DEF TypeOK, SyncInv
  <1>1. ASSUME NEW c \in Ids, NEW port \in Ports, NEW pin \in Pins \cup {None},
               NEW fresh \in BOOLEAN, Save(t, c, port, pin, fresh)
        PROVE  SyncInv'
    <2> DEFINE l == [port |-> port, pin |-> pin, enabled |-> TRUE,
                     awaiting |-> fresh \/ file.lines[c].awaiting]
               provision == fresh \/ file.lines[c].port # port
               g == [file EXCEPT !.lines[c] = l]
    <2>1. /\ file.lines[c] = None => fresh
          /\ Begin(t, "save", c, g, provision)
      BY <1>1 DEF Save
    <2>2. (fresh \/ file.lines[c].awaiting) \in BOOLEAN
      OBVIOUS
    <2>3. l \in Line /\ l.port = port /\ l.enabled
      BY <2>2 DEF Line
    <2>4. ~provision => c \in Lines(file) /\ file.lines[c].port = port
      BY <2>1 DEF Lines
    <2>5. provision \in BOOLEAN
      OBVIOUS
    <2> HIDE DEF l, provision
    <2>6. /\ AllEnabled(g) /\ g.direct = file.direct /\ g.lines[c] = l
          /\ Wanted(g) = [Wanted(file) EXCEPT ![c] = l.port]
          /\ ~provision => Wanted(g) = Wanted(file)
      BY <1>0, <2>3, <2>4, OneLineWanted
    <2>7. OneChange(file, g)
      BY <2>3 DEF OneChange
    <2> HIDE DEF g
    <2>8. Changes([op |-> "save", id |-> c, step |-> "write", old |-> file, conf |-> g,
                   provision |-> provision, again |-> FALSE, backup |-> None], g)
      BY <2>6, <2>7 DEF Changes
    <2> QED
      BY <2>1, <2>8, BeginSync
  <1>2. ASSUME NEW c \in Ids, Delete(t, c)
        PROVE  SyncInv'
    <2> DEFINE g == [file EXCEPT !.lines[c] = None]
    <2>1. /\ g.lines[c] = None /\ g.direct = file.direct
          /\ \A d \in Ids \ {c} : g.lines[d] = file.lines[d]
      BY <1>0 DEF Config
    <2>2. Begin(t, "delete", c, g, TRUE)
      BY <1>2 DEF Delete
    <2>3. OneChange(file, g)
      BY DEF OneChange
    <2> HIDE DEF g
    <2>4. AllEnabled(g)
      BY <1>0, <2>1 DEF AllEnabled, Lines
    <2>5. c \notin Enabled(g) /\ \A d \in Ids \ {c} : d \in Enabled(g) <=> d \in Enabled(file)
      BY <2>1 DEF Enabled, Lines
    <2>6. Wanted(g) = [Wanted(file) EXCEPT ![c] = None]
      BY <2>1, <2>5 DEF Wanted
    <2>7. Changes([op |-> "delete", id |-> c, step |-> "write", old |-> file, conf |-> g,
                   provision |-> TRUE, again |-> FALSE, backup |-> None], g)
      BY <2>1, <2>4, <2>6, <2>3 DEF Changes
    <2> QED
      BY <2>2, <2>7, BeginSync
  <1>3. ASSUME NEW c \in Ids, Ready(t, c)
        PROVE  SyncInv'
    <2> DEFINE l == [file.lines[c] EXCEPT !.awaiting = FALSE]
    <2>1. /\ c \in Lines(file)
          /\ Begin(t, "ready", c, [file EXCEPT !.lines[c].awaiting = FALSE], FALSE)
      BY <1>3 DEF Ready
    <2>2. l \in Line /\ l.port = file.lines[c].port /\ l.enabled
      BY <1>0, <2>1, LineOf DEF Line, AllEnabled
    <2>3. [file EXCEPT !.lines[c].awaiting = FALSE] = [file EXCEPT !.lines[c] = l]
      OBVIOUS
    <2>4. c \in Lines(file)
      BY <2>1
    <2> HIDE DEF l
    <2> DEFINE g == [file EXCEPT !.lines[c] = l]
    <2>5. /\ AllEnabled(g) /\ g.direct = file.direct /\ g.lines[c] = l
          /\ Wanted(g) = [Wanted(file) EXCEPT ![c] = l.port]
          /\ Wanted(g) = Wanted(file)
      BY <1>0, <2>2, <2>4, OneLineWanted
    <2>6. Begin(t, "ready", c, g, FALSE)
      BY <2>1, <2>3
    <2>7. OneChange(file, g)
      BY <2>2 DEF OneChange
    <2> HIDE DEF g
    <2> QED
      BY <2>5, <2>6, <2>7, UnprovisionedSync
  <1>4. ASSUME NEW c \in Ids, Unpin(t, c)
        PROVE  SyncInv'
    <2> DEFINE l == [file.lines[c] EXCEPT !.pin = None]
    <2>1. /\ c \in Lines(file)
          /\ Begin(t, "wake", c, [file EXCEPT !.lines[c].pin = None], FALSE)
      BY <1>4 DEF Unpin
    <2>2. l \in Line /\ l.port = file.lines[c].port /\ l.enabled
      BY <1>0, <2>1, LineOf DEF Line, AllEnabled
    <2>3. [file EXCEPT !.lines[c].pin = None] = [file EXCEPT !.lines[c] = l]
      OBVIOUS
    <2>4. c \in Lines(file)
      BY <2>1
    <2> HIDE DEF l
    <2> DEFINE g == [file EXCEPT !.lines[c] = l]
    <2>5. /\ AllEnabled(g) /\ g.direct = file.direct /\ g.lines[c] = l
          /\ Wanted(g) = [Wanted(file) EXCEPT ![c] = l.port]
          /\ Wanted(g) = Wanted(file)
      BY <1>0, <2>2, <2>4, OneLineWanted
    <2>6. Begin(t, "wake", c, g, FALSE)
      BY <2>1, <2>3
    <2>7. OneChange(file, g)
      BY <2>2 DEF OneChange
    <2> HIDE DEF g
    <2> QED
      BY <2>5, <2>6, <2>7, UnprovisionedSync
  <1>5. ASSUME NEW c \in Ids, NEW pin \in Pins, Switch(t, c, pin)
        PROVE  SyncInv'
    <2> DEFINE l == [file.lines[c] EXCEPT !.pin = pin]
    <2>1. /\ c \in Lines(file)
          /\ Begin(t, "switch", c, [file EXCEPT !.lines[c].pin = pin], FALSE)
      BY <1>5 DEF Switch
    <2>2. l \in Line /\ l.port = file.lines[c].port /\ l.enabled
      BY <1>0, <2>1, LineOf DEF Line, AllEnabled
    <2>3. [file EXCEPT !.lines[c].pin = pin] = [file EXCEPT !.lines[c] = l]
      OBVIOUS
    <2>4. c \in Lines(file)
      BY <2>1
    <2> HIDE DEF l
    <2> DEFINE g == [file EXCEPT !.lines[c] = l]
    <2>5. /\ AllEnabled(g) /\ g.direct = file.direct /\ g.lines[c] = l
          /\ Wanted(g) = [Wanted(file) EXCEPT ![c] = l.port]
          /\ Wanted(g) = Wanted(file)
      BY <1>0, <2>2, <2>4, OneLineWanted
    <2>6. Begin(t, "switch", c, g, FALSE)
      BY <2>1, <2>3
    <2>7. OneChange(file, g)
      BY <2>2 DEF OneChange
    <2> HIDE DEF g
    <2> QED
      BY <2>5, <2>6, <2>7, UnprovisionedSync
  <1>6. ASSUME NEW protocol \in Protocols, SaveDirect(t, protocol)
        PROVE  SyncInv'
    <2> DEFINE g == [file EXCEPT !.direct = protocol]
    <2>1. g.lines = file.lines
      BY <1>0 DEF Config
    <2>2. Begin(t, "direct", None, g, TRUE)
      BY <1>6 DEF SaveDirect
    <2>3. OneChange(file, g)
      BY DEF OneChange
    <2> HIDE DEF g
    <2>4. AllEnabled(g) /\ Wanted(g) = Wanted(file)
      BY <1>0, <2>1 DEF AllEnabled, Wanted, Enabled, Lines
    <2>5. Changes([op |-> "direct", id |-> None, step |-> "write", old |-> file, conf |-> g,
                   provision |-> TRUE, again |-> FALSE, backup |-> None], g)
      BY <2>4, <2>3 DEF Changes
    <2> QED
      BY <2>2, <2>5, BeginSync
  <1>7. \A ports \in [Ids -> Ports \cup {None}], enabled \in SUBSET Ids,
           protocol \in Protocols : ~SaveAll(t, ports, enabled, protocol)
    BY DEF SaveAll, Begin
  <1> QED
    BY <1>1, <1>2, <1>3, <1>4, <1>5, <1>6, <1>7 DEF Request

\* A commit makes the database agree with the file the script has read.
LEMMA CommitSync ==
    ASSUME TypeOK, NEW t \in Threads, jobs[t] # None, JobSync(jobs[t]),
           jobs[t].step = "commit", Possible(jobs[t])
    PROVE  Synced(file, Applied(jobs[t]))
  <1> DEFINE j == jobs[t]
  <1>1. /\ db.inbounds \in [Ids -> Ports \cup {None}] /\ j \in Job
        /\ j.op # "all" /\ j.conf = file
    BY DEF TypeOK, Database, JobSync
  <1>2. /\ Applied(j).inbounds = Inbounds(j)
        /\ Applied(j).direct = IF j.op = "direct" THEN file.direct ELSE db.direct
    BY <1>1 DEF Applied
  <1>3. CASE j.again
    <2>1. j.op = "delete" /\ Synced(file, db)
      BY <1>3 DEF JobSync
    <2>2. j.id \in Enabled(file) /\ Inbounds(j) = [db.inbounds EXCEPT ![j.id] = file.lines[j.id].port]
      BY <1>1, <1>3 DEF OneLine, Possible, Inbounds, Deletes
    <2>3. db.inbounds[j.id] = file.lines[j.id].port
      BY <2>1, <2>2 DEF Synced, Wanted, Enabled, Lines
    <2>4. Inbounds(j) = db.inbounds
      BY <1>1, <2>2, <2>3
    <2> QED
      BY <1>2, <2>1, <2>4 DEF Synced
  <1>4. CASE ~j.again
    <2>1. j.provision /\ Synced(j.old, db) /\ Changes(j, file)
      BY <1>4 DEF JobSync
    <2>2. CASE j.op = "save"
      <3>1. Inbounds(j) = [db.inbounds EXCEPT ![j.id] = file.lines[j.id].port]
        BY <1>1, <2>2 DEF Inbounds, Deletes, OneLine
      <3> QED
        BY <1>2, <2>1, <2>2, <3>1 DEF Synced, Changes
    <2>3. CASE j.op = "delete"
      <3>1. Inbounds(j) = [db.inbounds EXCEPT ![j.id] = None]
        BY <1>4, <2>3 DEF Inbounds, Deletes
      <3> QED
        BY <1>2, <2>1, <2>3, <3>1 DEF Synced, Changes
    <2>4. CASE j.op = "direct"
      <3>1. Inbounds(j) = db.inbounds
        BY <1>4, <2>4 DEF Inbounds, Deletes, OneLine
      <3> QED
        BY <1>2, <2>1, <2>4, <3>1 DEF Synced, Changes
    <2> QED
      BY <2>1, <2>2, <2>3, <2>4 DEF Changes
  <1> QED
    BY <1>3, <1>4

LEMMA StepSync ==
    ASSUME Faults \subseteq {"transaction"}, TypeOK, SyncInv,
           NEW t \in Threads, Step(t)
    PROVE  SyncInv'
  <1>0. jobs[t] # None
    BY DEF Step, Write, Stop, StopFails, Copy, NothingEnabled, Commit, CommitUnreported,
           Abort, Undo, Start, At
  <1>1. AllEnabled(file) /\ jobs[t] \in Job /\ JobSync(jobs[t])
    BY <1>0 DEF SyncInv, TypeOK
  <1>2. \A u \in Threads \ {t} : jobs[u] = None
    BY <1>0 DEF SyncInv
  <1>3. ASSUME Leave(t), AllEnabled(file)', Synced(file, db)' PROVE SyncInv'
    <2> DEFINE n == None
    <2>1. jobs' = [jobs EXCEPT ![t] = n] /\ n = None
      BY <1>3 DEF Leave
    <2> HIDE DEF n
    <2> QED
      BY <1>3, <2>1, <1>2, OnlyJob
  <1>4. ASSUME NEW step \in {"stop", "copy", "undo", "start"}, GoTo(t, step),
               AllEnabled(file)',
               jobs[t].again => Synced(file', db'),
               step \in {"stop", "copy"} /\ ~jobs[t].again =>
                   jobs[t].provision /\ Synced(jobs[t].old, db') /\ Changes(jobs[t], file'),
               step = "undo" /\ ~jobs[t].again => Synced(jobs[t].old, db'),
               step = "start" => Synced(file', db')
        PROVE  SyncInv'
    <2> DEFINE j == [jobs[t] EXCEPT !.step = step, !.backup = None]
    <2>1. jobs' = [jobs EXCEPT ![t] = j]
      BY <1>4 DEF GoTo
    <2>2. /\ j.op = jobs[t].op /\ j.id = jobs[t].id /\ j.old = jobs[t].old
          /\ j.provision = jobs[t].provision /\ j.again = jobs[t].again /\ j.step = step
          /\ j \in Job
      BY <1>1 DEF Job
    <2> HIDE DEF j
    <2>3. Changes(jobs[t], file') => Changes(j, file')
      BY <2>2 DEF Changes
    <2>4. j.op # "all" /\ AllEnabled(j.old) /\ (j.again => j.op = "delete")
      BY <1>1, <2>2 DEF JobSync
    <2> QED
      BY <1>4, <2>1, <2>2, <2>3, <2>4, <1>2, OnlyJob, NoneAssumption
  <1>5. CASE Write(t)
    <2>1. /\ jobs[t].step = "write" /\ file' = jobs[t].conf /\ db' = db
          /\ IF jobs[t].provision THEN GoTo(t, "stop") ELSE Leave(t)
      BY <1>5 DEF Write, At
    <2>2. ~jobs[t].again /\ Synced(jobs[t].old, db') /\ Changes(jobs[t], file')
      BY <1>1, <2>1 DEF JobSync
    <2>3. AllEnabled(file')
      BY <2>2 DEF Changes
    <2>4. CASE jobs[t].provision
      BY <1>4, <2>1, <2>2, <2>3, <2>4
    <2>5. CASE ~jobs[t].provision
      <3>1. Synced(file', db')
        BY <2>2, <2>5 DEF Changes, Synced
      <3> QED
        BY <1>3, <2>1, <2>3, <2>5, <3>1
    <2> QED
      BY <2>4, <2>5
  <1>6. CASE Stop(t)
    <2>1. jobs[t].step = "stop" /\ GoTo(t, "copy") /\ file' = file /\ db' = db
      BY <1>6 DEF Stop, At
    <2> QED
      BY <1>1, <1>4, <2>1 DEF JobSync
  <1>7. ~StopFails(t) /\ ~CommitUnreported(t)
    BY DEF StopFails, CommitUnreported
  <1>8. CASE Copy(t)
    <2> DEFINE j == [jobs[t] EXCEPT !.step = "commit", !.conf = file, !.backup = db]
    <2>1. /\ jobs' = [jobs EXCEPT ![t] = j] /\ jobs[t].step = "copy"
          /\ file' = file /\ db' = db
      BY <1>8 DEF Copy, At
    <2>2. /\ j.op = jobs[t].op /\ j.id = jobs[t].id /\ j.old = jobs[t].old
          /\ j.provision = jobs[t].provision /\ j.again = jobs[t].again
          /\ j.step = "commit" /\ j.conf = file /\ j.backup = db
      BY <1>1 DEF Job
    <2>3. j \in Job
      BY <1>1 DEF TypeOK, Job
    <2> HIDE DEF j
    <2>4. Changes(jobs[t], file) => Changes(j, file)
      BY <2>2 DEF Changes
    <2>5. /\ j.op # "all" /\ AllEnabled(j.old)
          /\ j.again => j.op = "delete" /\ Synced(file, db)
          /\ ~j.again => j.provision /\ Synced(j.old, db) /\ Changes(j, file)
      BY <1>1, <2>1, <2>2, <2>4 DEF JobSync
    <2> QED
      BY <1>1, <2>1, <2>2, <2>3, <2>5, <1>2, OnlyJob, NoneAssumption
  <1>9. CASE NothingEnabled(t)
    <2>1. jobs[t].step = "copy" /\ GoTo(t, "undo") /\ file' = file /\ db' = db
      BY <1>9 DEF NothingEnabled, At
    <2> QED
      BY <1>1, <1>4, <2>1 DEF JobSync
  <1>10. CASE Commit(t)
    <2>1. /\ jobs[t].step = "commit" /\ Possible(jobs[t]) /\ GoTo(t, "start")
          /\ file' = file /\ db' = Applied(jobs[t])
      BY <1>10 DEF Commit, At
    <2>2. Synced(file', db')
      BY <1>0, <1>1, <2>1, CommitSync
    <2> QED
      BY <1>1, <1>4, <2>1, <2>2
  <1>11. CASE Abort(t)
    <2>1. /\ jobs[t].step = "commit" /\ GoTo(t, "undo") /\ file' = file
          /\ db' = jobs[t].backup
      BY <1>11 DEF Abort, At
    <2>2. db' = db
      BY <1>1, <2>1 DEF JobSync
    <2> QED
      BY <1>1, <1>4, <2>1, <2>2 DEF JobSync
  <1>12. CASE Undo(t)
    <2> DEFINE redo == Deletes(jobs[t])
               j == [jobs[t] EXCEPT !.step = IF redo THEN "copy" ELSE "start",
                                    !.again = @ \/ redo]
    <2>1. /\ jobs' = [jobs EXCEPT ![t] = j] /\ jobs[t].step = "undo" /\ db' = db
          /\ file' = IF jobs[t].again THEN file ELSE jobs[t].old
      BY <1>1, <1>12 DEF Undo, At, JobSync
    <2>2. /\ j.op = jobs[t].op /\ j.old = jobs[t].old
          /\ j.step = (IF redo THEN "copy" ELSE "start")
          /\ j.again = (jobs[t].again \/ redo)
      BY <1>1 DEF Job
    <2>3. j \in Job
      BY <1>1 DEF Job
    <2>4. redo => jobs[t].op = "delete"
      BY DEF Deletes
    <2> HIDE DEF j, redo
    <2>5. Synced(file', db') /\ AllEnabled(file')
      BY <1>1, <2>1 DEF JobSync
    <2>6. j.op # "all" /\ AllEnabled(j.old) /\ (j.again => j.op = "delete")
      BY <1>1, <2>2, <2>4 DEF JobSync
    <2>7. j.step \in {"copy", "start"} /\ (j.step = "copy" => j.again)
      BY <2>2
    <2> QED
      BY <2>1, <2>3, <2>5, <2>6, <2>7, <1>2, OnlyJob, NoneAssumption
  <1>13. CASE Start(t)
    <2>1. jobs[t].step = "start" /\ Leave(t) /\ file' = file /\ db' = db
      BY <1>13 DEF Start, At
    <2>2. Synced(file', db')
      BY <1>1, <2>1 DEF JobSync
    <2> QED
      BY <1>1, <1>3, <2>1, <2>2
  <1> QED
    BY <1>5, <1>6, <1>7, <1>8, <1>9, <1>10, <1>11, <1>12, <1>13 DEF Step

\* Who begins a request finds none under way.
LEMMA IdleAtBegin ==
    ASSUME Serial, Ops \subseteq Locked => LockInv, NEW t \in Threads, Request(t)
    PROVE  \A u \in Threads : jobs[u] = None
  <1>1. PICK op \in Ops : jobs[t] = None /\ Enter(t, op)
    BY DEF Request, Save, Delete, Switch, SaveDirect, SaveAll, Ready, Unpin, Begin
  <1>2. CASE Alone
    BY <1>1, <1>2 DEF Alone
  <1>3. CASE Ops \subseteq Locked
    <2>1. lock = None
      BY <1>1, <1>3 DEF Enter
    <2> QED
      BY <1>3, <2>1, StoreAssumption DEF LockInv, HasLock
  <1> QED
    BY <1>2, <1>3 DEF Serial

LEMMA SyncInvariant ==
    ASSUME Serial, "all" \notin Ops, Faults \subseteq {"transaction"}
    PROVE  Spec => [](TypeOK /\ SyncInv /\ (Ops \subseteq Locked => LockInv))
  <1> DEFINE Held == Ops \subseteq Locked => LockInv
  <1>1. Init => SyncInv
    <2> SUFFICES ASSUME Init PROVE SyncInv
      OBVIOUS
    <2>1. AllEnabled(file)
      BY DEF Init, AllEnabled, Enabled
    <2>2. Synced(file, db)
      BY DEF Init, Synced, Wanted
    <2>3. \A t \in Threads : jobs[t] = None
      BY DEF Init
    <2> QED
      BY <2>1, <2>2, <2>3 DEF SyncInv
  <1>2. TypeOK /\ Held /\ SyncInv /\ [Next]_vars => SyncInv'
    <2> SUFFICES ASSUME TypeOK, Held, SyncInv, [Next]_vars PROVE SyncInv'
      OBVIOUS
    <2>1. ASSUME NEW t \in Threads, Request(t) PROVE SyncInv'
      BY <2>1, IdleAtBegin, RequestSync
    <2>2. ASSUME NEW t \in Threads, Step(t) PROVE SyncInv'
      BY <2>2, StepSync
    <2>3. ~Crash
      BY DEF Crash
    <2>4. CASE UNCHANGED vars
      BY <2>4 DEF vars, SyncInv, JobSync
    <2> QED
      BY <2>1, <2>2, <2>3, <2>4 DEF Next
  <1>3. Spec => []Held
    <2>1. CASE Ops \subseteq Locked
      BY <2>1, LockInvariantHolds, PTL
    <2>2. CASE ~(Ops \subseteq Locked)
      <3>1. Held
        BY <2>2
      <3> QED
        BY <3>1, PTL
    <2> QED
      BY <2>1, <2>2
  <1> QED
    BY <1>1, <1>2, <1>3, TypeCorrect, PTL DEF Spec

\* With one request at a time, of those the page makes or of those that take the
\* lock, and no failure but that of the script's transaction, the inbounds and the
\* direct protocol of 3x-ui are those of the file whenever no request is under way:
\* a change that fails is taken back, and a deletion that fails is provisioned again.
THEOREM OneAtATimeInSync ==
    ASSUME Serial, "all" \notin Ops, Faults \subseteq {"transaction"}
    PROVE  Spec => []InSync
  <1>1. SyncInv => InSync
    BY DEF SyncInv, InSync, Synced, Wanted
  <1> QED
    BY <1>1, SyncInvariant, PTL

-----------------------------------------------------------------------------
(* Every request is all or nothing: LineRegistry is implemented.             *)

\* What is in effect with the requests js and the file f.
InEffect(js, f) ==
    IF \E t \in Threads : js[t] # None /\ js[t].step # "start" /\ ~js[t].again
    THEN js[CHOOSE t \in Threads : js[t] # None /\ js[t].step # "start" /\ ~js[t].again].old
    ELSE f

LEMMA EffectiveIs ==
    Effective = InEffect(jobs, file) /\ Effective' = InEffect(jobs', file')
  BY DEF Effective, InEffect, Open

LEMMA OneInEffect ==
    ASSUME NEW js, NEW f, NEW t \in Threads, js[t] # None,
           \A u \in Threads \ {t} : js[u] = None
    PROVE  InEffect(js, f) = IF js[t].step # "start" /\ ~js[t].again THEN js[t].old ELSE f
  <1> DEFINE P(u) == js[u] # None /\ js[u].step # "start" /\ ~js[u].again
  <1>1. \A u \in Threads : P(u) => u = t
    OBVIOUS
  <1>2. CASE P(t)
    <2>1. (CHOOSE u \in Threads : P(u)) = t
      BY <1>1, <1>2
    <2> QED
      BY <1>2, <2>1 DEF InEffect
  <1>3. CASE ~P(t)
    BY <1>1, <1>3 DEF InEffect
  <1> QED
    BY <1>2, <1>3

LEMMA NoneInEffect ==
    ASSUME NEW js, NEW f, \A u \in Threads : js[u] = None
    PROVE  InEffect(js, f) = f
  BY DEF InEffect

LEMMA SameCardinality ==
    \A S : Registry!Cardinality(S) = Cardinality(S)
  BY DEF Cardinality, Registry!Cardinality

\* One change that takes effect together with what it provisions.
LEMMA RegistryStep ==
    ASSUME NEW f \in Config, NEW g \in Config, OneChange(f, g), Sane(g),
           Effective = f, Effective' = g, db' \in Database, Synced(g, db')
    PROVE  Registry!Next
  <1>1. Registry!SetDirect \/ \E c \in Ids : Registry!SetLine(c)
    BY DEF OneChange, Registry!SetDirect, Registry!SetLine
  <1>2. Registry!Existing' = Lines(g)
    BY DEF Registry!Existing, Lines
  <1>3. Registry!Sane'
    <2>1. ASSUME NEW c \in Lines(g), NEW d \in Lines(g), c # d
          PROVE  g.lines[c].port # g.lines[d].port
      BY <2>1 DEF Sane, PortFree
    <2>2. Cardinality(Lines(g)) <= MaxLines
      BY DEF Sane
    <2> QED
      BY <1>2, <2>1, <2>2, SameCardinality DEF Registry!Sane
  <1>4. Registry!Provisioned'
    <2>1. db' = [inbounds |-> db'.inbounds, direct |-> db'.direct]
      BY DEF Database
    <2>2. Wanted(g) = [c \in Ids |-> IF c \in Lines(g) /\ g.lines[c].enabled
                                     THEN g.lines[c].port ELSE None]
      BY DEF Wanted, Enabled
    <2> QED
      BY <1>2, <2>1, <2>2 DEF Registry!Provisioned, Synced
  <1> QED
    BY <1>1, <1>3, <1>4 DEF Registry!Next

\* A step of a request takes effect at once, or not at all.
LEMMA StepRegistry ==
    ASSUME IInv, IInv', SyncInv, SyncInv', Faults \subseteq {"transaction"},
           NEW t \in Threads, Step(t)
    PROVE  Registry!Next \/ UNCHANGED Registry!vars
  <1>0. jobs[t] # None
    BY DEF Step, Write, Stop, StopFails, Copy, NothingEnabled, Commit, CommitUnreported,
           Abort, Undo, Start, At
  <1>1. /\ jobs[t] \in Job /\ JobSync(jobs[t]) /\ JobGood(jobs[t])
        /\ \A u \in Threads \ {t} : jobs[u] = None
    BY <1>0 DEF SyncInv, IInv, TypeOK
  <1>2. /\ file \in Config /\ Sane(file) /\ db' \in Database /\ file' \in Config /\ Sane(file')
        /\ db \in Database /\ jobs[t].old \in Config
    BY <1>1 DEF IInv, TypeOK, Job, Sane, Lines, PortFree
  <1>3. jobs' \in [Threads -> Job \cup {None}]
    BY DEF IInv, TypeOK
  <1>4. Effective = IF jobs[t].step # "start" /\ ~jobs[t].again THEN jobs[t].old ELSE file
    BY <1>0, <1>1, EffectiveIs, OneInEffect
  <1>5. ASSUME Leave(t) PROVE Effective' = file'
    <2>1. \A u \in Threads : jobs'[u] = None
      BY <1>1, <1>5 DEF Leave, IInv, TypeOK
    <2> QED
      BY <2>1, EffectiveIs, NoneInEffect
  <1>6. ASSUME NEW j \in Job, jobs' = [jobs EXCEPT ![t] = j]
        PROVE  Effective' = IF j.step # "start" /\ ~j.again THEN j.old ELSE file'
    <2>1. jobs'[t] = j /\ \A u \in Threads \ {t} : jobs'[u] = None
      BY <1>1, <1>6 DEF IInv, TypeOK
    <2>2. jobs'[t] # None
      BY <2>1, NoneAssumption
    <2> QED
      BY <2>1, <2>2, EffectiveIs, OneInEffect
  <1>7. ASSUME NEW step \in {"stop", "copy", "undo", "start"}, GoTo(t, step)
        PROVE  Effective' = IF step # "start" /\ ~jobs[t].again THEN jobs[t].old ELSE file'
    <2> DEFINE j == [jobs[t] EXCEPT !.step = step, !.backup = None]
    <2>1. jobs' = [jobs EXCEPT ![t] = j]
      BY <1>7 DEF GoTo
    <2>2. j \in Job /\ j.step = step /\ j.again = jobs[t].again /\ j.old = jobs[t].old
      BY <1>1 DEF Job
    <2> HIDE DEF j
    <2> QED
      BY <1>6, <2>1, <2>2
  <1>8. ASSUME Effective' = Effective, db' = db PROVE UNCHANGED Registry!vars
    BY <1>8 DEF Registry!vars
  <1>9. CASE Write(t)
    <2>1. /\ jobs[t].step = "write" /\ file' = jobs[t].conf /\ db' = db
          /\ IF jobs[t].provision THEN GoTo(t, "stop") ELSE Leave(t)
      BY <1>9 DEF Write, At
    <2>2. /\ ~jobs[t].again /\ Synced(jobs[t].old, db) /\ Effective = jobs[t].old
          /\ Changes(jobs[t], file')
      BY <1>1, <1>4, <2>1 DEF JobSync
    <2>3. CASE jobs[t].provision
      BY <1>7, <1>8, <2>1, <2>2, <2>3
    <2>4. CASE ~jobs[t].provision
      <3>1. Synced(file', db') /\ OneChange(jobs[t].old, file')
        BY <2>1, <2>2, <2>4 DEF Changes, Synced
      <3>2. Effective' = file'
        BY <1>5, <2>1, <2>4
      <3> QED
        BY <1>2, <2>2, <3>1, <3>2, RegistryStep
    <2> QED
      BY <2>3, <2>4
  <1>10. CASE Stop(t) \/ NothingEnabled(t) \/ Abort(t)
    <2>1. PICK step \in {"copy", "undo"} :
              /\ GoTo(t, step) /\ file' = file /\ jobs[t].step \in {"stop", "copy", "commit"}
              /\ db' = db \/ (jobs[t].step = "commit" /\ db' = jobs[t].backup)
      BY <1>10 DEF Stop, NothingEnabled, Abort, At
    <2>2. db' = db
      BY <1>1, <2>1 DEF JobSync
    <2> QED
      BY <1>4, <1>7, <1>8, <2>1, <2>2
  <1>11. CASE Copy(t)
    <2> DEFINE j == [jobs[t] EXCEPT !.step = "commit", !.conf = file, !.backup = db]
    <2>1. jobs' = [jobs EXCEPT ![t] = j] /\ jobs[t].step = "copy" /\ file' = file /\ db' = db
      BY <1>11 DEF Copy, At
    <2>2. j \in Job /\ j.step = "commit" /\ j.again = jobs[t].again /\ j.old = jobs[t].old
      BY <1>1, <1>2 DEF Job
    <2> HIDE DEF j
    <2> QED
      BY <1>4, <1>6, <1>8, <2>1, <2>2
  <1>12. CASE Commit(t)
    <2>1. /\ jobs[t].step = "commit" /\ Possible(jobs[t]) /\ GoTo(t, "start")
          /\ file' = file /\ db' = Applied(jobs[t])
      BY <1>12 DEF Commit, At
    <2>2. Synced(file, db') /\ Effective' = file
      BY <1>0, <1>1, <1>7, <2>1, CommitSync DEF IInv
    <2>3. CASE jobs[t].again
      <3>1. Synced(file, db) /\ Effective = file
        BY <1>1, <1>4, <2>3 DEF JobSync
      <3>2. db' = db
        BY <1>2, <2>2, <3>1 DEF Synced, Database
      <3> QED
        BY <1>8, <2>2, <3>1, <3>2
    <2>4. CASE ~jobs[t].again
      <3>1. Effective = jobs[t].old /\ OneChange(jobs[t].old, file)
        BY <1>1, <1>4, <2>1, <2>4 DEF JobSync, Changes
      <3> QED
        BY <1>2, <2>2, <3>1, RegistryStep
    <2> QED
      BY <2>3, <2>4
  <1>13. CASE Undo(t)
    <2> DEFINE redo == Deletes(jobs[t])
               j == [jobs[t] EXCEPT !.step = IF redo THEN "copy" ELSE "start",
                                    !.again = @ \/ redo]
    <2>1. /\ jobs' = [jobs EXCEPT ![t] = j] /\ jobs[t].step = "undo" /\ db' = db
          /\ file' = IF jobs[t].again THEN file ELSE jobs[t].old
      BY <1>1, <1>13 DEF Undo, At, JobSync
    <2>2. /\ j.step = (IF redo THEN "copy" ELSE "start")
          /\ j.again = (jobs[t].again \/ redo)
          /\ j \in Job
      BY <1>1 DEF Job
    <2> HIDE DEF j, redo
    <2>3. Effective' = file'
      BY <1>6, <2>1, <2>2
    <2> QED
      BY <1>4, <1>8, <2>1, <2>3
  <1>14. CASE Start(t)
    <2>1. jobs[t].step = "start" /\ Leave(t) /\ file' = file /\ db' = db
      BY <1>14 DEF Start, At
    <2> QED
      BY <1>4, <1>5, <1>8, <2>1
  <1>15. ~StopFails(t) /\ ~CommitUnreported(t)
    BY DEF StopFails, CommitUnreported
  <1> QED
    BY <1>9, <1>10, <1>11, <1>12, <1>13, <1>14, <1>15 DEF Step

\* Every request begins in the same way.
LEMMA RequestBegins ==
    ASSUME NEW t \in Threads, Request(t)
    PROVE  \E op, id, conf, provision : Begin(t, op, id, conf, provision)
  <1>1. ASSUME NEW c, NEW port, NEW pin, NEW fresh, Save(t, c, port, pin, fresh)
        PROVE  \E op, id, conf, provision : Begin(t, op, id, conf, provision)
    BY <1>1, Zenon DEF Save
  <1>2. ASSUME NEW c, Delete(t, c)
        PROVE  \E op, id, conf, provision : Begin(t, op, id, conf, provision)
    BY <1>2, Zenon DEF Delete
  <1>3. ASSUME NEW c, Ready(t, c)
        PROVE  \E op, id, conf, provision : Begin(t, op, id, conf, provision)
    BY <1>3, Zenon DEF Ready
  <1>4. ASSUME NEW c, Unpin(t, c)
        PROVE  \E op, id, conf, provision : Begin(t, op, id, conf, provision)
    BY <1>4, Zenon DEF Unpin
  <1>5. ASSUME NEW c, NEW pin, Switch(t, c, pin)
        PROVE  \E op, id, conf, provision : Begin(t, op, id, conf, provision)
    BY <1>5, Zenon DEF Switch
  <1>6. ASSUME NEW protocol, SaveDirect(t, protocol)
        PROVE  \E op, id, conf, provision : Begin(t, op, id, conf, provision)
    BY <1>6, Zenon DEF SaveDirect
  <1>7. ASSUME NEW ports, NEW enabled, NEW protocol, SaveAll(t, ports, enabled, protocol)
        PROVE  \E op, id, conf, provision : Begin(t, op, id, conf, provision)
    BY <1>7, Zenon DEF SaveAll
  <1> QED
    BY <1>1, <1>2, <1>3, <1>4, <1>5, <1>6, <1>7, Zenon DEF Request

\* A request that begins has changed nothing yet.
LEMMA RequestRegistry ==
    ASSUME IInv, NEW t \in Threads, Request(t), \A u \in Threads : jobs[u] = None
    PROVE  UNCHANGED Registry!vars
  <1>1. PICK op, id, conf, provision : Begin(t, op, id, conf, provision)
    BY RequestBegins, Zenon
  <1> DEFINE j == [op |-> op, id |-> id, step |-> "write", old |-> file, conf |-> conf,
                   provision |-> provision, again |-> FALSE, backup |-> None]
  <1>2. jobs' = [jobs EXCEPT ![t] = j] /\ file' = file /\ db' = db
    BY <1>1 DEF Begin
  <1>3. j.step = "write" /\ ~j.again /\ j.old = file
    OBVIOUS
  <1> HIDE DEF j
  <1>4. Effective' = file
    <2>1. jobs'[t] = j /\ \A u \in Threads \ {t} : jobs'[u] = None
      BY <1>2 DEF IInv, TypeOK
    <2>2. CASE j # None
      <3>1. InEffect(jobs', file') = j.old
        BY <1>3, <2>1, <2>2, OneInEffect
      <3> QED
        BY <1>3, <3>1, EffectiveIs
    <2>3. CASE j = None
      <3>1. \A u \in Threads : jobs'[u] = None
        BY <2>1, <2>3
      <3> QED
        BY <1>2, <3>1, EffectiveIs, NoneInEffect
    <2> QED
      BY <2>2, <2>3
  <1>5. Effective = file
    BY EffectiveIs, NoneInEffect
  <1> QED
    BY <1>2, <1>4, <1>5 DEF Registry!vars

\* One request at a time implements the registry: each takes effect in one step, with
\* its inbound, or never, whatever its script does and however it is undone.
THEOREM RequestsAtomic ==
    ASSUME Serial, "all" \notin Ops, Faults \subseteq {"transaction"}
    PROVE  Spec => AllOrNothing
  <1>1. Init => Registry!Init
    <2> SUFFICES ASSUME Init PROVE Registry!Init
      OBVIOUS
    <2>1. Effective = file
      BY EffectiveIs, NoneInEffect DEF Init
    <2>2. Registry!Existing = Lines(file)
      BY <2>1 DEF Registry!Existing, Lines
    <2>3. Registry!TypeOK
      BY <2>1 DEF Init, Config, Registry!TypeOK
    <2>4. Registry!Sane
      <3>1. ASSUME NEW c \in Lines(file), NEW d \in Lines(file), c # d
            PROVE  file.lines[c].port # file.lines[d].port
        BY <3>1 DEF Init, Sane, PortFree
      <3>2. Cardinality(Lines(file)) <= MaxLines
        BY DEF Init, Sane
      <3> QED
        BY <2>1, <2>2, <3>1, <3>2, SameCardinality DEF Registry!Sane
    <2>5. Registry!Provisioned
      BY <2>1, <2>2 DEF Init, Registry!Provisioned, Enabled
    <2> QED
      BY <2>3, <2>4, <2>5 DEF Registry!Init
  <1> DEFINE Held == Ops \subseteq Locked => LockInv
  <1>2. IInv /\ IInv' /\ SyncInv /\ SyncInv' /\ Held /\ [Next]_vars
            => [Registry!Next]_(Registry!vars)
    <2> SUFFICES ASSUME IInv, IInv', SyncInv, SyncInv', Held, [Next]_vars
                 PROVE  Registry!Next \/ UNCHANGED Registry!vars
      OBVIOUS
    <2>1. ASSUME NEW t \in Threads, Request(t) PROVE UNCHANGED Registry!vars
      BY <2>1, IdleAtBegin, RequestRegistry
    <2>2. ASSUME NEW t \in Threads, Step(t) PROVE Registry!Next \/ UNCHANGED Registry!vars
      BY <2>2, StepRegistry
    <2>3. ~Crash
      BY DEF Crash
    <2>4. CASE UNCHANGED vars
      BY <2>4, EffectiveIs DEF vars, Registry!vars
    <2> QED
      BY <2>1, <2>2, <2>3, <2>4 DEF Next
  <1> QED
    BY <1>1, <1>2, SyncInvariant, InvariantHolds, PTL DEF Spec, AllOrNothing, Registry!Spec
-----------------------------------------------------------------------------
(* x-ui is never left down.                                                  *)

Stopped == {"copy", "commit", "undo", "start"}

\* While x-ui is down, a request is on its way to start it.
DownForRequest ==
    ~xui => \E t \in Threads : jobs[t] # None /\ jobs[t].step \in Stopped

\* A thread that has put a request at a step after the stop is on its way.
LEMMA OnItsWay ==
    ASSUME TypeOK, NEW t \in Threads, NEW j \in Job, j.step \in Stopped,
           jobs' = [jobs EXCEPT ![t] = j]
    PROVE  DownForRequest'
  <1>1. jobs'[t] = j /\ j # None
    BY NoneAssumption DEF TypeOK
  <1> QED
    BY <1>1 DEF DownForRequest

LEMMA StepDown ==
    ASSUME TypeOK, DownForRequest, "stop" \notin Faults, NEW t \in Threads, Step(t)
    PROVE  DownForRequest'
  <1>0. jobs[t] # None
    BY DEF Step, Write, Stop, StopFails, Copy, NothingEnabled, Commit, CommitUnreported,
           Abort, Undo, Start, At
  <1>1. jobs[t] \in Job
    BY <1>0 DEF TypeOK
  <1>2. ASSUME NEW step \in Stopped, GoTo(t, step) PROVE DownForRequest'
    <2> DEFINE j == [jobs[t] EXCEPT !.step = step, !.backup = None]
    <2>1. jobs' = [jobs EXCEPT ![t] = j]
      BY <1>2 DEF GoTo
    <2>2. j \in Job /\ j.step = step
      BY <1>1 DEF Job, Stopped
    <2> HIDE DEF j
    <2> QED
      BY <2>1, <2>2, OnItsWay
  <1>3. CASE Write(t)
    <2>1. jobs[t].step = "write" /\ xui' = xui
      BY <1>3 DEF Write, At
    <2>2. \A u \in Threads \ {t} : jobs'[u] = jobs[u]
      BY <1>3 DEF Write, GoTo, Leave, TypeOK
    <2> QED
      BY <2>1, <2>2 DEF DownForRequest, Stopped
  <1>4. CASE Stop(t) \/ NothingEnabled(t) \/ Commit(t) \/ CommitUnreported(t) \/ Abort(t)
    <2>1. PICK step \in Stopped : GoTo(t, step)
      BY <1>4 DEF Stop, NothingEnabled, Commit, CommitUnreported, Abort, Stopped
    <2> QED
      BY <1>2, <2>1
  <1>5. CASE Copy(t)
    <2> DEFINE j == [jobs[t] EXCEPT !.step = "commit", !.conf = file, !.backup = db]
    <2>1. jobs' = [jobs EXCEPT ![t] = j]
      BY <1>5 DEF Copy
    <2>2. j \in Job /\ j.step \in Stopped
      BY <1>1 DEF Job, Stopped, TypeOK
    <2> HIDE DEF j
    <2> QED
      BY <2>1, <2>2, OnItsWay
  <1>6. CASE Undo(t)
    <2> DEFINE redo == Deletes(jobs[t])
               j == [jobs[t] EXCEPT !.step = IF redo THEN "copy" ELSE "start",
                                    !.again = @ \/ redo]
    <2>1. jobs' = [jobs EXCEPT ![t] = j]
      BY <1>6 DEF Undo
    <2>2. redo \in BOOLEAN
      BY DEF Deletes
    <2> HIDE DEF redo
    <2>3. j \in Job /\ j.step \in Stopped
      BY <1>1, <2>2 DEF Job, Stopped
    <2> HIDE DEF j
    <2> QED
      BY <2>1, <2>3, OnItsWay
  <1>7. CASE Start(t)
    BY <1>7 DEF Start, DownForRequest
  <1>8. ~StopFails(t)
    BY DEF StopFails
  <1> QED
    BY <1>3, <1>4, <1>5, <1>6, <1>7, <1>8 DEF Step

LEMMA RequestDown ==
    ASSUME TypeOK, DownForRequest, NEW t \in Threads, Request(t)
    PROVE  DownForRequest'
  <1>1. \E op, id, conf, provision : Begin(t, op, id, conf, provision)
    BY RequestBegins
  <1>2. jobs[t] = None /\ xui' = xui /\ \A u \in Threads \ {t} : jobs'[u] = jobs[u]
    BY <1>1, Zenon DEF Begin, TypeOK
  <1> QED
    BY <1>2 DEF DownForRequest

\* Whatever requests overlap, with or without the lock, and however their scripts
\* fail: as long as stopping x-ui does not fail and the dashboard is not killed, x-ui
\* is down only while a request is between its stop and its start.
THEOREM NeverLeftDown ==
    ASSUME "stop" \notin Faults, "crash" \notin Faults
    PROVE  Spec => []DownForRequest
  <1>1. Init => DownForRequest
    BY DEF Init, DownForRequest
  <1>2. TypeOK /\ DownForRequest /\ [Next]_vars => DownForRequest'
    <2> SUFFICES ASSUME TypeOK, DownForRequest, [Next]_vars PROVE DownForRequest'
      OBVIOUS
    <2>1. ASSUME NEW t \in Threads, Request(t) PROVE DownForRequest'
      BY <2>1, RequestDown
    <2>2. ASSUME NEW t \in Threads, Step(t) PROVE DownForRequest'
      BY <2>2, StepDown
    <2>3. ~Crash
      BY DEF Crash
    <2>4. CASE UNCHANGED vars
      BY <2>4 DEF vars, DownForRequest
    <2> QED
      BY <2>1, <2>2, <2>3, <2>4 DEF Next
  <1> QED
    BY <1>1, <1>2, TypeCorrect, PTL DEF Spec
=============================================================================
