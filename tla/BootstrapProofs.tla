-------------------------- MODULE BootstrapProofs --------------------------
(***************************************************************************)
(* Proofs about Bootstrap: its types, with who waits for the test that is   *)
(* under way; that a line is released only for an available node that its   *)
(* worker or its card has taken up; and that this is one the line wants     *)
(* while nobody uses the card and no line is changed.                       *)
(***************************************************************************)
EXTENDS Bootstrap, TLAPS

\* Releasing a line leaves what it wants, and the other lines, alone.
LEMMA MarkReadyKeeps ==
    ASSUME lines \in [Ids -> Line \cup {None}], NEW c \in Ids, MarkReady(c)
    PROVE  /\ lines' \in [Ids -> Line \cup {None}]
           /\ \A d \in Ids : lines'[d].want = lines[d].want
           /\ \A d \in Ids : d # c => lines'[d] = lines[d]
  <1>1. CASE lines[c] = None
    BY <1>1 DEF MarkReady
  <1>2. CASE lines[c] # None
    <2> DEFINE l == [lines[c] EXCEPT !.awaiting = FALSE]
    <2>1. lines[c] \in Line
      BY <1>2
    <2>2. l \in Line /\ l.want = lines[c].want
      BY <2>1 DEF Line
    <2>3. lines' = [lines EXCEPT ![c] = l]
      BY <1>2 DEF MarkReady
    <2> HIDE DEF l
    <2> QED
      BY <2>2, <2>3
  <1> QED
    BY <1>1, <1>2

LEMMA ResetType ==
    ASSUME nodes \in [Nodes -> Status]
    PROVE  Reset \in [Nodes -> Status]
  BY DEF Reset, Status

\* What is seen changes nothing else of a worker.
LEMMA SeenKeeps ==
    ASSUME worker \in [Ids -> Worker \cup {None}], NEW probed \in SUBSET Nodes
    PROVE  /\ Seen(probed) \in [Ids -> Worker \cup {None}]
           /\ \A c \in Ids : worker[c] = None => Seen(probed)[c] = None
           /\ \A c \in Ids : worker[c] # None =>
                  /\ Seen(probed)[c] \in Worker
                  /\ Seen(probed)[c].at = worker[c].at
                  /\ Seen(probed)[c].want = worker[c].want
                  /\ Seen(probed)[c].batch = worker[c].batch
  <1> DEFINE w(c) == [worker[c] EXCEPT !.seen = @ \cup (probed \cap worker[c].batch)]
  <1>1. ASSUME NEW c \in Ids, worker[c] # None
        PROVE  /\ w(c) \in Worker /\ w(c).at = worker[c].at
               /\ w(c).want = worker[c].want /\ w(c).batch = worker[c].batch
    <2>1. worker[c] \in Worker
      BY <1>1
    <2> QED
      BY <2>1 DEF Worker
  <1>2. Seen(probed) = [c \in Ids |-> IF worker[c] = None THEN None ELSE w(c)]
    BY DEF Seen
  <1> HIDE DEF w
  <1> QED
    BY <1>1, <1>2

\* The state after a test has begun.
LEMMA BegunTest ==
    ASSUME TypeOK, NEW line \in Ids \cup {None}, NEW by \in {"worker", "click", "page"},
           NEW ids \in SUBSET Nodes, BeginTest(line, by, ids),
           by = "worker" => line \in Ids /\ worker[line] # None
    PROVE  /\ lines' \in [Ids -> Line \cup {None}]
           /\ nodes' \in [Nodes -> Status]
           /\ worker' \in [Ids -> Worker \cup {None}]
           /\ test' \in Test
           /\ test'.by = by /\ test'.line = line /\ test'.todo \subseteq ids
           /\ by = "worker" => worker'[line] # None /\ worker'[line].at = "wait"
           /\ \A d \in Ids : lines'[d].want = lines[d].want
           /\ \A d \in Ids : worker[d] # None =>
                  /\ worker'[d] # None
                  /\ worker'[d].want = worker[d].want /\ worker'[d].batch = worker[d].batch
           /\ \A d \in Ids : worker[d] = None => worker'[d] = None
           /\ \A d \in Ids : worker[d] # None /\ d # line => worker'[d].at = worker[d].at
           /\ by # "worker" => \A d \in Ids : worker[d] # None => worker'[d].at = worker[d].at
           /\ test'.release => line \in Ids
  <1> USE DEF TypeOK
  <1>0. Reset \in [Nodes -> Status]
    BY ResetType
  <1> DEFINE was == line # None /\ Awaiting(line)
             known == IF was THEN {n \in ids : Reset[n] = "available"} ELSE {}
             todo(first) == ids \ (used \cup first)
             started(first) == {n \in todo(first) : Reset[n] # "unavailable"}
  <1>1. PICK first \in (IF known = {} THEN {{}} ELSE {{n} : n \in known}) :
          /\ IF first = {} THEN UNCHANGED lines ELSE MarkReady(line)
          /\ nodes' = [n \in Nodes |-> IF n \in started(first) THEN "testing" ELSE Reset[n]]
          /\ test' = [line |-> line, by |-> by, todo |-> todo(first), before |-> Reset,
                      release |-> was /\ first = {}]
          /\ worker' = IF by = "worker"
                       THEN [Seen(started(first)) EXCEPT ![line].at = "wait"]
                       ELSE Seen(started(first))
    BY DEF BeginTest
  <1>2. todo(first) \in SUBSET Nodes /\ started(first) \in SUBSET Nodes
        /\ todo(first) \subseteq ids
    OBVIOUS
  <1>3. first # {} => line \in Ids
    OBVIOUS
  <1>4. /\ lines' \in [Ids -> Line \cup {None}]
        /\ \A d \in Ids : lines'[d].want = lines[d].want
    BY <1>1, <1>3, MarkReadyKeeps
  <1>5. nodes' \in [Nodes -> Status]
    BY <1>0, <1>1 DEF Status
  <1>6. (was /\ first = {}) \in BOOLEAN
    OBVIOUS
  <1>7. (was /\ first = {}) => line \in Ids
    OBVIOUS
  <1> HIDE DEF was, known
  <1>8. /\ test' \in Test
        /\ test'.by = by /\ test'.line = line /\ test'.todo \subseteq ids
        /\ test'.release => line \in Ids
    BY <1>0, <1>1, <1>2, <1>6, <1>7 DEF Test
  <1> DEFINE s == Seen(started(first))
  <1>9. /\ s \in [Ids -> Worker \cup {None}]
        /\ \A d \in Ids : worker[d] = None => s[d] = None
        /\ \A d \in Ids : worker[d] # None =>
               /\ s[d] \in Worker /\ s[d].at = worker[d].at
               /\ s[d].want = worker[d].want /\ s[d].batch = worker[d].batch
    BY <1>2, SeenKeeps
  <1>10. worker' = IF by = "worker" THEN [s EXCEPT ![line].at = "wait"] ELSE s
    BY <1>1
  <1> HIDE DEF s, todo, started, TypeOK
  <1>11. CASE by # "worker"
    BY <1>4, <1>5, <1>8, <1>9, <1>10, <1>11, NoneAssumption
  <1>12. CASE by = "worker"
    <2> DEFINE v == [s[line] EXCEPT !.at = "wait"]
    <2>1. line \in Ids /\ s[line] \in Worker
      BY <1>9, <1>12
    <2>2. v \in Worker /\ v.at = "wait" /\ v.want = s[line].want /\ v.batch = s[line].batch
      BY <2>1 DEF Worker
    <2>3. worker' = [s EXCEPT ![line] = v]
      BY <1>10, <1>12
    <2> HIDE DEF v
    <2> QED
      BY <1>4, <1>5, <1>8, <1>9, <1>12, <2>1, <2>2, <2>3, NoneAssumption
  <1> QED
    BY <1>11, <1>12

-----------------------------------------------------------------------------
(* Types.                                                                    *)

LEMMA WorkerStepType ==
    ASSUME TypeOK, NEW c \in Ids, WorkerStep(c)
    PROVE  TypeOK'
  <1> USE DEF TypeOK, AtStep
  <1>1. worker[c] # None => worker[c] \in Worker
    OBVIOUS
  \* A step of the worker that changes only what it has in hand.
  <1>2. ASSUME NEW v, v \in Worker \/ v = None, worker' = [worker EXCEPT ![c] = v],
               ~AtStep(c, "wait"),
               lines' \in [Ids -> Line \cup {None}], left' \in 0..MaxEvents,
               UNCHANGED <<nodes, cool, used, click, test>>
        PROVE  TypeOK'
    <2>1. worker' \in [Ids -> Worker \cup {None}]
      BY <1>2
    <2>2. \A d \in Ids : AtStep(d, "wait") => worker'[d] # None /\ worker'[d].at = "wait"
      BY <1>2
    <2> QED
      BY <1>2, <2>1, <2>2
  <1>3. CASE Ensure(c)
    <2> DEFINE v == [at |-> "look", want |-> None, batch |-> {}, seen |-> {}, attempted |-> {}]
    <2>1. v \in Worker
      BY DEF Worker
    <2>2. worker' = [worker EXCEPT ![c] = v] /\ worker[c] = None
          /\ UNCHANGED <<lines, nodes, cool, used, click, test, left>>
      BY <1>3 DEF Ensure
    <2> HIDE DEF v
    <2> QED
      BY <1>2, <2>1, <2>2
  <1>4. CASE Return(c)
    <2> DEFINE v == None
    <2>1. worker' = [worker EXCEPT ![c] = v] /\ ~AtStep(c, "wait")
          /\ UNCHANGED <<lines, nodes, cool, used, click, test, left>>
      BY <1>4 DEF Return
    <2>2. v = None
      OBVIOUS
    <2> HIDE DEF v
    <2> QED
      BY <1>2, <2>1, <2>2
  <1>5. CASE Look(c)
    <2>1. PICK batch \in BatchOf(c) :
            worker' = [worker EXCEPT ![c] = [@ EXCEPT !.at = "test", !.batch = batch,
                                                      !.want = lines[c].want]]
      BY <1>5 DEF Look
    <2> DEFINE v == [worker[c] EXCEPT !.at = "test", !.batch = batch, !.want = lines[c].want]
    <2>2. batch \in SUBSET Nodes /\ lines[c].want \in Wants
      BY <1>5, BootstrapAssumption DEF Look, Awaiting, Line, BatchOf, Eligible
    <2>3. v \in Worker
      BY <1>1, <1>5, <2>2 DEF Look, Worker
    <2>4. worker' = [worker EXCEPT ![c] = v] /\ ~AtStep(c, "wait")
          /\ UNCHANGED <<lines, nodes, cool, used, click, test, left>>
      BY <1>5, <2>1 DEF Look
    <2> HIDE DEF v
    <2> QED
      BY <1>2, <2>3, <2>4
  <1>6. CASE Forget(c)
    <2> DEFINE v == [worker[c] EXCEPT !.attempted = {}]
    <2>1. v \in Worker
      BY <1>1, <1>6 DEF Forget, Worker
    <2>2. worker' = [worker EXCEPT ![c] = v] /\ ~AtStep(c, "wait")
          /\ UNCHANGED <<lines, nodes, cool, used, click, test, left>>
      BY <1>6 DEF Forget
    <2> HIDE DEF v
    <2> QED
      BY <1>2, <2>1, <2>2
  <1>7. CASE Enter(c)
    <2>1. worker[c].batch \in SUBSET Nodes
      BY <1>1, <1>7 DEF Enter, Worker
    <2>2. BeginTest(c, "worker", worker[c].batch) /\ worker[c] # None
          /\ UNCHANGED <<cool, used, click, left>>
      BY <1>7 DEF Enter
    <2> HIDE DEF AtStep
    <2> DEFINE batch == worker[c].batch
    <2> HIDE DEF batch
    <2>3. batch \in SUBSET Nodes /\ BeginTest(c, "worker", batch)
      BY <2>1, <2>2 DEF batch
    <2>4. TypeOK
      OBVIOUS
    <2> HIDE DEF TypeOK, AtStep
    <2>5. /\ lines' \in [Ids -> Line \cup {None}] /\ nodes' \in [Nodes -> Status]
          /\ worker' \in [Ids -> Worker \cup {None}] /\ test' \in Test
          /\ test'.by = "worker" /\ test'.line = c
          /\ worker'[c] # None /\ worker'[c].at = "wait"
      BY <2>2, <2>3, <2>4, BegunTest
    <2> QED
      BY <2>2, <2>4, <2>5 DEF TypeOK, AtStep
  <1>8. CASE NotTested(c)
    <2> DEFINE v == [worker[c] EXCEPT !.at = "judge"]
    <2>1. v \in Worker
      BY <1>1, <1>8 DEF NotTested, Worker
    <2>2. worker' = [worker EXCEPT ![c] = v] /\ ~AtStep(c, "wait")
          /\ UNCHANGED <<lines, nodes, cool, used, click, test>>
      BY <1>8 DEF NotTested
    <2>3. left' \in 0..MaxEvents
      BY <1>8, BootstrapAssumption DEF NotTested, Occurs
    <2> HIDE DEF v
    <2> QED
      BY <1>2, <2>1, <2>2, <2>3
  <1>9. CASE Judge(c)
    <2>1. AtStep(c, "judge") /\ UNCHANGED <<nodes, cool, used, click, test, left>>
      BY <1>9 DEF Judge
    <2>2. CASE Winners(c) # {}
      <3> DEFINE v == None
      <3>1. MarkReady(c) /\ worker' = [worker EXCEPT ![c] = v] /\ v = None
        BY <1>9, <2>2 DEF Judge
      <3>2. lines' \in [Ids -> Line \cup {None}]
        BY <3>1, MarkReadyKeeps
      <3> HIDE DEF v
      <3> QED
        BY <1>2, <2>1, <3>1, <3>2
    <2>3. CASE Winners(c) = {}
      <3> DEFINE v == NextRound(c)
      <3>1. v \in Worker
        BY <1>1, <2>1 DEF Worker, NextRound
      <3>2. worker' = [worker EXCEPT ![c] = v] /\ lines' = lines
        BY <1>9, <2>3 DEF Judge
      <3> HIDE DEF v
      <3> QED
        BY <1>2, <2>1, <3>1, <3>2
    <2> QED
      BY <2>2, <2>3
  <1> QED
    BY <1>3, <1>4, <1>5, <1>6, <1>7, <1>8, <1>9 DEF WorkerStep

\* What is no longer seen changes nothing else of a worker either.
LEMMA UnseenType ==
    ASSUME worker \in [Ids -> Worker \cup {None}], NEW n \in Nodes,
           worker' = [c \in Ids |-> IF worker[c] = None THEN None
                                    ELSE [worker[c] EXCEPT !.seen = @ \ {n}]]
    PROVE  /\ worker' \in [Ids -> Worker \cup {None}]
           /\ \A c \in Ids : worker[c] = None => worker'[c] = None
           /\ \A c \in Ids : worker[c] # None =>
                  /\ worker'[c] # None
                  /\ worker'[c].at = worker[c].at
                  /\ worker'[c].want = worker[c].want
                  /\ worker'[c].batch = worker[c].batch
  <1> DEFINE w(c) == [worker[c] EXCEPT !.seen = @ \ {n}]
  <1>1. ASSUME NEW c \in Ids, worker[c] # None
        PROVE  /\ w(c) \in Worker /\ w(c).at = worker[c].at
               /\ w(c).want = worker[c].want /\ w(c).batch = worker[c].batch
    <2>1. worker[c] \in Worker
      BY <1>1
    <2> QED
      BY <2>1 DEF Worker
  <1>2. worker' = [c \in Ids |-> IF worker[c] = None THEN None ELSE w(c)]
    OBVIOUS
  <1> HIDE DEF w
  <1> QED
    BY <1>1, <1>2, NoneAssumption

LEMMA TestStepType ==
    ASSUME TypeOK, TestStep
    PROVE  TypeOK'
  <1> USE DEF TypeOK
  <1>1. test # None => test \in Test
    OBVIOUS
  \* A result of one node: the test goes on.
  <1>2. ASSUME test # None, NEW t, t \in Test, test' = t,
               t.by = test.by, t.line = test.line, t.release => test.release,
               lines' \in [Ids -> Line \cup {None}], nodes' \in [Nodes -> Status],
               cool' \subseteq Nodes, left' \in 0..MaxEvents,
               worker' \in [Ids -> Worker \cup {None}],
               \A c \in Ids : worker[c] # None =>
                   worker'[c] # None /\ worker'[c].at = worker[c].at,
               UNCHANGED <<used, click>>
        PROVE  TypeOK'
    BY <1>2, NoneAssumption DEF AtStep
  <1>3. ASSUME NEW n \in Nodes, Answers(n)
        PROVE  TypeOK'
    <2> DEFINE t == [test EXCEPT !.todo = @ \ {n}, !.release = FALSE]
    <2>1. t \in Test /\ t.by = test.by /\ t.line = test.line /\ test # None
          /\ (t.release => test.release)
      BY <1>1, <1>3 DEF Answers, Test
    <2>2. /\ test' = t /\ nodes' = [nodes EXCEPT ![n] = "available"]
          /\ cool' = cool \ {n} /\ worker' = Seen({n})
          /\ UNCHANGED <<used, click, left>>
      BY <1>3 DEF Answers
    <2>3. lines' \in [Ids -> Line \cup {None}]
      <3>1. CASE test.release
        BY <1>3, <3>1, MarkReadyKeeps DEF Answers
      <3>2. CASE ~test.release
        BY <1>3, <3>2 DEF Answers
      <3> QED
        BY <3>1, <3>2
    <2>4. {n} \in SUBSET Nodes
      OBVIOUS
    <2>5. /\ worker' \in [Ids -> Worker \cup {None}]
          /\ \A c \in Ids : worker[c] # None =>
                 worker'[c] # None /\ worker'[c].at = worker[c].at
      BY <2>2, <2>4, SeenKeeps, NoneAssumption
    <2>6. nodes' \in [Nodes -> Status]
      BY <2>2 DEF Status
    <2> HIDE DEF t
    <2> QED
      BY <1>2, <2>1, <2>2, <2>3, <2>5, <2>6
  <1>4. ASSUME NEW n \in Nodes, Fails(n)
        PROVE  TypeOK'
    <2> DEFINE t == [test EXCEPT !.todo = @ \ {n}]
    <2>1. t \in Test /\ t.by = test.by /\ t.line = test.line /\ test # None
          /\ (t.release => test.release)
      BY <1>1, <1>4 DEF Fails, Test
    <2>2. /\ test' = t /\ nodes' = [nodes EXCEPT ![n] = "unavailable"]
          /\ cool' = cool \cup {n} /\ worker' = Seen({n})
          /\ UNCHANGED <<lines, used, click>>
      BY <1>4 DEF Fails
    <2>3. left' \in 0..MaxEvents
      BY <1>4, BootstrapAssumption DEF Fails, Occurs
    <2>4. {n} \in SUBSET Nodes
      OBVIOUS
    <2>5. /\ worker' \in [Ids -> Worker \cup {None}]
          /\ \A c \in Ids : worker[c] # None =>
                 worker'[c] # None /\ worker'[c].at = worker[c].at
      BY <2>2, <2>4, SeenKeeps, NoneAssumption
    <2>6. nodes' \in [Nodes -> Status]
      BY <2>2 DEF Status
    <2> HIDE DEF t
    <2> QED
      BY <1>2, <2>1, <2>2, <2>3, <2>5, <2>6
  <1>5. ASSUME NEW n \in Nodes, Deferred(n)
        PROVE  TypeOK'
    <2> DEFINE t == [test EXCEPT !.todo = @ \ {n}]
    <2>1. t \in Test /\ t.by = test.by /\ t.line = test.line /\ test # None
          /\ (t.release => test.release)
          /\ test.before[n] \in Status
      BY <1>1, <1>5 DEF Deferred, Test
    <2>2. /\ test' = t /\ nodes' = [nodes EXCEPT ![n] = test.before[n]]
          /\ UNCHANGED <<lines, cool, used, click>>
      BY <1>5 DEF Deferred
    <2>3. left' \in 0..MaxEvents
      BY <1>5, BootstrapAssumption DEF Deferred, Occurs
    <2>4. /\ worker' \in [Ids -> Worker \cup {None}]
          /\ \A c \in Ids : worker[c] # None =>
                 worker'[c] # None /\ worker'[c].at = worker[c].at
      BY <1>5, UnseenType DEF Deferred
    <2>5. nodes' \in [Nodes -> Status]
      BY <2>1, <2>2
    <2> HIDE DEF t
    <2> QED
      BY <1>2, <2>1, <2>2, <2>3, <2>4, <2>5
  <1>6. CASE Finish
    <2>1. test' = None /\ nodes' = Reset /\ UNCHANGED <<lines, cool, used, left>>
      BY <1>6 DEF Finish
    <2>2. nodes' \in [Nodes -> Status]
      BY <2>1, ResetType
    <2>3. worker' \in [Ids -> Worker \cup {None}]
      <3>1. CASE test.by = "worker"
        <4> DEFINE c == test.line  v == [worker[c] EXCEPT !.at = "judge"]
        <4>1. c \in Ids /\ worker[c] \in Worker
          BY <1>6, <3>1 DEF Finish, AtStep
        <4>2. v \in Worker
          BY <4>1 DEF Worker
        <4>3. worker' = [worker EXCEPT ![c] = v]
          BY <1>6, <3>1 DEF Finish
        <4> HIDE DEF c, v
        <4> QED
          BY <4>1, <4>2, <4>3
      <3>2. CASE test.by # "worker"
        BY <1>6, <3>2 DEF Finish
      <3> QED
        BY <3>1, <3>2
    <2>4. click' \in Click \cup {None}
      BY <1>6 DEF Finish, Click
    <2> QED
      BY <2>1, <2>2, <2>3, <2>4
  <1> QED
    BY <1>3, <1>4, <1>5, <1>6 DEF TestStep

LEMMA ClickStepType ==
    ASSUME TypeOK, ClickStep
    PROVE  TypeOK'
  <1> USE DEF TypeOK
  <1>1. CASE ClickEnters
    <2>1. /\ click \in Click /\ UNCHANGED <<cool, used, left>>
          /\ BeginTest(click.line, "click", OfCountry[click.want])
          /\ click' = [click EXCEPT !.at = "wait"]
      BY <1>1 DEF ClickEnters
    <2>2. click.line \in Ids /\ OfCountry[click.want] \in SUBSET Nodes
          /\ click' \in Click /\ click'.at = "wait"
      BY <2>1, BootstrapAssumption DEF Click
    <2>3. TypeOK
      OBVIOUS
    <2> DEFINE ids == OfCountry[click.want]  c == click.line
    <2>4. ids \in SUBSET Nodes /\ c \in Ids /\ BeginTest(c, "click", ids)
      BY <2>1, <2>2
    <2> HIDE DEF TypeOK, ids, c
    <2>5. /\ lines' \in [Ids -> Line \cup {None}] /\ nodes' \in [Nodes -> Status]
          /\ worker' \in [Ids -> Worker \cup {None}] /\ test' \in Test
          /\ test'.by = "click" /\ (test'.release => test'.line \in Ids)
      BY <2>3, <2>4, BegunTest
    <2> QED
      BY <2>1, <2>2, <2>3, <2>5, NoneAssumption DEF TypeOK
  <1>2. CASE ClickNotTested
    <2>1. click' \in Click /\ click.at = "test" /\ click'.at = "judge"
          /\ UNCHANGED <<lines, nodes, cool, used, worker, test, left>>
      BY <1>2 DEF ClickNotTested, Click
    <2> QED
      BY <2>1 DEF AtStep
  <1>3. CASE ClickJudges
    <2>1. click \in Click /\ click.at = "judge" /\ click' = None
          /\ UNCHANGED <<nodes, cool, used, worker, test, left>>
          /\ (MarkReady(click.line) \/ UNCHANGED lines)
      BY <1>3 DEF ClickJudges
    <2>2. lines' \in [Ids -> Line \cup {None}]
      <3>1. click.line \in Ids
        BY <2>1 DEF Click
      <3> QED
        BY <2>1, <3>1, MarkReadyKeeps
    <2> QED
      BY <2>1, <2>2 DEF AtStep
  <1> QED
    BY <1>1, <1>2, <1>3 DEF ClickStep

LEMMA AroundType ==
    ASSUME TypeOK, Around
    PROVE  TypeOK'
  <1> USE DEF TypeOK
  <1>0. ASSUME NEW event, Occurs(event)
        PROVE  left' \in 0..MaxEvents
    BY <1>0, BootstrapAssumption DEF Occurs
  <1>1. ASSUME NEW c \in Ids, ClickTest(c)
        PROVE  TypeOK'
    <2>1. click = None /\ test = None /\ left' \in 0..MaxEvents
          /\ UNCHANGED <<lines, nodes, cool, used, worker, test>>
      BY <1>0, <1>1 DEF ClickTest
    <2>2. click' \in Click
      BY <1>1 DEF ClickTest, Click, Line
    <2> QED
      BY <2>1, <2>2
  <1>2. ASSUME NEW c \in Ids, Delete(c)
        PROVE  TypeOK'
    <2>1. lines' \in [Ids -> Line \cup {None}] /\ left' \in 0..MaxEvents
          /\ UNCHANGED <<nodes, cool, used, worker, click, test>>
      BY <1>0, <1>2 DEF Delete
    <2> QED
      BY <2>1 DEF AtStep
  <1>3. ASSUME NEW c \in Ids, NEW want \in Wants, Save(c, want)
        PROVE  TypeOK'
    <2> DEFINE waits == \/ lines[c] = None
                        \/ Country[lines[c].want] # Country[want]
                        \/ lines[c].awaiting
               l == [want |-> want, awaiting |-> waits]
    <2>1. waits \in BOOLEAN
      BY DEF Line
    <2>2. lines' = [lines EXCEPT ![c] = l] /\ left' \in 0..MaxEvents
          /\ UNCHANGED <<nodes, cool, used, worker, click, test>>
      BY <1>0, <1>3 DEF Save
    <2> HIDE DEF waits
    <2>3. l \in Line
      BY <2>1 DEF Line
    <2> HIDE DEF l
    <2>4. lines' \in [Ids -> Line \cup {None}]
      BY <2>2, <2>3
    <2> QED
      BY <2>2, <2>4 DEF AtStep
  <1>4. ASSUME NEW ids \in SUBSET Nodes, PageTest(ids)
        PROVE  TypeOK'
    <2>1. BeginTest(None, "page", ids) /\ left' \in 0..MaxEvents
          /\ UNCHANGED <<cool, used, click>>
      BY <1>0, <1>4 DEF PageTest
    <2>2. TypeOK
      OBVIOUS
    <2> HIDE DEF TypeOK
    <2>3. /\ lines' \in [Ids -> Line \cup {None}] /\ nodes' \in [Nodes -> Status]
          /\ worker' \in [Ids -> Worker \cup {None}] /\ test' \in Test
          /\ test'.by = "page" /\ (test'.release => test'.line \in Ids)
      BY <2>1, <2>2, BegunTest
    <2> QED
      BY <2>1, <2>2, <2>3 DEF TypeOK
  <1>5. ASSUME NEW n \in Nodes, CoolDown(n) \/ Use(n) \/ LeaveNode(n)
        PROVE  TypeOK'
    <2>1. cool' \subseteq Nodes /\ used' \subseteq Nodes
          /\ UNCHANGED <<lines, nodes, worker, click, test, left>>
      BY <1>5 DEF CoolDown, Use, LeaveNode
    <2> QED
      BY <2>1 DEF AtStep
  <1>6. CASE Crash
    <2>1. /\ worker' = [c \in Ids |-> None] /\ click' = None /\ test' = None
          /\ left' \in 0..MaxEvents /\ UNCHANGED <<lines, nodes, cool, used>>
      BY <1>0, <1>6 DEF Crash
    <2> QED
      BY <2>1
  <1> QED
    BY <1>1, <1>2, <1>3, <1>4, <1>5, <1>6 DEF Around

LEMMA InitType ==
    ASSUME Init
    PROVE  TypeOK
  <1>1. lines \in [Ids -> Line \cup {None}]
    BY DEF Init, Line
  <1>2. nodes \in [Nodes -> Status]
    BY DEF Init, Status
  <1> QED
    BY <1>1, <1>2, BootstrapAssumption DEF Init, TypeOK

LEMMA NextType ==
    ASSUME TypeOK, [Next]_vars
    PROVE  TypeOK'
  <1>1. CASE UNCHANGED vars
    BY <1>1 DEF vars, TypeOK, AtStep
  <1> QED
    BY <1>1, WorkerStepType, TestStepType, ClickStepType, AroundType DEF Next

\* The test that holds the lock was begun by a worker or a click that still waits for
\* it: no worker ends, starts again or tests twice while its test runs.
THEOREM TypeCorrect == Spec => []TypeOK
  <1>1. Init => TypeOK
    BY InitType
  <1>2. TypeOK /\ [Next]_vars => TypeOK'
    BY NextType
  <1> QED
    BY <1>1, <1>2, PTL DEF Spec

-----------------------------------------------------------------------------
(* What a step makes of the workers, of the test and of the lines.           *)

\* A worker that goes on with what it has in hand.
GoesOn(d) ==
    /\ worker[d] = None => worker'[d] = None
    /\ worker[d] # None =>
           /\ worker'[d] # None
           /\ worker'[d].at = "look" <=> worker[d].at = "look"
           /\ worker'[d].want = worker[d].want
           /\ worker'[d].batch = worker[d].batch

\* A worker that has ended, looks for candidates, or has just found some.
Anew(d) ==
    \/ worker'[d] = None
    \/ worker'[d].at = "look"
    \/ /\ worker'[d].want = lines[d].want
       /\ worker'[d].batch \subseteq Fits[lines[d].want]

\* The lines keep what they want.
WantsKept == \A d \in Ids : lines'[d].want = lines[d].want

\* The test goes on, perhaps with fewer nodes.
TestGoesOn ==
    /\ test # None /\ test' # None
    /\ test'.by = test.by /\ test'.line = test.line
    /\ test'.todo \subseteq test.todo /\ (test'.release => test.release)

\* The click keeps what it has read.
ClickGoesOn ==
    /\ click = None => click' = None
    /\ click # None => /\ click' # None
                       /\ click'.line = click.line /\ click'.want = click.want

\* A test that releases its line as it begins has found one of its nodes available.
LEMMA BegunRelease ==
    ASSUME TypeOK, NEW line \in Ids \cup {None}, NEW by \in {"worker", "click", "page"},
           NEW ids \in SUBSET Nodes, BeginTest(line, by, ids)
    PROVE  \/ UNCHANGED lines
           \/ /\ line \in Ids /\ MarkReady(line)
              /\ \E n \in ids : nodes'[n] = "available"
  <1>1. PICK first \in (IF line # None /\ Awaiting(line) /\ {n \in ids : Reset[n] = "available"} # {}
                        THEN {{n} : n \in {m \in ids : Reset[m] = "available"}} ELSE {{}}) :
          /\ IF first = {} THEN UNCHANGED lines ELSE MarkReady(line)
          /\ nodes' = [n \in Nodes |->
                IF n \in {m \in ids \ (used \cup first) : Reset[m] # "unavailable"}
                THEN "testing" ELSE Reset[n]]
    BY DEF BeginTest
  <1>2. CASE first = {}
    BY <1>1, <1>2
  <1>3. CASE first # {}
    <2>1. PICK n \in ids : first = {n} /\ Reset[n] = "available"
      BY <1>1, <1>3
    <2>2. nodes'[n] = "available"
      BY <1>1, <2>1
    <2>3. line \in Ids
      BY <1>1, <1>3
    <2> QED
      BY <1>1, <1>3, <2>2, <2>3
  <1> QED
    BY <1>2, <1>3

\* A step of a worker.
LEMMA WorkerStepIs ==
    ASSUME TypeOK, NEW c \in Ids, WorkerStep(c)
    PROVE  /\ WantsKept /\ UNCHANGED click
           /\ \A d \in Ids : d # c => GoesOn(d)
           /\ \/ test' = test /\ ~AtStep(c, "wait") /\ (GoesOn(c) \/ Anew(c))
              \/ /\ Enter(c) /\ GoesOn(c) /\ test' # None /\ test'.by = "worker"
                 /\ test'.line = c /\ test'.todo \subseteq worker[c].batch
  <1>0. /\ lines \in [Ids -> Line \cup {None}] /\ worker \in [Ids -> Worker \cup {None}]
        /\ test \in Test \cup {None}
    BY DEF TypeOK
  <1>1. ASSUME NEW v, worker' = [worker EXCEPT ![c] = v], WantsKept, UNCHANGED <<click, test>>,
               ~AtStep(c, "wait"),
               \/ v = None
               \/ v.at = "look"
               \/ v.want = lines[c].want /\ v.batch \subseteq Fits[lines[c].want]
               \/ /\ worker[c] # None /\ v # None /\ (v.at = "look" <=> worker[c].at = "look")
                  /\ v.want = worker[c].want /\ v.batch = worker[c].batch
        PROVE  /\ WantsKept /\ UNCHANGED click
               /\ \A d \in Ids : d # c => GoesOn(d)
               /\ test' = test /\ ~AtStep(c, "wait") /\ (GoesOn(c) \/ Anew(c))
    <2>1. worker'[c] = v /\ \A d \in Ids : d # c => worker'[d] = worker[d]
      BY <1>0, <1>1
    <2>2. \A d \in Ids : d # c => GoesOn(d)
      BY <2>1 DEF GoesOn
    <2>3. GoesOn(c) \/ Anew(c)
      BY <1>1, <2>1 DEF GoesOn, Anew
    <2> QED
      BY <1>1, <2>2, <2>3
  <1>2. CASE Ensure(c)
    <2> DEFINE v == [at |-> "look", want |-> None, batch |-> {}, seen |-> {}, attempted |-> {}]
    <2>1. worker' = [worker EXCEPT ![c] = v] /\ v.at = "look" /\ ~AtStep(c, "wait")
          /\ UNCHANGED <<lines, click, test>>
      BY <1>2 DEF Ensure, AtStep
    <2> HIDE DEF v
    <2> QED
      BY <1>1, <2>1 DEF WantsKept
  <1>3. CASE Return(c)
    <2> DEFINE v == None
    <2>1. worker' = [worker EXCEPT ![c] = v] /\ v = None /\ ~AtStep(c, "wait")
          /\ UNCHANGED <<lines, click, test>>
      BY <1>3 DEF Return, AtStep
    <2> HIDE DEF v
    <2> QED
      BY <1>1, <2>1 DEF WantsKept
  <1>4. CASE Look(c)
    <2>1. PICK batch \in BatchOf(c) :
            worker' = [worker EXCEPT ![c] = [@ EXCEPT !.at = "test", !.batch = batch,
                                                      !.want = lines[c].want]]
      BY <1>4 DEF Look
    <2> DEFINE v == [worker[c] EXCEPT !.at = "test", !.batch = batch, !.want = lines[c].want]
    <2>2. batch \subseteq Fits[lines[c].want]
      BY DEF BatchOf, Eligible
    <2>3. worker[c] \in Worker
      BY <1>0, <1>4 DEF Look, AtStep
    <2>4. v.want = lines[c].want /\ v.batch = batch
      BY <2>3 DEF Worker
    <2>5. worker' = [worker EXCEPT ![c] = v] /\ ~AtStep(c, "wait") /\ UNCHANGED <<lines, click, test>>
      BY <1>4, <2>1 DEF Look, AtStep
    <2> HIDE DEF v
    <2> QED
      BY <1>1, <2>2, <2>4, <2>5 DEF WantsKept
  <1>5. CASE Forget(c)
    <2> DEFINE v == [worker[c] EXCEPT !.attempted = {}]
    <2>1. worker[c] \in Worker /\ worker[c].at = "look"
      BY <1>0, <1>5 DEF Forget, AtStep
    <2>2. v.at = "look"
      BY <2>1 DEF Worker
    <2>3. worker' = [worker EXCEPT ![c] = v] /\ ~AtStep(c, "wait") /\ UNCHANGED <<lines, click, test>>
      BY <1>5 DEF Forget, AtStep
    <2> HIDE DEF v
    <2> QED
      BY <1>1, <2>2, <2>3 DEF WantsKept
  <1>6. CASE Enter(c)
    <2> DEFINE batch == worker[c].batch
    <2>1. worker[c] \in Worker /\ worker[c].at = "test" /\ worker[c] # None
      BY <1>0, <1>6 DEF Enter, AtStep
    <2>2. batch \in SUBSET Nodes /\ BeginTest(c, "worker", batch) /\ click' = click
      BY <1>6, <2>1 DEF Enter, Worker
    <2> HIDE DEF batch
    <2>3. /\ test' \in Test /\ test'.by = "worker" /\ test'.line = c /\ test'.todo \subseteq batch
          /\ worker' \in [Ids -> Worker \cup {None}] /\ worker'[c] # None /\ worker'[c].at = "wait"
          /\ \A d \in Ids : lines'[d].want = lines[d].want
          /\ \A d \in Ids : worker[d] # None =>
                 /\ worker'[d] # None
                 /\ worker'[d].want = worker[d].want /\ worker'[d].batch = worker[d].batch
          /\ \A d \in Ids : worker[d] = None => worker'[d] = None
          /\ \A d \in Ids : worker[d] # None /\ d # c => worker'[d].at = worker[d].at
      BY <2>1, <2>2, BegunTest
    <2>4. \A d \in Ids : GoesOn(d)
      BY <2>1, <2>3 DEF GoesOn
    <2> QED
      BY <1>6, <2>2, <2>3, <2>4, NoneAssumption DEF WantsKept, batch
  <1>7. CASE NotTested(c)
    <2> DEFINE v == [worker[c] EXCEPT !.at = "judge"]
    <2>1. worker[c] \in Worker /\ worker[c].at = "test" /\ worker[c] # None
      BY <1>0, <1>7 DEF NotTested, AtStep
    <2>2. v \in Worker /\ v.want = worker[c].want /\ v.batch = worker[c].batch /\ v.at = "judge"
      BY <2>1 DEF Worker
    <2>3. worker' = [worker EXCEPT ![c] = v] /\ ~AtStep(c, "wait") /\ UNCHANGED <<lines, click, test>>
      BY <1>7, <2>1 DEF NotTested, AtStep
    <2> HIDE DEF v
    <2> QED
      BY <1>1, <2>1, <2>2, <2>3, NoneAssumption DEF WantsKept
  <1>8. CASE Judge(c)
    <2>1. /\ worker[c] \in Worker /\ worker[c].at = "judge" /\ worker[c] # None
          /\ ~AtStep(c, "wait") /\ UNCHANGED <<nodes, click, test>>
      BY <1>0, <1>8 DEF Judge, AtStep
    <2>2. CASE Winners(c) # {}
      <3> DEFINE v == None
      <3>1. MarkReady(c) /\ worker' = [worker EXCEPT ![c] = v] /\ v = None
        BY <1>8, <2>2 DEF Judge
      <3>2. WantsKept
        BY <1>0, <3>1, MarkReadyKeeps DEF WantsKept
      <3> HIDE DEF v
      <3> QED
        BY <1>1, <2>1, <3>1, <3>2
    <2>3. CASE Winners(c) = {}
      <3> DEFINE v == NextRound(c)
      <3>1. v.at = "look"
        BY <2>1 DEF NextRound, Worker
      <3>2. worker' = [worker EXCEPT ![c] = v] /\ UNCHANGED lines
        BY <1>8, <2>3 DEF Judge
      <3> HIDE DEF v
      <3> QED
        BY <1>1, <2>1, <3>1, <3>2 DEF WantsKept
    <2> QED
      BY <2>2, <2>3
  <1> QED
    BY <1>2, <1>3, <1>4, <1>5, <1>6, <1>7, <1>8 DEF WorkerStep

\* A step of the test.
LEMMA TestStepIs ==
    ASSUME TypeOK, TestStep
    PROVE  /\ WantsKept /\ ClickGoesOn
           /\ \A d \in Ids : GoesOn(d)
           /\ test' = None \/ TestGoesOn
  <1>0. /\ lines \in [Ids -> Line \cup {None}] /\ worker \in [Ids -> Worker \cup {None}]
        /\ test \in Test \cup {None} /\ click \in Click \cup {None}
    BY DEF TypeOK
  <1>1. ASSUME NEW n \in Nodes, worker' = Seen({n}) PROVE \A d \in Ids : GoesOn(d)
    <2>1. {n} \in SUBSET Nodes
      OBVIOUS
    <2> QED
      BY <1>0, <1>1, <2>1, SeenKeeps, NoneAssumption DEF GoesOn
  <1>2. ASSUME NEW n \in Nodes, Answers(n) \/ Fails(n) \/ Deferred(n)
        PROVE  TestGoesOn /\ UNCHANGED click
    <2>1. /\ test \in Test /\ test # None /\ UNCHANGED click
          /\ \/ test' = [test EXCEPT !.todo = @ \ {n}, !.release = FALSE]
             \/ test' = [test EXCEPT !.todo = @ \ {n}]
      BY <1>0, <1>2 DEF Answers, Fails, Deferred
    <2>2. /\ test' \in Test /\ test'.by = test.by /\ test'.line = test.line
          /\ test'.todo \subseteq test.todo /\ (test'.release => test.release)
      BY <2>1 DEF Test
    <2> QED
      BY <2>1, <2>2, NoneAssumption DEF TestGoesOn
  <1>3. ASSUME NEW n \in Nodes, Answers(n) PROVE WantsKept /\ \A d \in Ids : GoesOn(d)
    <2>1. CASE test.release
      <3>1. test.line \in Ids /\ MarkReady(test.line)
        BY <1>3, <2>1 DEF Answers, TypeOK
      <3> QED
        BY <1>0, <1>1, <1>3, <3>1, MarkReadyKeeps DEF Answers, WantsKept
    <2>2. CASE ~test.release
      BY <1>1, <1>3, <2>2 DEF Answers, WantsKept
    <2> QED
      BY <2>1, <2>2
  <1>4. ASSUME NEW n \in Nodes, Fails(n) PROVE WantsKept /\ \A d \in Ids : GoesOn(d)
    BY <1>1, <1>4 DEF Fails, WantsKept
  <1>5. ASSUME NEW n \in Nodes, Deferred(n) PROVE WantsKept /\ \A d \in Ids : GoesOn(d)
    BY <1>0, <1>5, UnseenType DEF Deferred, WantsKept, GoesOn
  <1>6. CASE Finish
    <2>1. test' = None /\ WantsKept
      BY <1>6 DEF Finish, WantsKept
    <2>2. ClickGoesOn
      BY <1>0, <1>6, NoneAssumption DEF Finish, ClickGoesOn, Click, TypeOK
    <2>3. CASE test.by = "worker"
      <3> DEFINE c == test.line  v == [worker[c] EXCEPT !.at = "judge"]
      <3>1. c \in Ids /\ worker[c] \in Worker /\ worker[c] # None /\ worker[c].at = "wait"
        BY <1>0, <1>6, <2>3 DEF Finish, AtStep, TypeOK
      <3>2. v \in Worker /\ v.want = worker[c].want /\ v.batch = worker[c].batch /\ v.at = "judge"
        BY <3>1 DEF Worker
      <3>3. worker' = [worker EXCEPT ![c] = v]
        BY <1>6, <2>3 DEF Finish
      <3> HIDE DEF c, v
      <3>4. \A d \in Ids : GoesOn(d)
        BY <1>0, <3>1, <3>2, <3>3, NoneAssumption DEF GoesOn
      <3> QED
        BY <2>1, <2>2, <3>4
    <2>4. CASE test.by # "worker"
      BY <1>6, <2>1, <2>2, <2>4 DEF Finish, GoesOn
    <2> QED
      BY <2>3, <2>4
  <1> QED
    BY <1>2, <1>3, <1>4, <1>5, <1>6 DEF TestStep, ClickGoesOn

-----------------------------------------------------------------------------
(* What a line is released for.                                              *)

\* The nodes in hand fit what they have been taken up for.
TakenInv ==
    /\ \A c \in Ids : worker[c] # None /\ worker[c].at # "look" =>
           worker[c].batch \subseteq Fits[worker[c].want]
    /\ test # None /\ test.by = "worker" => test.todo \subseteq Fits[worker[test.line].want]
    /\ test # None /\ test.by = "click" =>
           test.line = click.line /\ test.todo \subseteq OfCountry[click.want]
    /\ test # None /\ test.by = "page" => ~test.release

Taken == \A c \in Ids : Releases(c) => \E n \in TakenFor(c) : nodes'[n] = "available"

\* Lines that stay as they are are not released.
LEMMA NotReleased ==
    ASSUME UNCHANGED lines
    PROVE  Taken
  BY DEF Taken, Releases, Awaiting

LEMMA OneReleased ==
    ASSUME TypeOK, NEW c \in Ids, MarkReady(c), NEW n \in TakenFor(c), nodes'[n] = "available"
    PROVE  Taken
  <1>1. \A d \in Ids : d # c => lines'[d] = lines[d]
    BY MarkReadyKeeps DEF TypeOK
  <1> QED
    BY <1>1 DEF Taken, Releases, Awaiting

LEMMA TakenWorkerStep ==
    ASSUME TypeOK, TakenInv, NEW c \in Ids, WorkerStep(c)
    PROVE  TakenInv' /\ Taken
  <1>1. /\ UNCHANGED click /\ \A d \in Ids : d # c => GoesOn(d)
        /\ \/ test' = test /\ ~AtStep(c, "wait") /\ (GoesOn(c) \/ Anew(c))
           \/ /\ Enter(c) /\ GoesOn(c) /\ test' # None /\ test'.by = "worker"
              /\ test'.line = c /\ test'.todo \subseteq worker[c].batch
    BY WorkerStepIs
  <1>2. ASSUME NEW d \in Ids, worker'[d] # None, worker'[d].at # "look"
        PROVE  worker'[d].batch \subseteq Fits[worker'[d].want]
    BY <1>1, <1>2 DEF GoesOn, Anew, TakenInv
  <1>3. TakenInv'
    <2>1. CASE test' = test /\ ~AtStep(c, "wait")
      <3>1. test # None /\ test.by = "worker" =>
                test.line \in Ids /\ test.line # c /\ worker[test.line] # None
        BY <2>1 DEF TypeOK, AtStep
      <3>2. test # None /\ test.by = "worker" => worker'[test.line].want = worker[test.line].want
        BY <1>1, <3>1 DEF GoesOn
      <3> QED
        BY <1>1, <1>2, <2>1, <3>2 DEF TakenInv
    <2>2. CASE Enter(c) /\ GoesOn(c) /\ test' # None /\ test'.by = "worker"
               /\ test'.line = c /\ test'.todo \subseteq worker[c].batch
      <3>1. worker[c] # None /\ worker[c].at = "test"
        BY <2>2 DEF Enter, AtStep
      <3>2. worker[c].batch \subseteq Fits[worker'[c].want]
        BY <2>2, <3>1 DEF TakenInv, GoesOn
      <3> QED
        BY <1>2, <2>2, <3>2 DEF TakenInv
    <2> QED
      BY <1>1, <2>1, <2>2
  <1>4. CASE Enter(c)
    <2> DEFINE batch == worker[c].batch
    <2>1. worker[c] \in Worker /\ worker[c].at = "test" /\ worker[c] # None
      BY <1>4 DEF Enter, AtStep, TypeOK
    <2>2. batch \in SUBSET Nodes /\ BeginTest(c, "worker", batch)
      BY <1>4, <2>1 DEF Enter, Worker
    <2>3. batch \subseteq TakenFor(c)
      BY <2>1 DEF TakenInv, TakenFor
    <2> HIDE DEF batch
    <2>4. UNCHANGED lines \/ (MarkReady(c) /\ \E n \in batch : nodes'[n] = "available")
      BY <2>2, BegunRelease
    <2> QED
      BY <1>3, <2>3, <2>4, NotReleased, OneReleased
  <1>5. CASE Judge(c)
    <2>1. AtStep(c, "judge") /\ UNCHANGED nodes
      BY <1>5 DEF Judge
    <2>2. CASE Winners(c) # {}
      <3>1. PICK n \in Winners(c) : TRUE
        BY <2>2
      <3>2. n \in TakenFor(c) /\ nodes'[n] = "available"
        BY <2>1 DEF Winners, TakenFor, AtStep
      <3>3. MarkReady(c)
        BY <1>5, <2>2 DEF Judge
      <3> QED
        BY <1>3, <3>2, <3>3, OneReleased
    <2>3. CASE Winners(c) = {}
      BY <1>3, <1>5, <2>3, NotReleased DEF Judge
    <2> QED
      BY <2>2, <2>3
  <1>6. CASE Ensure(c) \/ Return(c) \/ Look(c) \/ Forget(c) \/ NotTested(c)
    BY <1>3, <1>6, NotReleased DEF Ensure, Return, Look, Forget, NotTested
  <1> QED
    BY <1>4, <1>5, <1>6 DEF WorkerStep

LEMMA TakenTestStep ==
    ASSUME TypeOK, TakenInv, TestStep
    PROVE  TakenInv' /\ Taken
  <1>1. ClickGoesOn /\ (\A d \in Ids : GoesOn(d)) /\ (test' = None \/ TestGoesOn)
    BY TestStepIs
  <1>2. ASSUME NEW d \in Ids, worker'[d] # None, worker'[d].at # "look"
        PROVE  worker'[d].batch \subseteq Fits[worker'[d].want]
    BY <1>1, <1>2 DEF GoesOn, TakenInv
  <1>3. TakenInv'
    <2>1. CASE test' = None
      BY <1>2, <2>1 DEF TakenInv
    <2>2. CASE TestGoesOn
      <3>1. test.by = "worker" => test.line \in Ids /\ worker[test.line] # None
        BY <2>2 DEF TestGoesOn, TypeOK, AtStep
      <3>2. test.by = "worker" => worker'[test.line].want = worker[test.line].want
        BY <1>1, <3>1 DEF GoesOn
      <3>3. test.by = "click" => /\ click # None /\ click' # None
                                 /\ click'.line = click.line /\ click'.want = click.want
        BY <1>1, <2>2 DEF TestGoesOn, TypeOK, ClickGoesOn
      <3> QED
        BY <1>2, <2>2, <3>2, <3>3 DEF TakenInv, TestGoesOn
    <2> QED
      BY <1>1, <2>1, <2>2
  <1>4. ASSUME NEW n \in Nodes, Answers(n) PROVE Taken
    <2>1. test # None /\ n \in test.todo /\ nodes' = [nodes EXCEPT ![n] = "available"]
      BY <1>4 DEF Answers
    <2>2. nodes'[n] = "available"
      BY <2>1 DEF TypeOK
    <2>3. CASE test.release
      <3>1. test.line \in Ids /\ MarkReady(test.line)
        BY <1>4, <2>3 DEF Answers, TypeOK
      <3>2. n \in TakenFor(test.line)
        BY <2>1, <2>3 DEF TakenInv, TakenFor, TypeOK, AtStep
      <3> QED
        BY <2>2, <3>1, <3>2, OneReleased
    <2>4. CASE ~test.release
      BY <1>4, <2>4, NotReleased DEF Answers
    <2> QED
      BY <2>3, <2>4
  <1>5. (\E n \in Nodes : Fails(n) \/ Deferred(n)) \/ Finish => UNCHANGED lines
    BY DEF Fails, Deferred, Finish
  <1> QED
    BY <1>3, <1>4, <1>5, NotReleased DEF TestStep

\* Another begins a test, or what a click has in hand changes: the workers go on.
LEMMA BegunByOthers ==
    ASSUME TypeOK, TakenInv, NEW line \in Ids \cup {None}, NEW by \in {"click", "page"},
           NEW ids \in SUBSET Nodes, BeginTest(line, by, ids)
    PROVE  /\ WantsKept /\ (\A d \in Ids : GoesOn(d))
           /\ \A d \in Ids : worker'[d] # None /\ worker'[d].at # "look" =>
                  worker'[d].batch \subseteq Fits[worker'[d].want]
           /\ test' # None /\ test'.by = by /\ test'.line = line /\ test'.todo \subseteq ids
           /\ test'.release => line \in Ids
  <1>1. /\ test' \in Test /\ test'.by = by /\ test'.line = line /\ test'.todo \subseteq ids
        /\ test'.release => line \in Ids
        /\ \A d \in Ids : lines'[d].want = lines[d].want
        /\ \A d \in Ids : worker[d] # None =>
               /\ worker'[d] # None
               /\ worker'[d].want = worker[d].want /\ worker'[d].batch = worker[d].batch
        /\ \A d \in Ids : worker[d] = None => worker'[d] = None
        /\ \A d \in Ids : worker[d] # None => worker'[d].at = worker[d].at
    BY BegunTest
  <1>2. \A d \in Ids : GoesOn(d)
    BY <1>1 DEF GoesOn
  <1> QED
    BY <1>1, <1>2, NoneAssumption DEF GoesOn, WantsKept, TakenInv

LEMMA TakenClickStep ==
    ASSUME TypeOK, TakenInv, ClickStep
    PROVE  TakenInv' /\ Taken
  <1>0. click # None /\ click \in Click /\ click.line \in Ids /\ OfCountry[click.want] \in SUBSET Nodes
        /\ Fits[click.want] \subseteq OfCountry[click.want]
    BY BootstrapAssumption DEF ClickStep, ClickEnters, ClickNotTested, ClickJudges, TypeOK, Click
  <1>1. CASE ClickEnters
    <2> DEFINE c == click.line  ids == OfCountry[click.want]
    <2>1. BeginTest(c, "click", ids) /\ click' = [click EXCEPT !.at = "wait"]
      BY <1>1 DEF ClickEnters
    <2>2. click'.line = click.line /\ click'.want = click.want
      BY <1>0, <2>1 DEF Click
    <2>3. c \in Ids /\ ids \in SUBSET Nodes /\ ids = OfCountry[click'.want] /\ c = click'.line
      BY <1>0, <2>2
    <2>4. ids \subseteq TakenFor(c)
      BY <1>0 DEF TakenFor
    <2> HIDE DEF c, ids
    <2>5. TakenInv'
      BY <2>1, <2>3, BegunByOthers DEF TakenInv
    <2>6. UNCHANGED lines \/ (MarkReady(c) /\ \E n \in ids : nodes'[n] = "available")
      BY <2>1, <2>3, BegunRelease
    <2> QED
      BY <2>3, <2>4, <2>5, <2>6, NotReleased, OneReleased
  <1>2. CASE ClickNotTested
    <2>1. click' = [click EXCEPT !.at = "judge"] /\ UNCHANGED <<lines, worker, test>>
      BY <1>2 DEF ClickNotTested
    <2>2. click'.line = click.line /\ click'.want = click.want
      BY <1>0, <2>1 DEF Click
    <2> QED
      BY <2>1, <2>2, NotReleased DEF TakenInv
  <1>3. CASE ClickJudges
    <2>1. UNCHANGED <<worker, test, nodes>> /\ click.at = "judge"
      BY <1>3 DEF ClickJudges
    <2>2. test # None => test.by # "click"
      BY <2>1 DEF TypeOK
    <2>3. TakenInv'
      BY <2>1, <2>2 DEF TakenInv
    <2>4. CASE UNCHANGED lines
      BY <2>3, <2>4, NotReleased
    <2>5. CASE MarkReady(click.line) /\ \E n \in Fits[click.want] : nodes[n] = "available"
      <3>1. PICK n \in Fits[click.want] : nodes[n] = "available"
        BY <2>5
      <3>2. n \in TakenFor(click.line) /\ nodes'[n] = "available"
        BY <1>0, <2>1, <3>1 DEF TakenFor
      <3> QED
        BY <1>0, <2>3, <2>5, <3>2, OneReleased
    <2> QED
      BY <1>3, <2>4, <2>5 DEF ClickJudges
  <1> QED
    BY <1>1, <1>2, <1>3 DEF ClickStep

LEMMA TakenAround ==
    ASSUME TypeOK, TakenInv, Around
    PROVE  TakenInv' /\ Taken
  <1>1. ASSUME NEW ids \in SUBSET Nodes, PageTest(ids) PROVE TakenInv' /\ Taken
    <2>1. BeginTest(None, "page", ids) /\ UNCHANGED click
      BY <1>1 DEF PageTest
    <2>2. UNCHANGED lines
      BY <2>1, BegunRelease, BootstrapAssumption
    <2> QED
      BY <2>1, <2>2, BegunByOthers, NotReleased, BootstrapAssumption DEF TakenInv
  <1>2. ASSUME NEW c \in Ids, ClickTest(c) PROVE TakenInv' /\ Taken
    <2>1. test = None /\ UNCHANGED <<lines, worker, test>>
      BY <1>2 DEF ClickTest
    <2> QED
      BY <2>1, NotReleased DEF TakenInv
  <1>3. ASSUME NEW c \in Ids, Delete(c) \/ \E want \in Wants : Save(c, want) PROVE TakenInv' /\ Taken
    <2>1. UNCHANGED <<worker, click, test>>
      BY <1>3 DEF Delete, Save
    <2>2. Taken
      BY <1>3 DEF Delete, Save, Taken, Releases, Awaiting, TypeOK
    <2> QED
      BY <2>1, <2>2 DEF TakenInv
  <1>4. ASSUME NEW n \in Nodes, CoolDown(n) \/ Use(n) \/ LeaveNode(n) PROVE TakenInv' /\ Taken
    <2>1. UNCHANGED <<lines, worker, click, test>>
      BY <1>4 DEF CoolDown, Use, LeaveNode
    <2> QED
      BY <2>1, NotReleased DEF TakenInv
  <1>5. CASE Crash
    <2>1. worker' = [c \in Ids |-> None] /\ test' = None /\ UNCHANGED lines
      BY <1>5 DEF Crash
    <2> QED
      BY <2>1, NotReleased DEF TakenInv
  <1> QED
    BY <1>1, <1>2, <1>3, <1>4, <1>5 DEF Around

LEMMA TakenNext ==
    ASSUME TypeOK, TakenInv, [Next]_vars
    PROVE  TakenInv' /\ Taken
  <1>1. CASE UNCHANGED vars
    <2>1. UNCHANGED <<lines, worker, click, test>>
      BY <1>1 DEF vars
    <2> QED
      BY <2>1, NotReleased DEF TakenInv
  <1> QED
    BY <1>1, TakenWorkerStep, TakenTestStep, TakenClickStep, TakenAround DEF Next

LEMMA TakenInvariant == Spec => []TakenInv
  <1>1. Init => TakenInv
    BY DEF Init, TakenInv
  <1>2. TypeOK /\ TakenInv /\ [Next]_vars => TakenInv'
    BY TakenNext
  <1> QED
    BY <1>1, <1>2, TypeCorrect, PTL DEF Spec

\* A line stops waiting only for an available node that its worker has taken up, for a
\* want it read from the line, or that is of the country the line had when its test was
\* asked for on the card: whatever tests overlap, fail or are put off, whatever is
\* edited meanwhile, and wherever the dashboard is killed.
THEOREM OwnNodeCorrect == Spec => ReleasedForOwnNode
  <1>1. TypeOK /\ TakenInv /\ [Next]_vars => [Taken]_vars
    BY TakenNext
  <1> QED
    BY <1>1, TypeCorrect, TakenInvariant, PTL DEF Spec, ReleasedForOwnNode, Taken

-----------------------------------------------------------------------------
(* When nobody asks for the test of a line and no line is changed.           *)

\* What a worker has taken up is for what the line wants.
SameWant ==
    /\ click = None
    /\ \A c \in Ids : worker[c] # None /\ worker[c].at # "look" => worker[c].want = lines[c].want

Wanted == \A c \in Ids : Releases(c) => \E n \in Fits[lines[c].want] : nodes'[n] = "available"

LEMMA SameWantNext ==
    ASSUME TypeOK, SameWant, "click" \notin Events, "edit" \notin Events, [Next]_vars
    PROVE  SameWant'
  <1>1. ASSUME WantsKept, click' = None, \A d \in Ids : GoesOn(d) \/ Anew(d) PROVE SameWant'
    BY <1>1 DEF SameWant, WantsKept, GoesOn, Anew
  <1>2. ASSUME UNCHANGED <<lines, worker, click>> PROVE SameWant'
    BY <1>2 DEF SameWant
  <1>3. ASSUME NEW c \in Ids, WorkerStep(c) PROVE SameWant'
    BY <1>1, <1>3, WorkerStepIs DEF SameWant
  <1>4. CASE TestStep
    BY <1>1, <1>4, TestStepIs DEF SameWant, ClickGoesOn
  <1>5. ASSUME NEW ids \in SUBSET Nodes, PageTest(ids) PROVE SameWant'
    <2>1. BeginTest(None, "page", ids) /\ UNCHANGED click
      BY <1>5 DEF PageTest
    <2>2. /\ \A d \in Ids : lines'[d].want = lines[d].want
          /\ \A d \in Ids : worker[d] # None =>
                 worker'[d].want = worker[d].want /\ worker'[d].at = worker[d].at
          /\ \A d \in Ids : worker[d] = None => worker'[d] = None
      BY <2>1, BegunTest
    <2> QED
      BY <2>1, <2>2 DEF SameWant
  <1>6. CASE Crash
    BY <1>6 DEF Crash, SameWant
  <1>7. CASE \E n \in Nodes : CoolDown(n) \/ Use(n) \/ LeaveNode(n)
    BY <1>2, <1>7 DEF CoolDown, Use, LeaveNode
  <1>8. CASE UNCHANGED vars
    BY <1>2, <1>8 DEF vars
  <1>9. ~ClickStep
    BY DEF SameWant, ClickStep, ClickEnters, ClickNotTested, ClickJudges
  <1>10. ASSUME NEW c \in Ids PROVE ~ClickTest(c) /\ ~Delete(c) /\ \A want \in Wants : ~Save(c, want)
    BY DEF ClickTest, Delete, Save, Occurs
  <1> QED
    BY <1>3, <1>4, <1>5, <1>6, <1>7, <1>8, <1>9, <1>10 DEF Next, Around

\* While no test is asked for on a line's card and no line is changed, a line stops
\* waiting only for an available node of its country that its policy accepts: whatever
\* tests overlap, fail or are put off, and wherever the dashboard is killed.
THEOREM AsWantedCorrect ==
    ASSUME "click" \notin Events, "edit" \notin Events
    PROVE  Spec => ReleasedAsWanted
  <1>1. Init => SameWant
    BY DEF Init, SameWant
  <1>2. TypeOK /\ SameWant /\ [Next]_vars => SameWant'
    BY SameWantNext
  <1>3. TypeOK /\ TakenInv /\ SameWant /\ [Next]_vars => [Wanted]_vars
    BY TakenNext DEF Taken, TakenFor, SameWant, Wanted
  <1> QED
    BY <1>1, <1>2, <1>3, TypeCorrect, TakenInvariant, PTL DEF Spec, ReleasedAsWanted, Wanted
============================================================================
