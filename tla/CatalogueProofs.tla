--------------------------- MODULE CatalogueProofs ---------------------------
(***************************************************************************)
(* Proofs about Catalogue: what is under test, what an update keeps and     *)
(* what a batch puts back, for every set of nodes, sources and offers.      *)
(***************************************************************************)
EXTENDS Catalogue, FiniteSetTheorems, TLAPS

States  == {"none", "not_checked", "pending", "testing", "available", "unavailable"}
Results == {"none", "deferred"} \cup Verdict

Task == [kind : {"none", "start", "update", "full", "batch", "page", "single"},
         at : {"none", "refill", "fetch", "store", "tidy", "rest", "test", "end"},
         got : SUBSET Nodes, asked : [Sources -> {"no", "ok", "failed", "large"}],
         todo : SUBSET Nodes, before : [Nodes -> States], result : [Nodes -> Results]]

Shape ==
    /\ listed \subseteq Nodes /\ recent \subseteq listed
    /\ aged \subseteq files /\ files \subseteq Nodes
    /\ black \subseteq Nodes /\ used \in Nodes \cup {None}
    /\ probe \in [Nodes -> States]
    /\ task \in Task

\* Who may find a node marked as under test: nobody at work or a test of the page, which
\* leave the marks of a test that was broken off; or the batch that tests the node, or
\* whose end is near.
MayMark(n) ==
    \/ task.kind \in {"none", "single", "page"}
    \/ /\ task.kind \in {"batch", "full"}
       /\ task.at = "end" \/ (task.at = "test" /\ n \in task.todo)

\* A node is in the list or has no state, and its mark is accounted for.
ProbesOK(p) ==
    \A n \in Nodes : /\ p[n] = "none" <=> n \notin listed
                     /\ p[n] = "testing" => MayMark(n)

\* Where a task is tells what it is, and what it has to do.
Placed(t) ==
    /\ t.kind = "none" <=> t.at = "none"
    /\ t.kind = "start" <=> t.at = "refill"
    /\ t.at \in {"fetch", "store"} => t.kind \in {"update", "full"}
    /\ t.at = "tidy" => t.kind = "update"
    /\ t.at = "rest" => t.kind = "full"
    /\ t.at \notin {"test", "end"} => t.todo = {} /\ t.result = NoResult
    /\ t.at = "refill" => t.got = {}

\* A test is of nodes in the list; what they were before is neither nothing nor
\* under test.
Tested(t, l) ==
    t.at = "test" =>
        /\ t.todo \subseteq l
        /\ \A n \in Nodes : t.result[n] # "none" => n \in t.todo
        /\ t.kind = "single" => t.result = NoResult
        /\ t.kind # "single" => \A n \in t.todo : t.before[n] \notin {"none", "testing"}

\* What an update has got is not on the blacklist, and no answer was too large.
Clear(t, b) ==
    /\ t.at \in {"fetch", "store"} => t.got \cap b = {}
    /\ t.at \in {"fetch", "store", "refill"} => \A s \in Sources : t.asked[s] # "large"

IInv ==
    /\ Shape
    /\ ProbesOK(probe)
    /\ Placed(task)
    /\ Tested(task, listed)
    /\ Clear(task, black)

LEMMA NoTaskIs ==
    /\ NoTask \in Task /\ NoTask.kind = "none" /\ NoTask.at = "none" /\ NoTask.got = {}
    /\ NoTask.todo = {} /\ NoTask.result = NoResult
    /\ \A s \in Sources : NoTask.asked[s] = "no"
  BY DEF NoTask, Task, Unasked, NoResult, Results, States

LEMMA ResetIs ==
    ASSUME NEW p \in [Nodes -> States]
    PROVE  /\ Reset(p) \in [Nodes -> States]
           /\ \A n \in Nodes : Reset(p)[n] = IF p[n] = "testing" THEN "not_checked" ELSE p[n]
  BY DEF Reset, States

\* The list and what is under test are as before; the task may have moved on.
LEMMA TaskMoves ==
    ASSUME IInv, UNCHANGED <<listed, probe, recent, files, aged, used, black>>,
           task' \in Task, Placed(task'), Tested(task', listed), Clear(task', black),
           task.at = "test" => task'.at = "end" \/ (task'.at = "test" /\ task'.todo = task.todo),
           task.at = "end" => task'.at = "end",
           task'.kind = task.kind \/ (task.kind = "none" /\ task'.kind = "single")
    PROVE  IInv'
  <1>1. Shape'
    BY DEF IInv, Shape
  <1>2. ProbesOK(probe)'
    BY DEF IInv, ProbesOK, MayMark
  <1>3. Placed(task)' /\ Tested(task, listed)' /\ Clear(task, black)'
    OBVIOUS
  <1> QED
    BY <1>1, <1>2, <1>3 DEF IInv

\* The end of a task.
LEMMA EndKeeps ==
    ASSUME IInv, End, task.kind \notin {"none", "start"},
           UNCHANGED <<listed, probe, recent, files, aged, used, black>>
    PROVE  IInv'
  <1> DEFINE t == [task EXCEPT !.at = "end"]
  <1>1. task' = t
    BY DEF End
  <1>2. t \in Task /\ t.kind = task.kind /\ t.at = "end"
    BY DEF IInv, Shape, Task
  <1> HIDE DEF t
  <1>3. Placed(t) /\ Tested(t, listed) /\ Clear(t, black)
    BY <1>2 DEF Placed, Tested, Clear
  <1>4. task' \in Task /\ Placed(task') /\ Tested(task', listed) /\ Clear(task', black)
    BY <1>1, <1>2, <1>3
  <1>5. task'.at = "end" /\ task'.kind = task.kind
    BY <1>1, <1>2
  <1> QED
    BY <1>4, <1>5, TaskMoves DEF End

\* Nobody holds the lock.
LEMMA FreeIs ==
    ASSUME IInv, Free
    PROVE  task.at = "none" /\ task.todo = {}
  BY DEF IInv, Free, Placed

LEMMA TakeKeeps ==
    ASSUME IInv, NEW kind \in {"update", "full"}, Take(kind, "fetch"),
           UNCHANGED <<listed, recent, files, aged, used, black>>
    PROVE  IInv'
  <1> DEFINE t == [NoTask EXCEPT !.kind = kind, !.at = "fetch"]
  <1>1. /\ t \in Task /\ t.kind = kind /\ t.at = "fetch" /\ t.todo = {} /\ t.got = {}
        /\ t.result = NoResult /\ \A s \in Sources : t.asked[s] = "no"
    BY NoTaskIs DEF Task
  <1>2. task' = t /\ probe' = Reset(probe)
    BY DEF Take
  <1> HIDE DEF t
  <1>3. Placed(t) /\ Tested(t, listed) /\ Clear(t, black)
    BY <1>1 DEF Placed, Tested, Clear
  <1>4. /\ probe' \in [Nodes -> States] /\ \A n \in Nodes : probe'[n] # "testing"
        /\ \A n \in Nodes : probe'[n] = "none" <=> probe[n] = "none"
    BY <1>2, ResetIs DEF IInv, Shape
  <1>5. ProbesOK(probe)'
    BY <1>4 DEF IInv, ProbesOK
  <1> QED
    BY <1>1, <1>2, <1>3, <1>4, <1>5 DEF IInv, Shape

LEMMA AnswerKeeps ==
    ASSUME IInv, NEW s \in Sources, Answer(s) \/ NoAnswer(s)
    PROVE  IInv'
  <1>1. /\ task.at = "fetch" /\ task \in Task /\ black \subseteq Nodes
        /\ UNCHANGED <<listed, probe, recent, files, aged, used, black>>
    BY DEF Answer, NoAnswer, MayAsk, catalogue, cache, halt, IInv, Shape
  <1>2. PICK got \in SUBSET Nodes, word \in {"ok", "failed"} :
            /\ task' = [task EXCEPT !.asked[s] = word, !.got = got]
            /\ got \cap black = {}
    <2>1. CASE Answer(s)
      <3>1. task' = [task EXCEPT !.asked[s] = "ok", !.got = task.got \cup (Offer[s] \ black)]
        BY <2>1 DEF Answer
      <3>2. Offer[s] \subseteq Nodes /\ task.got \subseteq Nodes /\ task.got \cap black = {}
        BY <1>1, CatalogueAssumption DEF Task, IInv, Clear
      <3> QED
        BY <3>1, <3>2
    <2>2. CASE NoAnswer(s)
      <3>1. task' = [task EXCEPT !.asked[s] = "failed", !.got = task.got]
        BY <1>1, <2>2 DEF NoAnswer, Task
      <3>2. task.got \subseteq Nodes /\ task.got \cap black = {}
        BY <1>1 DEF Task, IInv, Clear
      <3> QED
        BY <3>1, <3>2
    <2> QED
      BY <2>1, <2>2
  <1> DEFINE t == [task EXCEPT !.asked[s] = word, !.got = got]
  <1>3. /\ t \in Task /\ t.kind = task.kind /\ t.at = "fetch" /\ t.got = got
        /\ t.todo = task.todo /\ t.result = task.result
        /\ \A r \in Sources : t.asked[r] = IF r = s THEN word ELSE task.asked[r]
    BY <1>1 DEF Task
  <1>4. task' = t
    BY <1>2
  <1> HIDE DEF t
  <1>5. Placed(t) /\ Tested(t, listed) /\ Clear(t, black)
    BY <1>1, <1>2, <1>3 DEF Placed, Tested, Clear, IInv
  <1> QED
    BY <1>1, <1>3, <1>4, <1>5, TaskMoves

LEMMA TooLargeKeeps ==
    ASSUME IInv, NEW s \in Sources, TooLarge(s)
    PROVE  IInv'
  <1> DEFINE t == [task EXCEPT !.asked[s] = "large", !.at = "end"]
  <1>1. /\ task.at = "fetch" /\ task' = t
        /\ UNCHANGED <<listed, probe, recent, files, aged, used, black>>
    BY DEF TooLarge, MayAsk, catalogue, cache
  <1>2. t \in Task /\ t.kind = task.kind /\ t.at = "end"
    BY DEF IInv, Shape, Task
  <1> HIDE DEF t
  <1>3. Placed(t) /\ Tested(t, listed) /\ Clear(t, black)
    BY <1>1, <1>2 DEF Placed, Tested, Clear, IInv
  <1> QED
    BY <1>1, <1>2, <1>3, TaskMoves

LEMMA ProceedKeeps ==
    ASSUME IInv, NEW got \in SUBSET Nodes, got \cap black = {}, Proceed(got),
           task.at = "fetch",
           UNCHANGED <<listed, probe, recent, files, aged, used, black>>
    PROVE  IInv'
  <1>1. CASE GoesOn(got)
    <2> DEFINE t == [task EXCEPT !.at = "store", !.got = got]
    <2>1. task' = t
      BY <1>1 DEF Proceed
    <2>2. /\ t \in Task /\ t.kind = task.kind /\ t.at = "store" /\ t.got = got
          /\ t.todo = task.todo /\ t.result = task.result /\ t.asked = task.asked
      BY DEF IInv, Shape, Task
    <2> HIDE DEF t
    <2>3. Placed(t) /\ Tested(t, listed) /\ Clear(t, black)
      BY <2>2 DEF Placed, Tested, Clear, IInv
    <2> QED
      BY <2>1, <2>2, <2>3, TaskMoves
  <1>2. CASE ~GoesOn(got)
    <2>1. End
      BY <1>2 DEF Proceed
    <2>2. task.kind \notin {"none", "start"}
      BY DEF IInv, Placed
    <2> QED
      BY <2>1, <2>2, EndKeeps
  <1> QED
    BY <1>1, <1>2

-----------------------------------------------------------------------------
(* The new list.                                                             *)

LEMMA MergedIs ==
    ASSUME Shape, NEW got \in SUBSET Nodes
    PROVE  /\ Merged(got) \subseteq Nodes /\ Active \subseteq listed /\ Retained \subseteq listed
           /\ Active \cup got \cup Retained = Merged(got)
  BY DEF Shape, Merged, Active, Retained

\* What an update makes of the list while nothing is under test.
LEMMA StoresIs ==
    ASSUME IInv, NEW got \in SUBSET Nodes, Stores(got), \A n \in Nodes : probe[n] # "testing"
    PROVE  /\ listed' \subseteq Nodes /\ recent' \subseteq listed'
           /\ aged' \subseteq files' /\ files' \subseteq Nodes
           /\ probe' \in [Nodes -> States]
           /\ \A n \in Nodes : probe'[n] # "testing" /\ (probe'[n] = "none" <=> n \notin listed')
           /\ Active \subseteq listed'
           /\ Cardinality(listed') < Cap => Retained \subseteq listed'
           /\ \A n \in (Active \cup Retained) \cap listed' : probe'[n] = probe[n]
           /\ listed' \cap black \subseteq listed \cup got
  <1>0. /\ Shape /\ \A n \in Nodes : probe[n] = "none" <=> n \notin listed
    BY DEF IInv, ProbesOK
  <1>00. PICK back \in Recovered(got) :
            \E K \in CutTo(got, Merged(got) \cup back) :
                LET new == (got \ Active) \cap K IN
                /\ listed' = K
                /\ recent' = (recent \cup new \cup back) \cap K
                /\ probe' = Probes(got, back, K)
                /\ \E lost \in SUBSET new :
                      /\ IF lost = {} THEN UNCHANGED left ELSE Occurs("disk")
                      /\ files' = files \cup (new \ lost)
                      /\ aged' = aged \ (new \ lost)
    BY Zenon DEF Stores
  <1>1. PICK K \in CutTo(got, Merged(got) \cup back) :
            LET new == (got \ Active) \cap K IN
            /\ listed' = K
            /\ recent' = (recent \cup new \cup back) \cap K
            /\ probe' = Probes(got, back, K)
            /\ \E lost \in SUBSET new :
                  /\ files' = files \cup (new \ lost)
                  /\ aged' = aged \ (new \ lost)
    BY <1>00
  <1> DEFINE new == (got \ Active) \cap K
             all == Merged(got) \cup back
  <1>2. back \subseteq files /\ back \cap Merged(got) = {} /\ back \cap black = {}
    BY <1>1 DEF Recovered
  <1>3. K \subseteq all /\ Active \subseteq K /\ Cardinality(K) = Smaller(Cap, Cardinality(all))
    BY <1>1 DEF CutTo
  <1>4. all \subseteq Nodes /\ K \subseteq Nodes
    BY <1>0, <1>2, <1>3, MergedIs DEF Shape
  <1>5. listed' \subseteq Nodes /\ recent' \subseteq listed'
    BY <1>1, <1>4
  <1>6. aged' \subseteq files' /\ files' \subseteq Nodes
    BY <1>0, <1>1, <1>4 DEF Shape
  <1>7. \A n \in Nodes : probe'[n] = IF n \in K \cap ((got \ listed) \cup back) THEN "not_checked"
                                     ELSE IF n \in K THEN probe[n] ELSE "none"
    BY <1>1 DEF Probes
  <1>8. probe' \in [Nodes -> States]
    <2>1. probe' = [n \in Nodes |-> probe'[n]]
      BY <1>1 DEF Probes
    <2>2. \A n \in Nodes : probe'[n] \in States
      BY <1>0, <1>7 DEF Shape, States
    <2> QED
      BY <2>1, <2>2
  <1>9. ASSUME NEW n \in K, n \notin (got \ listed) \cup back PROVE n \in listed
    BY <1>0, <1>3, <1>9, MergedIs
  <1>10. \A n \in Nodes : probe'[n] # "testing" /\ (probe'[n] = "none" <=> n \notin listed')
    BY <1>0, <1>1, <1>7, <1>9
  <1>11. Cardinality(K) < Cap => K = all
    <2>1. IsFiniteSet(all) /\ IsFiniteSet(K)
      BY <1>4, CatalogueAssumption, FS_Subset
    <2>2. Cardinality(all) \in Nat /\ Cardinality(K) \in Nat
      BY <2>1, FS_CardinalityType
    <2>3. Cardinality(K) < Cap => Cardinality(K) = Cardinality(all)
      BY <1>3, <2>2, CatalogueAssumption DEF Smaller
    <2> QED
      BY <1>3, <2>1, <2>3, FS_Subset
  <1>12. Cardinality(listed') < Cap => Retained \subseteq listed'
    BY <1>0, <1>1, <1>11, MergedIs
  <1>13. ASSUME NEW n \in (Active \cup Retained) \cap listed' PROVE probe'[n] = probe[n]
    <2>1. n \in listed /\ n \in Merged(got) /\ n \in Nodes /\ n \in K
      BY <1>0, <1>1, <1>4, MergedIs
    <2> QED
      BY <1>2, <1>7, <2>1
  <1>14. listed' \cap black \subseteq listed \cup got
    BY <1>0, <1>1, <1>2, <1>3, MergedIs
  <1> QED
    BY <1>1, <1>3, <1>5, <1>6, <1>8, <1>10, <1>12, <1>13, <1>14

LEMMA StoreKeeps == ASSUME IInv, Store PROVE IInv'
  <1>1. /\ task.at = "store" /\ Stores(task.got) /\ black' = black /\ used' = used
        /\ task.got \in SUBSET Nodes /\ \A n \in Nodes : probe[n] # "testing"
    BY DEF Store, halt, IInv, Shape, Task, ProbesOK, MayMark, Placed
  <1>2. PICK at \in {"rest", "end", "tidy"} :
            task' = [task EXCEPT !.at = at] /\ (at = "rest" <=> task.kind = "full")
    BY DEF Store
  <1> DEFINE t == [task EXCEPT !.at = at]
  <1>3. /\ t \in Task /\ t.kind = task.kind /\ t.at = at /\ t.got = task.got
        /\ t.todo = task.todo /\ t.result = task.result
    BY DEF IInv, Shape, Task
  <1>4. task' = t
    BY <1>2
  <1> HIDE DEF t
  <1>5. Placed(t) /\ Tested(t, listed') /\ Clear(t, black)
    BY <1>1, <1>2, <1>3 DEF IInv, Placed, Tested, Clear
  <1>6. Shape'
    BY <1>1, <1>3, <1>4, StoresIs DEF IInv, Shape
  <1>7. ProbesOK(probe)'
    BY <1>1, StoresIs DEF ProbesOK
  <1> QED
    BY <1>1, <1>4, <1>5, <1>6, <1>7 DEF IInv

LEMMA TidyKeeps == ASSUME IInv, Tidy PROVE IInv'
  <1> DEFINE t == [task EXCEPT !.at = "end"]
  <1>1. /\ task.at = "tidy" /\ task' = t /\ files' \in {files, files \ (aged \ listed)}
        /\ aged' = aged \cap files' /\ UNCHANGED <<listed, probe, recent, used, black>>
    BY DEF Tidy, End, catalogue
  <1>2. t \in Task /\ t.kind = task.kind /\ t.at = "end"
    BY DEF IInv, Shape, Task
  <1> HIDE DEF t
  <1>3. Placed(t) /\ Tested(t, listed) /\ Clear(t, black)
    BY <1>1, <1>2 DEF Placed, Tested, Clear, IInv
  <1>4. Shape'
    BY <1>1, <1>2 DEF IInv, Shape
  <1>5. ProbesOK(probe)'
    BY <1>1, <1>2 DEF IInv, ProbesOK, MayMark
  <1> QED
    BY <1>1, <1>3, <1>4, <1>5 DEF IInv

LEMMA RefillKeeps == ASSUME IInv, Refill PROVE IInv'
  <1>1. /\ task.at = "refill" /\ task' = NoTask /\ black' = black /\ used' = used
        /\ \A n \in Nodes : probe[n] # "testing"
    BY DEF Refill, halt, IInv, ProbesOK, MayMark, Placed
  <1>2. Placed(NoTask) /\ Tested(NoTask, listed') /\ Clear(NoTask, black)
    BY NoTaskIs DEF Placed, Tested, Clear
  <1>3. CASE Stores({})
    <2>1. Shape'
      BY <1>1, <1>3, NoTaskIs, StoresIs DEF IInv, Shape
    <2>2. ProbesOK(probe)'
      BY <1>1, <1>3, StoresIs DEF ProbesOK
    <2> QED
      BY <1>1, <1>2, <2>1, <2>2 DEF IInv
  <1>4. CASE UNCHANGED <<catalogue, cache>>
    <2>1. UNCHANGED <<listed, probe, recent, files, aged>>
      BY <1>4 DEF catalogue, cache
    <2>2. Shape' /\ ProbesOK(probe)'
      BY <1>1, <2>1, NoTaskIs DEF IInv, Shape, ProbesOK, MayMark
    <2> QED
      BY <1>1, <1>2, <2>2 DEF IInv
  <1> QED
    BY <1>3, <1>4 DEF Refill

LEMMA ReleaseKeeps == ASSUME IInv, Release PROVE IInv'
  <1>1. /\ task' = NoTask /\ probe' \in {probe, Reset(probe)} /\ probe \in [Nodes -> States]
        /\ UNCHANGED <<listed, recent, files, aged, used, black>>
    BY DEF Release, cache, halt, IInv, Shape
  <1>2. Placed(NoTask) /\ Tested(NoTask, listed) /\ Clear(NoTask, black)
    BY NoTaskIs DEF Placed, Tested, Clear
  <1>3. Shape'
    BY <1>1, NoTaskIs, ResetIs DEF IInv, Shape
  <1>4. ProbesOK(probe)'
    BY <1>1, NoTaskIs, ResetIs DEF IInv, ProbesOK, MayMark
  <1> QED
    BY <1>1, <1>2, <1>3, <1>4 DEF IInv

-----------------------------------------------------------------------------
(* Tests.                                                                    *)

LEMMA MarkedIs ==
    ASSUME NEW p \in [Nodes -> States], NEW t \in Task, NEW todo \in SUBSET Nodes
    PROVE  LET m == Marked(t, p, todo) IN
           /\ m \in Task /\ m.kind = t.kind /\ m.at = "test" /\ m.todo = todo
           /\ m.result = t.result /\ m.got = t.got /\ m.asked = t.asked
           /\ \A n \in todo : m.before[n] = IF p[n] = "testing" THEN "pending" ELSE p[n]
  <1> DEFINE before == [n \in Nodes |-> IF n \notin todo THEN "none"
                                        ELSE IF p[n] = "testing" THEN "pending"
                                        ELSE p[n]]
             m == [t EXCEPT !.at = "test", !.todo = todo, !.before = before]
  <1>1. before \in [Nodes -> States]
    BY DEF States
  <1>2. \A n \in todo : before[n] = IF p[n] = "testing" THEN "pending" ELSE p[n]
    OBVIOUS
  <1>3. Marked(t, p, todo) = m
    BY DEF Marked
  <1> HIDE DEF before
  <1>4. /\ m \in Task /\ m.kind = t.kind /\ m.at = "test" /\ m.todo = todo
        /\ m.result = t.result /\ m.got = t.got /\ m.asked = t.asked /\ m.before = before
    BY <1>1 DEF Task
  <1> QED
    BY <1>2, <1>3, <1>4

\* A test begins from the states p; only the page's begins with marks in them.
LEMMA MarkKeeps ==
    ASSUME IInv, NEW t \in Task, NEW todo \in SUBSET listed, NEW p \in [Nodes -> States],
           t.kind \in {"full", "batch", "page"}, t.result = NoResult,
           \A n \in Nodes : p[n] = "none" <=> n \notin listed,
           t.kind # "page" => \A n \in Nodes : p[n] # "testing",
           task' = Marked(t, p, todo), Mark(p, todo),
           UNCHANGED <<listed, recent, files, aged, used, black>>
    PROVE  IInv'
  <1>0. Shape /\ todo \in SUBSET Nodes /\ todo \subseteq listed
    BY DEF IInv, Shape
  <1>1. /\ task' \in Task /\ task'.kind = t.kind /\ task'.at = "test" /\ task'.todo = todo
        /\ task'.result = NoResult
        /\ \A n \in todo : task'.before[n] = IF p[n] = "testing" THEN "pending" ELSE p[n]
    BY <1>0, MarkedIs
  <1>2. \A n \in todo : task'.before[n] \notin {"none", "testing"}
    BY <1>0, <1>1
  <1>3. Placed(task')
    BY <1>1 DEF Placed
  <1>4. Tested(task', listed)
    BY <1>0, <1>1, <1>2 DEF Tested, NoResult
  <1>5. Clear(task', black)
    BY <1>1 DEF Clear
  <1>6. \A n \in Nodes : probe'[n] = IF n \in todo /\ p[n] # "unavailable" THEN "testing"
                                     ELSE p[n]
    BY DEF Mark
  <1>7. probe' \in [Nodes -> States]
    <2>1. probe' = [n \in Nodes |-> probe'[n]]
      BY DEF Mark
    <2>2. \A n \in Nodes : probe'[n] \in States
      BY <1>6 DEF States
    <2> QED
      BY <2>1, <2>2
  <1>8. ProbesOK(probe)'
    BY <1>0, <1>1, <1>6 DEF ProbesOK, MayMark
  <1>9. Shape'
    BY <1>0, <1>1, <1>7 DEF Shape
  <1> QED
    BY <1>3, <1>4, <1>5, <1>8, <1>9 DEF IInv

LEMMA BatchKeeps ==
    ASSUME IInv, NEW ids \in SUBSET Nodes, BeginBatch(ids) \/ BeginPage(ids) \/ NextBatch(ids)
    PROVE  IInv'
  <1>0. /\ Asked(ids) \in SUBSET listed /\ probe \in [Nodes -> States] /\ Reset(probe) \in [Nodes -> States]
        /\ \A n \in Nodes : probe[n] = "none" <=> n \notin listed
        /\ \A n \in Nodes : Reset(probe)[n] = "none" <=> n \notin listed
        /\ \A n \in Nodes : Reset(probe)[n] # "testing"
    BY ResetIs DEF IInv, Shape, ProbesOK, Asked
  <1>1. ASSUME NEW kind \in {"batch", "page"}
        PROVE  LET t == [NoTask EXCEPT !.kind = kind] IN
               t \in Task /\ t.kind = kind /\ t.result = NoResult
    BY NoTaskIs DEF Task
  <1>2. CASE BeginBatch(ids)
    <2> DEFINE t == [NoTask EXCEPT !.kind = "batch"]
    <2>1. t \in Task /\ t.kind = "batch" /\ t.result = NoResult
      BY <1>1
    <2>2. /\ task' = Marked(t, Reset(probe), Asked(ids)) /\ Mark(Reset(probe), Asked(ids))
          /\ UNCHANGED <<listed, recent, files, aged, used, black>>
      BY <1>2 DEF BeginBatch, cache
    <2> HIDE DEF t
    <2> QED
      BY <1>0, <2>1, <2>2, MarkKeeps
  <1>3. CASE BeginPage(ids)
    <2> DEFINE t == [NoTask EXCEPT !.kind = "page"]
    <2>1. t \in Task /\ t.kind = "page" /\ t.result = NoResult
      BY <1>1
    <2>2. /\ task' = Marked(t, probe, Asked(ids)) /\ Mark(probe, Asked(ids))
          /\ UNCHANGED <<listed, recent, files, aged, used, black>>
      BY <1>3 DEF BeginPage, cache
    <2> HIDE DEF t
    <2> QED
      BY <1>0, <2>1, <2>2, MarkKeeps
  <1>4. CASE NextBatch(ids)
    <2>1. /\ task.at = "rest" /\ task' = Marked(task, probe, Asked(ids)) /\ Mark(probe, Asked(ids))
          /\ UNCHANGED <<listed, recent, files, aged, used, black>>
      BY <1>4 DEF NextBatch, cache
    <2>2. /\ task \in Task /\ task.kind = "full" /\ task.result = NoResult
          /\ \A n \in Nodes : probe[n] # "testing"
      BY <2>1 DEF IInv, Shape, Placed, ProbesOK, MayMark
    <2> QED
      BY <1>0, <2>1, <2>2, MarkKeeps
  <1> QED
    BY <1>2, <1>3, <1>4

LEMMA OverlayIs ==
    ASSUME IInv, task.at = "test", task.kind # "single", NEW r \in [Nodes -> Results],
           \A n \in Nodes : r[n] # "none" => n \in task.todo
    PROVE  /\ Overlay(r) \in [Nodes -> States]
           /\ \A n \in Nodes :
                 /\ Overlay(r)[n] = "none" <=> n \notin listed
                 /\ Overlay(r)[n] = "testing" => probe[n] = "testing" /\ r[n] = "none"
                 /\ n \in task.todo /\ r[n] = "deferred" => Overlay(r)[n] = task.before[n]
  <1>1. /\ task.todo \subseteq listed /\ listed \subseteq Nodes
        /\ probe \in [Nodes -> States] /\ task.before \in [Nodes -> States]
        /\ \A n \in task.todo : task.before[n] \notin {"none", "testing"}
        /\ \A n \in Nodes : probe[n] = "none" <=> n \notin listed
    BY DEF IInv, Shape, Tested, ProbesOK, Task
  <1>2. ASSUME NEW n \in Nodes
        PROVE  Overlay(r)[n] = IF n \notin listed THEN probe[n]
                               ELSE IF r[n] \in Verdict THEN r[n]
                               ELSE IF r[n] = "deferred" THEN task.before[n]
                               ELSE probe[n]
    <2>1. Overlay(r)[n] = CASE n \notin listed       -> probe[n]
                            [] r[n] \in Verdict      -> r[n]
                            [] r[n] = "deferred"     -> task.before[n]
                            [] OTHER                 -> probe[n]
      BY <1>2 DEF Overlay
    <2>2. n \notin listed => r[n] = "none"
      BY <1>1, <1>2
    <2>3. r[n] \in Verdict => r[n] # "deferred"
      BY DEF Verdict
    <2>4. CASE n \notin listed
      <3>1. r[n] \notin Verdict /\ r[n] # "deferred"
        BY <2>2, <2>4 DEF Verdict
      <3> QED
        BY <2>1, <2>4, <3>1
    <2>5. CASE n \in listed /\ r[n] \in Verdict
      BY <2>1, <2>3, <2>5
    <2>6. CASE n \in listed /\ r[n] = "deferred"
      BY <2>1, <2>3, <2>6
    <2>7. CASE n \in listed /\ r[n] \notin Verdict /\ r[n] # "deferred"
      BY <2>1, <2>7
    <2> QED
      BY <2>4, <2>5, <2>6, <2>7
  <1>3. ASSUME NEW n \in Nodes
        PROVE  /\ Overlay(r)[n] \in States
               /\ Overlay(r)[n] = "none" <=> n \notin listed
               /\ Overlay(r)[n] = "testing" => probe[n] = "testing" /\ r[n] = "none"
               /\ n \in task.todo /\ r[n] = "deferred" => Overlay(r)[n] = task.before[n]
    BY <1>1, <1>2 DEF States, Results, Verdict
  <1>4. Overlay(r) = [n \in Nodes |-> Overlay(r)[n]]
    BY DEF Overlay
  <1> QED
    BY <1>3, <1>4

LEMMA TestNodeKeeps ==
    ASSUME IInv, NEW n \in Nodes, TestNode(n)
    PROVE  IInv'
  <1>1. PICK r \in Verdict \cup {"deferred"}, flush \in BOOLEAN :
            /\ task' = [task EXCEPT !.result[n] = r]
            /\ probe' = IF flush THEN Overlay(task'.result) ELSE probe
    BY DEF TestNode
  <1>2. /\ task.at = "test" /\ task.kind # "single" /\ n \in task.todo
        /\ UNCHANGED <<listed, recent, files, aged, used, black>>
    BY DEF TestNode, cache
  <1> DEFINE t == [task EXCEPT !.result[n] = r]
  <1>3. /\ t \in Task /\ t.kind = task.kind /\ t.at = "test" /\ t.todo = task.todo
        /\ t.before = task.before /\ t.result \in [Nodes -> Results]
        /\ \A m \in Nodes : t.result[m] = IF m = n THEN r ELSE task.result[m]
    BY <1>2 DEF IInv, Shape, Task, Results
  <1>4. task' = t
    BY <1>1
  <1> HIDE DEF t
  <1>5. Placed(t) /\ Clear(t, black)
    BY <1>2, <1>3 DEF IInv, Placed, Clear
  <1>6. Tested(t, listed)
    BY <1>2, <1>3 DEF IInv, Tested
  <1>7. \A m \in Nodes : t.result[m] # "none" => m \in task.todo
    BY <1>3, <1>6 DEF Tested
  <1>8. /\ probe' \in [Nodes -> States]
        /\ \A m \in Nodes : /\ probe'[m] = "none" <=> m \notin listed
                            /\ probe'[m] = "testing" => probe[m] = "testing"
    <2>1. CASE probe' = probe
      BY <2>1 DEF IInv, Shape, ProbesOK
    <2>2. CASE probe' = Overlay(t.result)
      BY <1>2, <1>3, <1>7, <2>2, OverlayIs
    <2> QED
      BY <1>1, <1>4, <2>1, <2>2
  <1>9. ProbesOK(probe)'
    BY <1>2, <1>3, <1>4, <1>8 DEF IInv, ProbesOK, MayMark
  <1>10. Shape'
    BY <1>2, <1>3, <1>4, <1>8 DEF IInv, Shape
  <1> QED
    BY <1>2, <1>4, <1>5, <1>6, <1>9, <1>10 DEF IInv

LEMMA EndBatchKeeps ==
    ASSUME IInv, EndBatch
    PROVE  IInv'
  <1>1. /\ task.at = "test" /\ task.kind # "single" /\ probe' = Overlay(task.result)
        /\ \A n \in task.todo : task.result[n] # "none"
        /\ UNCHANGED <<listed, recent, files, aged, used, black>>
    BY DEF EndBatch, cache
  <1>2. PICK at \in {"rest", "end"} :
            /\ task' = [task EXCEPT !.at = at, !.todo = {}, !.before = NoResult, !.result = NoResult]
            /\ at = "rest" <=> task.kind = "full"
    BY DEF EndBatch
  <1> DEFINE t == [task EXCEPT !.at = at, !.todo = {}, !.before = NoResult, !.result = NoResult]
  <1>3. NoResult \in [Nodes -> States] /\ NoResult \in [Nodes -> Results]
    BY DEF NoResult, States, Results
  <1>4. t \in Task /\ t.kind = task.kind /\ t.at = at /\ t.todo = {} /\ t.result = NoResult
    BY <1>3 DEF IInv, Shape, Task
  <1>5. task' = t
    BY <1>2
  <1> HIDE DEF t
  <1>6. Placed(t) /\ Tested(t, listed) /\ Clear(t, black)
    BY <1>1, <1>2, <1>4 DEF IInv, Placed, Tested, Clear
  <1>7. /\ task.result \in [Nodes -> Results]
        /\ \A n \in Nodes : task.result[n] # "none" => n \in task.todo
    BY <1>1 DEF IInv, Shape, Task, Tested
  <1>8. /\ probe' \in [Nodes -> States]
        /\ \A n \in Nodes : /\ probe'[n] = "none" <=> n \notin listed
                            /\ probe'[n] = "testing" => probe[n] = "testing" /\ n \notin task.todo
    BY <1>1, <1>7, OverlayIs DEF IInv, ProbesOK
  <1>9. ProbesOK(probe)'
    BY <1>1, <1>4, <1>5, <1>8 DEF ProbesOK, IInv, MayMark
  <1>10. Shape'
    BY <1>1, <1>4, <1>5, <1>8 DEF IInv, Shape
  <1> QED
    BY <1>1, <1>5, <1>6, <1>9, <1>10 DEF IInv

LEMMA SingleKeeps ==
    ASSUME IInv, EndSingle \/ \E n \in Nodes : BeginSingle(n)
    PROVE  IInv'
  <1>1. ASSUME NEW n \in Nodes, BeginSingle(n) PROVE IInv'
    <2> DEFINE t == [NoTask EXCEPT !.kind = "single", !.at = "test", !.todo = {n}]
    <2>1. /\ Free /\ n \in listed /\ task' = t
          /\ UNCHANGED <<listed, probe, recent, files, aged, used, black>>
      BY <1>1 DEF BeginSingle, catalogue, cache
    <2>2. t \in Task /\ t.kind = "single" /\ t.at = "test" /\ t.todo = {n} /\ t.result = NoResult
      BY NoTaskIs DEF Task
    <2> HIDE DEF t
    <2>3. Placed(t) /\ Tested(t, listed) /\ Clear(t, black)
      BY <2>1, <2>2 DEF Placed, Tested, Clear, NoResult
    <2>4. task.at = "none" /\ task.kind = "none"
      BY <2>1, FreeIs DEF Free
    <2> QED
      BY <2>1, <2>2, <2>3, <2>4, TaskMoves
  <1>2. CASE EndSingle
    <2>1. /\ task.at = "test" /\ task.kind = "single"
          /\ task' = [task EXCEPT !.at = "end", !.todo = {}]
          /\ UNCHANGED <<listed, recent, files, aged, used, black>>
      BY <1>2 DEF EndSingle, cache
    <2>2. PICK n \in task.todo, r \in Verdict : probe' = [probe EXCEPT ![n] = r]
      BY <1>2 DEF EndSingle
    <2> DEFINE t == [task EXCEPT !.at = "end", !.todo = {}]
    <2>3. t \in Task /\ t.kind = task.kind /\ t.at = "end"
      BY DEF IInv, Shape, Task
    <2>4. task' = t
      BY <2>1
    <2> HIDE DEF t
    <2>5. Placed(t) /\ Tested(t, listed) /\ Clear(t, black)
      BY <2>1, <2>3 DEF IInv, Placed, Tested, Clear
    <2>6. n \in listed /\ r \in States /\ r # "none"
      BY <2>1 DEF IInv, Tested, States, Verdict
    <2>7. Shape'
      BY <2>1, <2>2, <2>3, <2>4, <2>6 DEF IInv, Shape
    <2>8. ProbesOK(probe)'
      BY <2>1, <2>2, <2>3, <2>4, <2>6 DEF IInv, ProbesOK, Shape, MayMark
    <2> QED
      BY <2>1, <2>4, <2>5, <2>7, <2>8 DEF IInv
  <1> QED
    BY <1>1, <1>2

-----------------------------------------------------------------------------
(* What goes on around the tasks.                                            *)

\* A node of the list found unavailable, with the task as it was.
LEMMA UnavailableIs ==
    ASSUME IInv, NEW n \in listed, probe' \in {probe, [probe EXCEPT ![n] = "unavailable"]},
           UNCHANGED <<listed, task>>
    PROVE  probe' \in [Nodes -> States] /\ ProbesOK(probe)'
  BY DEF IInv, Shape, ProbesOK, MayMark, States

LEMMA ConnectKeeps ==
    ASSUME IInv, NEW n \in Nodes, Connect(n)
    PROVE  IInv'
  <1>1. /\ Free \/ task.at = "rest"
        /\ n \in listed /\ aged' = (aged \cap files') \ {n}
        /\ UNCHANGED <<listed, recent, task>>
    BY DEF Connect
  <1>2. Connected(n) \/ Fails(n) \/ Refused(n) \/ NotStored
    BY DEF Connect
  <1>3. /\ used' \in Nodes \cup {None}
        /\ files' \subseteq files
        /\ probe' \in {probe, [probe EXCEPT ![n] = "unavailable"]}
        /\ black' \subseteq black \cup {n}
    BY <1>2 DEF Connected, Fails, Refused, NotStored, StillStored
  <1>4. task.at \notin {"fetch", "store", "refill"}
    BY <1>1, FreeIs
  <1>5. Shape' /\ ProbesOK(probe)'
    BY <1>1, <1>3, UnavailableIs DEF IInv, Shape
  <1>6. Placed(task)' /\ Tested(task, listed)' /\ Clear(task, black)'
    BY <1>1, <1>4 DEF IInv, Clear
  <1> QED
    BY <1>5, <1>6 DEF IInv

LEMMA SwitchFailsKeeps ==
    ASSUME IInv, NEW n \in Nodes, SwitchFails(n)
    PROVE  IInv'
  <1>1. /\ n \in listed /\ probe' = [probe EXCEPT ![n] = "unavailable"]
        /\ UNCHANGED <<listed, recent, files, aged, black, used, task>>
    BY DEF SwitchFails, cache, halt
  <1>2. probe' \in [Nodes -> States] /\ ProbesOK(probe)'
    BY <1>1, UnavailableIs
  <1> QED
    BY <1>1, <1>2 DEF IInv, Shape

LEMMA RestartKeeps == ASSUME IInv, Restart PROVE IInv'
  <1> DEFINE t == [NoTask EXCEPT !.kind = "start", !.at = "refill"]
  <1>1. /\ task' = t /\ used' = None /\ probe' = Reset(probe)
        /\ UNCHANGED <<listed, recent, files, aged, black>>
    BY DEF Restart, Clean, cache
  <1>2. /\ t \in Task /\ t.kind = "start" /\ t.at = "refill" /\ t.todo = {} /\ t.got = {}
        /\ t.result = NoResult /\ \A s \in Sources : t.asked[s] = "no"
    BY NoTaskIs DEF Task
  <1> HIDE DEF t
  <1>3. Placed(t) /\ Tested(t, listed) /\ Clear(t, black)
    BY <1>2 DEF Placed, Tested, Clear
  <1>4. Shape' /\ ProbesOK(probe)'
    BY <1>1, <1>2, ResetIs DEF IInv, Shape, ProbesOK
  <1> QED
    BY <1>1, <1>3, <1>4 DEF IInv

LEMMA ForgetKeeps == ASSUME IInv, NEW n \in Nodes, Forget(n) PROVE IInv'
  <1>1. /\ UNCHANGED <<listed, probe, files, used, task>>
        /\ recent' \subseteq recent /\ aged' \in {aged, aged \cup {n}} /\ (aged' # aged => n \in files)
        /\ black' \subseteq black
    BY DEF Forget, catalogue, cache, halt
  <1>2. Shape' /\ ProbesOK(probe)'
    BY <1>1 DEF IInv, Shape, ProbesOK, MayMark
  <1>3. Clear(task, black)'
    BY <1>1 DEF IInv, Clear
  <1> QED
    BY <1>1, <1>2, <1>3 DEF IInv

-----------------------------------------------------------------------------
(* The invariant.                                                            *)

LEMMA InitInv == Init => IInv
  <1> SUFFICES ASSUME Init PROVE IInv
    OBVIOUS
  <1>1. listed \subseteq Nodes
    BY CatalogueAssumption DEF Init
  <1>2. Shape
    BY <1>1, NoTaskIs DEF Init, Shape, States
  <1>3. ProbesOK(probe)
    BY <1>1 DEF Init, ProbesOK
  <1>4. Placed(task) /\ Tested(task, listed) /\ Clear(task, black)
    BY NoTaskIs DEF Init, Placed, Tested, Clear
  <1> QED
    BY <1>2, <1>3, <1>4 DEF IInv

LEMMA NextInv == IInv /\ [Next]_vars => IInv'
  <1> SUFFICES ASSUME IInv, [Next]_vars PROVE IInv'
    OBVIOUS
  <1>1. ASSUME UNCHANGED <<listed, probe, recent, files, aged, used, black, task>> PROVE IInv'
    BY <1>1 DEF IInv, Shape, ProbesOK, MayMark
  <1>2. ASSUME UNCHANGED <<catalogue, cache, black, used>> 
        PROVE  UNCHANGED <<listed, probe, recent, files, aged, used, black>>
    BY <1>2 DEF catalogue, cache
  <1>3. CASE RoutineUpdate \/ ForcedUpdate \/ FullMaintenance
    <2>1. UNCHANGED <<listed, recent, files, aged, used, black>>
      BY <1>3 DEF RoutineUpdate, ForcedUpdate, FullMaintenance, cache
    <2>2. \/ \E kind \in {"update", "full"} : Take(kind, "fetch")
          \/ UNCHANGED <<task, probe>>
      BY <1>3 DEF RoutineUpdate, ForcedUpdate, FullMaintenance
    <2> QED
      BY <2>1, <2>2, <1>1, TakeKeeps
  <1>4. CASE Cancelled \/ NoMoreBatches \/ Breaks
    <2>1. /\ End /\ UNCHANGED <<catalogue, cache, black, used>>
          /\ task.at \in {"fetch", "rest", "store", "tidy", "test"}
      BY <1>4 DEF Cancelled, NoMoreBatches, Breaks
    <2>2. task.kind \notin {"none", "start"}
      BY <2>1 DEF IInv, Placed
    <2> QED
      BY <2>1, <2>2, <1>2, EndKeeps
  <1>5. CASE Fetched \/ FetchBreaks
    <2>1. /\ task.at = "fetch" /\ UNCHANGED <<catalogue, cache, black, used>>
          /\ \E got \in {task.got, {}} : Proceed(got)
      BY <1>5 DEF Fetched, FetchBreaks
    <2>2. task.got \in SUBSET Nodes /\ task.got \cap black = {}
      BY <2>1 DEF IInv, Shape, Task, Clear
    <2> QED
      BY <2>1, <2>2, <1>2, ProceedKeeps
  <1>6. CASE Store \/ Tidy \/ \E s \in Sources : Answer(s) \/ NoAnswer(s) \/ TooLarge(s)
    BY <1>6, StoreKeeps, TidyKeeps, AnswerKeeps, TooLargeKeeps
  <1>7. CASE Update
    BY <1>3, <1>4, <1>5, <1>6, <1>7 DEF Update
  <1>8. CASE Tests
    BY <1>4, <1>8, EndBatchKeeps, SingleKeeps, BatchKeeps, TestNodeKeeps DEF Tests
  <1>9. CASE Disconnect
    <2>1. /\ UNCHANGED <<listed, probe, recent, black, task>> /\ used' = None
          /\ files' \subseteq files /\ aged' = aged \cap files'
      BY <1>9 DEF Disconnect, StillStored, catalogue
    <2> QED
      BY <2>1 DEF IInv, Shape, ProbesOK, MayMark
  <1>10. CASE Pause
    BY <1>1, <1>2, <1>10 DEF Pause
  <1>11. CASE Around
    BY <1>9, <1>10, <1>11, RestartKeeps, RefillKeeps, ConnectKeeps, SwitchFailsKeeps,
       ForgetKeeps DEF Around
  <1>12. CASE UNCHANGED vars
    BY <1>1, <1>12 DEF vars, catalogue, cache
  <1> QED
    BY <1>4, <1>7, <1>8, <1>11, <1>12, ReleaseKeeps DEF Next

LEMMA Invariant == Spec => []IInv
  BY InitInv, NextInv, PTL DEF Spec

\* Whatever the sources, the tests, the tunnel, the administrator and crashes do, only
\* nodes of the list have a state; while an update, the maintenance, a batch or the
\* start is at work, a node is marked as under test only if this task tests it, or broke
\* its test off and is about to end.  Only tests of the page leave marks behind.
THEOREM TypeCorrect == Spec => []TypeOK
  <1>1. IInv => TypeOK
    BY DEF IInv, Shape, ProbesOK, MayMark, TypeOK
  <1> QED
    BY <1>1, Invariant, PTL

-----------------------------------------------------------------------------
(* What an update keeps, and what memory pressure spares.                     *)

UpdateStep ==
    task.at \in {"store", "refill"} /\ task'.at # task.at =>
        /\ Large => listed' = listed /\ probe' = probe
        /\ Active \subseteq listed'
        /\ Cardinality(listed') < Cap => Retained \subseteq listed'
        /\ \A n \in (Active \cup Retained) \cap listed' : probe'[n] \in {probe[n], Reset(probe)[n]}
        /\ listed' \cap black \subseteq listed

\* A step that leaves the list alone, and its states but for those under test.
LEMMA SameListKeeps ==
    ASSUME IInv, listed' = listed, probe' \in {probe, Reset(probe)}
    PROVE  UpdateStep
  <1>1. Shape /\ (task.at \in {"store", "refill"} => ~Large)
    BY DEF IInv, Clear, Large
  <1>2. Active \subseteq listed /\ Retained \subseteq listed
    BY DEF Active, Retained
  <1> QED
    BY <1>1, <1>2 DEF UpdateStep

LEMMA NewListKeeps ==
    ASSUME IInv, NEW got \in SUBSET Nodes, Stores(got), got \cap black = {},
           task.at \in {"store", "refill"}
    PROVE  UpdateStep
  <1>1. ~Large /\ \A n \in Nodes : probe[n] # "testing"
    BY DEF IInv, Clear, Large, ProbesOK, MayMark, Placed
  <1>2. /\ Active \subseteq listed'
        /\ Cardinality(listed') < Cap => Retained \subseteq listed'
        /\ \A n \in (Active \cup Retained) \cap listed' : probe'[n] = probe[n]
        /\ listed' \cap black \subseteq listed \cup got
    BY <1>1, StoresIs
  <1> QED
    BY <1>1, <1>2 DEF UpdateStep

\* Whatever the sources answer and whatever fails, an update, and the refill after
\* a start, drop no active node and, below the cap, no recent one, keep the states of
\* those, and list none anew that is on the blacklist.
THEOREM UpdateKeepsCorrect == Spec => UpdateKeeps
  <1>1. ASSUME IInv, [Next]_vars PROVE [UpdateStep]_vars
    <2>1. CASE task.at \notin {"store", "refill"} \/ task'.at = task.at
      BY <2>1 DEF UpdateStep
    <2>2. CASE task.at \in {"store", "refill"} /\ task'.at # task.at
      <3>1. task.kind # "none" /\ task.at \notin {"fetch", "tidy", "rest", "test", "end", "none"}
        BY <1>1, <2>2 DEF IInv, Placed
      <3>2. Store \/ Refill \/ Breaks \/ Restart
        BY <1>1, <2>2, <3>1 DEF Next, Update, Tests, Around, vars, RoutineUpdate, ForcedUpdate,
           FullMaintenance, Take, Free, Cancelled, Fetched, FetchBreaks, Tidy, Answer, NoAnswer,
           TooLarge, MayAsk, NoMoreBatches, EndBatch, EndSingle, BeginBatch, BeginPage, NextBatch, TestNode,
           BeginSingle, Disconnect, Pause, Connect, SwitchFails, Forget, Release
      <3>3. CASE Store
        <4>1. Stores(task.got) /\ task.at = "store"
          BY <3>3 DEF Store
        <4>2. task.got \in SUBSET Nodes /\ task.got \cap black = {}
          BY <1>1, <4>1 DEF IInv, Shape, Task, Clear
        <4> QED
          BY <1>1, <4>1, <4>2, NewListKeeps
      <3>4. CASE Refill
        <4>1. Stores({}) \/ UNCHANGED catalogue
          BY <3>4 DEF Refill
        <4> QED
          BY <1>1, <2>2, <3>1, <3>4, <4>1, NewListKeeps, SameListKeeps DEF catalogue
      <3>5. CASE Breaks \/ Restart
        BY <1>1, <3>5, SameListKeeps DEF Breaks, Restart, Clean, catalogue
      <3> QED
        BY <3>2, <3>3, <3>4, <3>5
    <2> QED
      BY <2>1, <2>2
  <1>2. UpdateKeeps <=> [][UpdateStep]_vars
    BY PTL DEF UpdateKeeps, UpdateStep
  <1> QED
    BY <1>1, <1>2, Invariant, PTL DEF Spec

RestoredStep ==
    /\ \A n \in Nodes :
          /\ n \in task'.todo \ task.todo /\ task'.kind # "single" =>
                 task'.before[n] = probe[n] \/ (probe[n] = "testing" /\ task'.before[n] # "testing")
          /\ n \in task.todo \ task'.todo /\ task.result[n] = "deferred"
             /\ task'.kind = task.kind =>
                 probe'[n] = task.before[n] /\ probe'[n] # "testing"
    /\ task.kind \in {"batch", "full", "update", "start"} /\ task'.kind = "none" =>
          \A n \in Nodes : probe'[n] # "testing"

\* A step that takes nothing into a test and nothing out of it, and does not end a task.
LEMMA SameTodo ==
    ASSUME task'.todo = task.todo, task'.kind # "none" \/ task.kind = "none"
    PROVE  RestoredStep
  BY DEF RestoredStep

LEMMA RestoredByTests ==
    ASSUME IInv, Tests
    PROVE  RestoredStep
  <1>0. Shape /\ task \in Task
    BY DEF IInv, Shape
  <1>1. ASSUME NEW ids \in SUBSET Nodes, BeginBatch(ids) \/ BeginPage(ids) \/ NextBatch(ids)
        PROVE  RestoredStep
    <2>1. PICK t \in {[NoTask EXCEPT !.kind = "batch"], [NoTask EXCEPT !.kind = "page"], task},
               p \in {probe, Reset(probe)} :
            task' = Marked(t, p, Asked(ids)) /\ (t = task => task.at = "rest")
      <3>1. BeginBatch(ids) \/ BeginPage(ids) => task.kind = "none"
        BY DEF BeginBatch, BeginPage, Free
      <3>2. /\ [NoTask EXCEPT !.kind = "batch"].kind = "batch"
            /\ [NoTask EXCEPT !.kind = "page"].kind = "page"
        BY NoTaskIs DEF Task
      <3> QED
        BY <1>1, <3>1, <3>2 DEF BeginBatch, BeginPage, NextBatch
    <2>2. /\ t \in Task /\ Asked(ids) \in SUBSET Nodes /\ p \in [Nodes -> States]
          /\ \A n \in Nodes : p[n] = probe[n] \/ (probe[n] = "testing" /\ p[n] # "testing")
      BY <1>0, NoTaskIs, ResetIs DEF Task, Shape, Asked
    <2>3. /\ task'.todo = Asked(ids) /\ task'.kind = t.kind
          /\ \A n \in Asked(ids) : task'.before[n] = IF p[n] = "testing" THEN "pending" ELSE p[n]
      BY <2>1, <2>2, MarkedIs
    <2>4. task.todo = {}
      BY <1>1, FreeIs DEF BeginBatch, BeginPage, NextBatch, IInv, Placed
    <2>5. t.kind # "none"
      BY <2>1, NoTaskIs DEF Task, IInv, Placed
    <2> QED
      BY <2>2, <2>3, <2>4, <2>5 DEF RestoredStep
  <1>3. CASE EndBatch
    <2>1. /\ task.at = "test" /\ task.kind # "single" /\ probe' = Overlay(task.result)
          /\ \E at \in {"rest", "end"} :
                task' = [task EXCEPT !.at = at, !.todo = {}, !.before = NoResult, !.result = NoResult]
      BY <1>3 DEF EndBatch
    <2>2. task'.todo = {} /\ task'.kind = task.kind
      BY <1>0, <2>1 DEF Task
    <2>3. /\ task.result \in [Nodes -> Results]
          /\ \A n \in Nodes : task.result[n] # "none" => n \in task.todo
          /\ \A n \in task.todo : task.before[n] # "testing"
      BY <1>0, <2>1 DEF IInv, Tested, Task
    <2>4. \A n \in Nodes : n \in task.todo /\ task.result[n] = "deferred"
                              => probe'[n] = task.before[n]
      BY <2>1, <2>3, OverlayIs
    <2> QED
      BY <2>1, <2>2, <2>3, <2>4 DEF RestoredStep
  <1>4. CASE EndSingle
    <2>1. /\ task.at = "test" /\ task.kind = "single"
          /\ task' = [task EXCEPT !.at = "end", !.todo = {}]
      BY <1>4 DEF EndSingle
    <2>2. task'.todo = {} /\ task'.kind = task.kind
      BY <1>0, <2>1 DEF Task
    <2>3. \A n \in Nodes : task.result[n] = "none"
      BY <2>1 DEF IInv, Tested, NoResult
    <2> QED
      BY <2>1, <2>2, <2>3 DEF RestoredStep
  <1>5. ASSUME NEW n \in Nodes, BeginSingle(n) PROVE RestoredStep
    <2>1. Free /\ task' = [NoTask EXCEPT !.kind = "single", !.at = "test", !.todo = {n}]
      BY <1>5 DEF BeginSingle
    <2>2. task'.kind = "single"
      BY <2>1, NoTaskIs DEF Task
    <2> QED
      BY <2>1, <2>2, FreeIs DEF RestoredStep
  <1>6. ASSUME NEW n \in Nodes, TestNode(n) PROVE RestoredStep
    <2>1. \E r : task' = [task EXCEPT !.result[n] = r]
      BY <1>6 DEF TestNode
    <2>2. task'.todo = task.todo /\ task'.kind = task.kind
      BY <1>0, <2>1 DEF Task
    <2> QED
      BY <2>2, SameTodo
  <1>7. CASE NoMoreBatches
    <2>1. task'.todo = task.todo /\ task'.kind = task.kind
      BY <1>0, <1>7 DEF NoMoreBatches, End, Task
    <2> QED
      BY <2>1, SameTodo
  <1> QED
    BY <1>1, <1>3, <1>4, <1>5, <1>6, <1>7 DEF Tests

\* A test remembers what its nodes were before it; when it ends, a node that was not
\* tested for want of memory is that again, and never left as under test.  When a batch,
\* the maintenance, an update or the start is over, no node is left as under test.
THEOREM StatesRestoredCorrect == Spec => StatesRestored
  <1>1. ASSUME IInv, [Next]_vars PROVE [RestoredStep]_vars
    <2>0. task \in Task
      BY <1>1 DEF IInv, Shape
    <2>1. CASE Tests
      BY <1>1, <2>1, RestoredByTests
    <2>2. CASE Update \/ Breaks
      <3>1. CASE Free
        <4>1. task.todo = {} /\ task.at = "none"
          BY <1>1, <3>1, FreeIs
        <4>2. ASSUME NEW kind \in {"update", "full"}, Take(kind, "fetch") PROVE task'.todo = {}
          BY <4>2, NoTaskIs DEF Take, Task
        <4>3. (\E kind \in {"update", "full"} : Take(kind, "fetch")) \/ task' = task
          BY <2>2, <4>1 DEF Update, Breaks, RoutineUpdate, ForcedUpdate, FullMaintenance,
             Cancelled, Fetched, FetchBreaks, Store, Tidy, Answer, NoAnswer, TooLarge, MayAsk
        <4> QED
          BY <3>1, <4>1, <4>2, <4>3, SameTodo DEF Free
      <3>2. CASE ~Free
        <4>1. \/ task' = task \/ End \/ Store \/ (\E got : Proceed(got))
              \/ \E s \in Sources : Answer(s) \/ NoAnswer(s) \/ TooLarge(s)
          BY <2>2, <3>2 DEF Update, Breaks, RoutineUpdate, ForcedUpdate, FullMaintenance,
             Cancelled, Fetched, FetchBreaks, Tidy, Take
        <4>2. task'.todo = task.todo /\ task'.kind = task.kind
          BY <2>0, <4>1 DEF End, Store, Proceed, Answer, NoAnswer, TooLarge, Task
        <4> QED
          BY <4>2, SameTodo
      <3> QED
        BY <3>1, <3>2
    <2>3. CASE Release
      <3>1. task'.kind = "none" /\ task.kind # "none" /\ task'.todo = {}
        BY <1>1, <2>3, NoTaskIs DEF Release, IInv, Placed
      <3>2. CASE task.kind \in {"batch", "full"}
        BY <1>1, <2>3, <3>1, <3>2, ResetIs DEF Release, RestoredStep, IInv, Shape
      <3>3. CASE task.kind = "update"
        <4>1. probe' = probe /\ \A n \in Nodes : probe[n] # "testing"
          BY <1>1, <2>3, <3>3 DEF Release, IInv, ProbesOK, MayMark
        <4> QED
          BY <3>1, <4>1 DEF RestoredStep
      <3>4. task.kind # "start"
        BY <1>1, <2>3 DEF Release, IInv, Placed
      <3> QED
        BY <3>1, <3>2, <3>3, <3>4 DEF RestoredStep
    <2>4. CASE Restart
      <3>1. task'.kind = "start" /\ task'.todo = {}
        BY <2>4, NoTaskIs DEF Restart, Task
      <3>2. task.kind = "start" => task.todo = {}
        BY <1>1 DEF IInv, Placed
      <3> QED
        BY <3>1, <3>2 DEF RestoredStep
    <2>5. CASE Refill
      <3>1. task'.todo = {} /\ task.todo = {} /\ task.kind = "start"
        BY <1>1, <2>5, NoTaskIs DEF Refill, IInv, Placed
      <3>2. \A n \in Nodes : probe[n] # "testing"
        BY <1>1, <3>1 DEF IInv, ProbesOK, MayMark
      <3>3. Stores({}) \/ probe' = probe
        BY <2>5 DEF Refill, catalogue
      <3>4. \A n \in Nodes : probe'[n] # "testing"
        BY <1>1, <3>2, <3>3, StoresIs
      <3> QED
        BY <3>1, <3>4 DEF RestoredStep
    <2>6. CASE Disconnect \/ Pause \/ \E n \in Nodes : Connect(n) \/ SwitchFails(n) \/ Forget(n)
      <3>1. task' = task
        BY <2>6 DEF Disconnect, Pause, Connect, SwitchFails, Forget
      <3> QED
        BY <3>1, SameTodo
    <2> QED
      BY <1>1, <2>1, <2>2, <2>3, <2>4, <2>5, <2>6 DEF Next, Around
  <1>2. StatesRestored <=> [][RestoredStep]_vars
    BY PTL DEF StatesRestored, RestoredStep
  <1> QED
    BY <1>1, <1>2, Invariant, PTL DEF Spec
=============================================================================
