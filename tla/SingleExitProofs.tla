-------------------------- MODULE SingleExitProofs --------------------------
(* Proofs about SingleExit: its types, that is_connecting keeps connections  *)
(* and tests apart and comes off, that no tunnel is left behind, and that    *)
(* the settings hold, for any number of threads, nodes and processes.        *)
EXTENDS SingleExit, TLAPS

\* In a full maintenance, outside of what it calls.
Maintaining == {"begin", "fixed", "unmark", "remark", "fetch", "fast", "back", "test",
                "report", "finally"}
\* In connect_node or auto_switch_node.
Called == Guarded \cup {"claim", "choose", "demote", "empty", "emptied"}
\* From here a thread goes on to where it takes the mark off.
WillFree == Guarded \cup {"testing"} \cup (Maintaining \ {"remark", "back"})
Excluding == Guarded \cup {"testing"}

JobOK(j) ==
    /\ j \in Job
    /\ j.at \in Guarded \cup {"claim", "demote"} => j.node \in Nodes
    /\ j.at \in {"ready", "record", "publish"} => j.proc \in Procs
    /\ j.at \in {"choose", "demote", "empty", "emptied"} => j.try # None
    /\ j.at \in Guarded \cup {"claim", "demote", "empty", "emptied"} /\ j.try # None
           => j.try < Attempts
    /\ j.at \in Maintaining \cup {"enter"} => j.try = None
    /\ j.at \in Called => /\ j.phase = "fixed" => j.try = None
                          /\ j.phase \in {"begin", "fast"} => j.try # None

\* The maintenance or a test, itself or in a call.
Holds(j) == \/ j.at \in Maintaining \cup {"testing"}
            \/ j.at \in Called /\ j.phase # "none"

\* Not of a full maintenance.
Apart(j) == j.at \notin Maintaining /\ (j.at \in Called => j.phase = "none")

Jobs   == \A t \in Threads : JobOK(job[t])
Locked == mlock # None => Holds(job[mlock])
Freed  == mark => \E t \in Threads : job[t].at \in WillFree
Alone  == ~full => /\ \A t \in Threads : Apart(job[t])
                   /\ OneAtATime

IInv == TypeOK /\ Jobs /\ Locked /\ Freed /\ Alone

----------------------------------------------------------------------------
(* What the helpers make of a thread.                                       *)

LEMMA IdleIs ==
    /\ JobOK(Idle)
    /\ Idle.at = "idle" /\ Idle.node = None /\ Idle.proc = None /\ Idle.try = None
    /\ Idle.phase = "none" /\ Idle.after = None
  BY SingleExitAssumption DEF Idle, JobOK, Job, Points, Guarded, Stopping, Tries, Called,
     Maintaining

LEMMA ToIs ==
    ASSUME NEW t, job[t] \in Job, NEW p \in Points
    PROVE  /\ To(t, p) \in Job /\ To(t, p).at = p
           /\ To(t, p).node = job[t].node /\ To(t, p).proc = job[t].proc
           /\ To(t, p).try = job[t].try /\ To(t, p).phase = job[t].phase
           /\ To(t, p).after = job[t].after /\ To(t, p).ok = job[t].ok
  BY DEF To, Job

LEMMA SwitchedIs ==
    ASSUME NEW t, JobOK(job[t]), NEW r, r = Switched(t)
    PROVE  /\ JobOK(r)
           /\ job[t].phase = "none" => r = Idle
           /\ job[t].phase # "none" => r.at \in {"remark", "back"}
  <1>1. CASE job[t].phase = "none"
    BY <1>1, IdleIs DEF Switched
  <1>2. CASE job[t].phase # "none"
    <2> DEFINE p == IF job[t].phase = "begin" THEN "remark" ELSE "back"
    <2>1. p \in Points /\ p \in {"remark", "back"}
      BY DEF Points
    <2>2. r = [To(t, p) EXCEPT !.try = None]
      BY <1>2 DEF Switched
    <2> HIDE DEF p
    <2>3. To(t, p) \in Job /\ To(t, p).at = p
      BY <2>1, ToIs DEF JobOK
    <2>4. r \in Job /\ r.at = p /\ r.try = None
      BY <2>2, <2>3 DEF Job, Tries
    <2> QED
      BY <1>2, <2>1, <2>4 DEF JobOK, Guarded, Called, Maintaining
  <1> QED
    BY <1>1, <1>2

LEMMA ConnectedIs ==
    ASSUME NEW t, JobOK(job[t]), job[t].at \in Guarded \cup {"claim"}, NEW ok,
           NEW r, r = Connected(t, ok)
    PROVE  /\ JobOK(r)
           /\ r.at \in {"idle", "remark", "back", "demote"}
           /\ job[t].phase = "none" => r.at \in {"idle", "demote"}
           /\ r.at = "demote" => r.phase = job[t].phase /\ r.node = job[t].node
           /\ job[t].phase # "none" => r.at # "idle"
  <1>1. CASE job[t].try # None /\ ok
    BY <1>1, SwitchedIs, IdleIs DEF Connected
  <1>2. CASE job[t].try # None /\ ~ok
    <2>1. r = To(t, "demote")
      BY <1>2 DEF Connected
    <2> QED
      BY <1>2, <2>1, ToIs DEF JobOK, Points, Called, Guarded, Maintaining
  <1>3. CASE job[t].try = None /\ job[t].phase = "fixed"
    <2>1. r = To(t, "remark")
      BY <1>3 DEF Connected
    <2> QED
      BY <1>3, <2>1, ToIs DEF JobOK, Points, Called, Guarded, Maintaining
  <1>4. CASE job[t].try = None /\ job[t].phase # "fixed"
    <2>1. job[t].phase = "none"
      BY <1>4 DEF JobOK, Job, Called
    <2> QED
      BY <1>4, <2>1, IdleIs DEF Connected
  <1> QED
    BY <1>1, <1>2, <1>3, <1>4

LEMMA MaintainedIs ==
    ASSUME NEW t, JobOK(job[t]), NEW r, r = Maintained(t)
    PROVE  JobOK(r) /\ r.at \in {"idle", "choose"} /\ r.phase = "none"
  <1>1. CASE job[t].after = None
    BY <1>1, IdleIs DEF Maintained
  <1>2. CASE job[t].after # None
    <2>1. r = [Idle EXCEPT !.at = "choose", !.try = job[t].after]
      BY <1>2 DEF Maintained
    <2>2. r \in Job /\ r.at = "choose" /\ r.try = job[t].after /\ r.phase = "none"
      BY <2>1, IdleIs DEF JobOK, Job, Points
    <2> QED
      BY <1>2, <2>2 DEF JobOK, Guarded, Called, Maintaining
  <1> QED
    BY <1>1, <1>2

----------------------------------------------------------------------------
(* What a step of a thread makes of the mark and the lock.                  *)

Effect(t, r) ==
    /\ JobOK(r)
    /\ job' = [job EXCEPT ![t] = r]
    /\ \/ mlock' = None
       \/ mlock' = mlock /\ (Holds(job[t]) => Holds(r))
       \/ mlock' = t /\ Holds(r)
    /\ mark' => r.at \in WillFree \/ (mark /\ job[t].at \notin WillFree)
    /\ ~full' => /\ ~full /\ Apart(r)
                 /\ \/ mark' = mark /\ (r.at \in Excluding <=> job[t].at \in Excluding)
                    \/ ~mark /\ mark' /\ r.at \in Excluding
                    \/ mark /\ ~mark' /\ job[t].at \in Excluding /\ r.at \notin Excluding

\* From one place of connect_node to the next.
LEMMA GuardedOn ==
    ASSUME IInv, NEW t \in Threads, job[t].at \in Guarded, NEW r \in Job, r.at \in Guarded,
           r.node = job[t].node, r.try = job[t].try, r.phase = job[t].phase,
           r.at \in {"ready", "record", "publish"} => r.proc \in Procs,
           job' = [job EXCEPT ![t] = r], UNCHANGED <<mark, mlock, full>>
    PROVE  Effect(t, r)
  <1>1. JobOK(job[t])
    BY DEF IInv, Jobs
  <1>2. JobOK(r)
    BY <1>1 DEF JobOK, Guarded, Called, Maintaining
  <1>3. Holds(job[t]) => Holds(r)
    BY DEF Holds, Guarded, Called, Maintaining
  <1>4. ~full => Apart(r)
    BY DEF IInv, Alone, Apart, Guarded, Called, Maintaining
  <1> QED
    BY <1>2, <1>3, <1>4 DEF Effect, WillFree, Excluding

\* The same, by its name.
LEMMA GuardedTo ==
    ASSUME IInv, NEW t \in Threads, job[t].at \in Guarded,
           NEW p \in Guarded, p \in {"ready", "record", "publish"} => job[t].proc \in Procs,
           Goes(t, To(t, p)), UNCHANGED <<mark, mlock, full>>
    PROVE  Effect(t, To(t, p))
  <1>1. p \in Points
    BY DEF Points
  <1>2. job[t] \in Job
    BY DEF IInv, Jobs, JobOK
  <1>3. PICK r : r = To(t, p)
    OBVIOUS
  <1>4. /\ r \in Job /\ r.at = p /\ r.at \in Guarded
        /\ r.node = job[t].node /\ r.proc = job[t].proc
        /\ r.try = job[t].try /\ r.phase = job[t].phase
    BY <1>1, <1>2, <1>3, ToIs
  <1>5. job' = [job EXCEPT ![t] = r]
    BY <1>3 DEF Goes
  <1>6. Effect(t, r)
    BY <1>4, <1>5, GuardedOn
  <1> QED
    BY <1>3, <1>6

\* From one place of the maintenance to another, or into a call.
LEMMA MaintainingOn ==
    ASSUME IInv, NEW t \in Threads, job[t].at \in Maintaining, NEW r, JobOK(r), Holds(r),
           job' = [job EXCEPT ![t] = r], UNCHANGED <<mlock, full>>,
           mark' => r.at \in WillFree \/ (mark /\ job[t].at \notin WillFree)
    PROVE  Effect(t, r)
  <1>1. full
    BY DEF IInv, Alone, Apart
  <1> QED
    BY <1>1 DEF Effect

LEMMA MaintainingTo ==
    ASSUME IInv, NEW t \in Threads, job[t].at \in Maintaining,
           NEW p \in Maintaining,
           Goes(t, To(t, p)), UNCHANGED <<mlock, full>>,
           mark' => p \in WillFree \/ (mark /\ job[t].at \notin WillFree)
    PROVE  Effect(t, To(t, p))
  <1>1. p \in Points
    BY DEF Points, Maintaining
  <1>2. JobOK(job[t]) /\ job[t] \in Job
    BY DEF IInv, Jobs, JobOK
  <1>3. /\ To(t, p) \in Job /\ To(t, p).at = p /\ To(t, p).try = None
    BY <1>1, <1>2, ToIs DEF JobOK
  <1>4. JobOK(To(t, p)) /\ Holds(To(t, p))
    BY <1>3 DEF JobOK, Holds, Maintaining, Guarded, Called
  <1> QED
    BY <1>3, <1>4, MaintainingOn DEF Goes

\* In a place where neither the mark nor the lock matters.
Aside == {"idle", "enter", "cut", "cutflags", "enforce", "bar", "barflags"}

LEMMA AsideOn ==
    ASSUME IInv, NEW t \in Threads, job[t].at \in Aside,
           NEW r, JobOK(r), r.at \in Aside \cup {"claim", "choose"}, r.phase = "none",
           job' = [job EXCEPT ![t] = r], UNCHANGED <<mark, mlock, full>>
    PROVE  Effect(t, r)
  <1>1. ~Holds(job[t]) /\ job[t].at \notin WillFree \cup Excluding
    BY DEF Aside, Holds, WillFree, Excluding, Maintaining, Called, Guarded
  <1>2. Apart(r) /\ r.at \notin Excluding
    BY DEF Apart, Aside, Excluding, Maintaining, Called, Guarded
  <1> QED
    BY <1>1, <1>2 DEF Effect

LEMMA AsideTo ==
    ASSUME IInv, NEW t \in Threads, job[t].at \in Aside, NEW p \in Aside \ {"enter"},
           Goes(t, To(t, p)) \/ Goes(t, Idle), UNCHANGED <<mark, mlock, full>>
    PROVE  \E r : Effect(t, r)
  <1>1. p \in Points
    BY DEF Points, Aside, Stopping
  <1>2. job[t] \in Job
    BY DEF IInv, Jobs, JobOK
  <1>3. /\ To(t, p) \in Job /\ To(t, p).at = p
    BY <1>1, <1>2, ToIs
  <1>4. JobOK(To(t, p))
    BY <1>3 DEF JobOK, Aside, Guarded, Called, Maintaining
  <1>5. To(t, p).at \notin WillFree \cup Excluding /\ Apart(To(t, p)) /\ ~Holds(job[t])
        /\ job[t].at \notin WillFree \cup Excluding
    BY <1>3 DEF Aside, Holds, Apart, WillFree, Excluding, Maintaining, Called, Guarded
  <1>6. CASE Goes(t, To(t, p))
    BY <1>4, <1>5, <1>6 DEF Effect, Goes
  <1>7. CASE Goes(t, Idle)
    BY <1>7, IdleIs, AsideOn DEF Goes, Aside
  <1> QED
    BY <1>6, <1>7

LEMMA ConnectSteps ==
    ASSUME IInv, NEW t \in Threads,
           \/ Claim(t) \/ Read(t) \/ Stop(t) \/ Start(t) \/ Ready(t) \/ NotReady(t) \/ Record(t)
           \/ Publish(t) \/ Check(t) \/ Drop(t) \/ Unflag(t) \/ Release(t)
    PROVE  \E r : Effect(t, r)
  <1>1. JobOK(job[t]) /\ job[t] \in Job
    BY DEF IInv, Jobs, JobOK
  <1>2. {"read", "stop", "start", "ready", "record", "publish", "check", "drop", "unflag", "release"}
        = Guarded
    BY DEF Guarded
  <1>3. \A p \in Guarded : p \in {"ready", "record", "publish"} => p \notin {"read", "stop",
            "start", "check", "drop", "unflag", "release"}
    OBVIOUS
  <1>4. ASSUME Claim(t)
        PROVE  \E r : Effect(t, r)
    <2>1. /\ job[t].at = "claim" /\ mark' = TRUE
          /\ mlock' = mlock /\ full' = full
      BY <1>4 DEF Claim, At
    <2>2. CASE mark
      <3>1. PICK r : r = Connected(t, FALSE)
        OBVIOUS
      <3>2. job' = [job EXCEPT ![t] = r]
        BY <1>4, <2>2, <3>1 DEF Claim, Goes
      <3>3. /\ JobOK(r) /\ r.at \in {"idle", "remark", "back", "demote"}
            /\ job[t].phase = "none" => r.at \in {"idle", "demote"}
            /\ r.at = "demote" => r.phase = job[t].phase
            /\ job[t].phase # "none" => r.at # "idle"
        BY <1>1, <2>1, <3>1, ConnectedIs
      <3>4. Holds(job[t]) => Holds(r)
        BY <2>1, <3>3 DEF Holds, Maintaining, Called
      <3>5. ~full => Apart(r)
        BY <2>1, <3>3 DEF IInv, Alone, Apart, Maintaining, Called, Guarded
      <3>6. /\ r.at \notin Excluding /\ job[t].at \notin Excluding \cup WillFree
        BY <2>1, <3>3 DEF Excluding, WillFree, Guarded, Maintaining
      <3> QED
        BY <2>1, <2>2, <3>2, <3>3, <3>4, <3>5, <3>6 DEF Effect
    <2>3. CASE ~mark
      <3>1. PICK r : r = [To(t, "read") EXCEPT !.ok = FALSE, !.proc = None]
        OBVIOUS
      <3>2. job' = [job EXCEPT ![t] = r]
        BY <1>4, <2>3, <3>1 DEF Claim, Goes
      <3>3. "read" \in Points
        BY DEF Points, Guarded
      <3>4. /\ To(t, "read") \in Job /\ To(t, "read").at = "read"
            /\ To(t, "read").node = job[t].node /\ To(t, "read").try = job[t].try
            /\ To(t, "read").phase = job[t].phase
        BY <1>1, <3>3, ToIs
      <3>5. /\ r \in Job /\ r.at = "read" /\ r.node = job[t].node /\ r.try = job[t].try
            /\ r.phase = job[t].phase
        BY <3>1, <3>4 DEF Job
      <3>6. JobOK(r)
        BY <1>1, <2>1, <3>5 DEF JobOK, Guarded, Called, Maintaining
      <3>7. Holds(job[t]) => Holds(r)
        BY <2>1, <3>5 DEF Holds, Maintaining, Called, Guarded
      <3>8. ~full => Apart(r)
        BY <2>1, <3>5 DEF IInv, Alone, Apart, Maintaining, Called, Guarded
      <3>9. r.at \in WillFree \cap Excluding
        BY <3>5 DEF Excluding, WillFree, Guarded
      <3> QED
        BY <2>1, <2>3, <3>2, <3>6, <3>7, <3>8, <3>9 DEF Effect
    <2> QED
      BY <2>2, <2>3
  <1>5. ASSUME Release(t)
        PROVE  \E r : Effect(t, r)
    <2>1. PICK r : r = Connected(t, job[t].ok)
      OBVIOUS
    <2>2. /\ job[t].at = "release" /\ ~mark'
          /\ mlock' = mlock /\ full' = full /\ job' = [job EXCEPT ![t] = r]
      BY <1>5, <2>1 DEF Release, At, Goes, hist
    <2>3. job[t].at \in Guarded
      BY <2>2 DEF Guarded
    <2>4. /\ JobOK(r) /\ r.at \in {"idle", "remark", "back", "demote"}
          /\ job[t].phase = "none" => r.at \in {"idle", "demote"}
          /\ r.at = "demote" => r.phase = job[t].phase
          /\ job[t].phase # "none" => r.at # "idle"
      BY <1>1, <2>1, <2>3, ConnectedIs
    <2>5. Holds(job[t]) => Holds(r)
      BY <2>2, <2>4 DEF Holds, Maintaining, Called, Guarded
    <2>6. ~full => Apart(r)
      BY <2>3, <2>4 DEF IInv, Alone, Apart, Maintaining, Called, Guarded
    <2>7. r.at \notin Excluding /\ job[t].at \in Excluding
      BY <2>3, <2>4 DEF Excluding, Guarded
    <2>8. ~full => mark
      BY <2>3 DEF IInv, Alone, OneAtATime, Marked
    <2> QED
      BY <2>2, <2>4, <2>5, <2>6, <2>7, <2>8 DEF Effect
  <1>6. ASSUME Read(t)
        PROVE  \E r : Effect(t, r)
    <2>1. job[t].at \in Guarded /\ UNCHANGED <<mark, mlock, full>>
      BY <1>6 DEF Read, At, Guarded, hist
    <2>2. \E p \in {"stop", "drop", "release"} : Goes(t, To(t, p))
      BY <1>6 DEF Read, Raise
    <2> QED
      BY <1>2, <2>1, <2>2, GuardedTo
  <1>7. ASSUME Stop(t) \/ Ready(t) \/ Record(t) \/ Drop(t) \/ Unflag(t)
        PROVE  \E r : Effect(t, r)
    <2>1. job[t].at \in Guarded /\ UNCHANGED <<mark, mlock, full>>
      BY <1>7 DEF Stop, Ready, Record, Drop, Unflag, At, Guarded, hist
    <2>2. \E p \in Guarded : /\ Goes(t, To(t, p))
                             /\ p \in {"ready", "record", "publish"} =>
                                   job[t].at \in {"ready", "record", "publish"}
      BY <1>2, <1>7 DEF Stop, Ready, Record, Drop, Unflag, At
    <2> QED
      BY <1>1, <2>1, <2>2, GuardedTo DEF JobOK
  <1>8. ASSUME Start(t)
        PROVE  \E r : Effect(t, r)
    <2>1. job[t].at \in Guarded /\ UNCHANGED <<mark, mlock, full>>
      BY <1>8 DEF Start, At, Guarded, hist
    <2>2. CASE Goes(t, To(t, "drop"))
      BY <1>2, <2>1, <2>2, GuardedTo
    <2>3. ASSUME NEW p \in Procs, Goes(t, [To(t, "ready") EXCEPT !.proc = p])
          PROVE  \E r : Effect(t, r)
      <3>1. PICK r : r = [To(t, "ready") EXCEPT !.proc = p]
        OBVIOUS
      <3>2. "ready" \in Points
        BY DEF Points, Guarded
      <3>3. /\ To(t, "ready") \in Job /\ To(t, "ready").at = "ready"
            /\ To(t, "ready").node = job[t].node /\ To(t, "ready").try = job[t].try
            /\ To(t, "ready").phase = job[t].phase
        BY <1>1, <3>2, ToIs
      <3>4. /\ r \in Job /\ r.at = "ready" /\ r.node = job[t].node /\ r.try = job[t].try
            /\ r.phase = job[t].phase /\ r.proc = p
        BY <3>1, <3>3 DEF Job
      <3>5. job' = [job EXCEPT ![t] = r]
        BY <2>3, <3>1 DEF Goes
      <3>6. r.at \in Guarded
        BY <3>4 DEF Guarded
      <3> QED
        BY <2>1, <3>4, <3>5, <3>6, GuardedOn
    <2> QED
      BY <1>8, <2>2, <2>3 DEF Start, Fresh
  <1>9. ASSUME NEW p \in {"drop", "check"}, job[t].at \in Guarded,
               Goes(t, [To(t, p) EXCEPT !.proc = None]), UNCHANGED <<mark, mlock, full>>
        PROVE  \E r : Effect(t, r)
    <2>1. PICK r : r = [To(t, p) EXCEPT !.proc = None]
      OBVIOUS
    <2>2. p \in Points
      BY DEF Points, Guarded
    <2>3. /\ To(t, p) \in Job /\ To(t, p).at = p
          /\ To(t, p).node = job[t].node /\ To(t, p).try = job[t].try
          /\ To(t, p).phase = job[t].phase
      BY <1>1, <2>2, ToIs
    <2>4. /\ r \in Job /\ r.at = p /\ r.node = job[t].node /\ r.try = job[t].try
          /\ r.phase = job[t].phase
      BY <2>1, <2>3 DEF Job
    <2>5. job' = [job EXCEPT ![t] = r]
      BY <1>9, <2>1 DEF Goes
    <2>6. r.at \in Guarded /\ r.at \notin {"ready", "record", "publish"}
      BY <2>4 DEF Guarded
    <2> QED
      BY <1>9, <2>4, <2>5, <2>6, GuardedOn
  <1>10. ASSUME NotReady(t) \/ Publish(t)
         PROVE  \E r : Effect(t, r)
    <2>1. job[t].at \in Guarded /\ UNCHANGED <<mark, mlock, full>>
      BY <1>10 DEF NotReady, Publish, At, Guarded, hist
    <2>2. \E p \in {"drop", "check"} : Goes(t, [To(t, p) EXCEPT !.proc = None])
      BY <1>10 DEF NotReady, Publish
    <2> QED
      BY <1>9, <2>1, <2>2
  <1>11. ASSUME Check(t)
         PROVE  \E r : Effect(t, r)
    <2>1. job[t].at \in Guarded /\ UNCHANGED <<mark, mlock, full>>
      BY <1>11 DEF Check, At, Guarded, hist
    <2>2. CASE Goes(t, To(t, "drop"))
      BY <1>2, <2>1, <2>2, GuardedTo
    <2>3. CASE Goes(t, [To(t, "release") EXCEPT !.ok = TRUE])
      <3>1. PICK r : r = [To(t, "release") EXCEPT !.ok = TRUE]
        OBVIOUS
      <3>2. "release" \in Points
        BY DEF Points, Guarded
      <3>3. /\ To(t, "release") \in Job /\ To(t, "release").at = "release"
            /\ To(t, "release").node = job[t].node /\ To(t, "release").try = job[t].try
            /\ To(t, "release").phase = job[t].phase
        BY <1>1, <3>2, ToIs
      <3>4. /\ r \in Job /\ r.at = "release" /\ r.node = job[t].node /\ r.try = job[t].try
            /\ r.phase = job[t].phase
        BY <3>1, <3>3 DEF Job
      <3>5. job' = [job EXCEPT ![t] = r]
        BY <2>3, <3>1 DEF Goes
      <3>6. r.at \in Guarded /\ r.at \notin {"ready", "record", "publish"}
        BY <3>4 DEF Guarded
      <3> QED
        BY <2>1, <3>4, <3>5, <3>6, GuardedOn
    <2> QED
      BY <1>11, <2>2, <2>3 DEF Check, Passes, Rejected, NoExit
  <1> QED
    BY <1>4, <1>5, <1>6, <1>7, <1>8, <1>10, <1>11

Switching == {"choose", "demote", "empty", "emptied"}

LEMMA SwitchingOn ==
    ASSUME IInv, NEW t \in Threads, job[t].at \in Switching,
           NEW r, JobOK(r), r.at \in Switching \cup {"claim"}, r.phase = job[t].phase,
           job' = [job EXCEPT ![t] = r], UNCHANGED <<mark, mlock, full>>
    PROVE  Effect(t, r)
  <1>1. Holds(job[t]) => Holds(r)
    BY DEF Holds, Switching, Maintaining, Called
  <1>2. ~full => Apart(r)
    BY DEF IInv, Alone, Apart, Switching, Maintaining, Called
  <1>3. job[t].at \notin WillFree \cup Excluding /\ r.at \notin Excluding
    BY DEF Switching, WillFree, Excluding, Guarded, Maintaining
  <1> QED
    BY <1>1, <1>2, <1>3 DEF Effect

LEMMA SwitchReturns ==
    ASSUME IInv, NEW t \in Threads, job[t].at \in Switching,
           Goes(t, Switched(t)), UNCHANGED <<mark, mlock, full>>
    PROVE  \E r : Effect(t, r)
  <1>1. PICK r : r = Switched(t)
    OBVIOUS
  <1>2. job' = [job EXCEPT ![t] = r]
    BY <1>1 DEF Goes
  <1>3. JobOK(job[t])
    BY DEF IInv, Jobs
  <1>4. /\ JobOK(r) /\ r.at \in {"idle", "remark", "back"}
        /\ job[t].phase # "none" => r.at \in {"remark", "back"}
        /\ job[t].phase = "none" => r.at = "idle"
    BY <1>1, <1>3, SwitchedIs, IdleIs
  <1>5. Holds(job[t]) => Holds(r)
    BY <1>4 DEF Holds, Switching, Maintaining, Called
  <1>6. ~full => Apart(r)
    BY <1>4 DEF IInv, Alone, Apart, Switching, Maintaining, Called, Guarded
  <1>7. job[t].at \notin WillFree \cup Excluding /\ r.at \notin Excluding
    BY <1>4 DEF Switching, WillFree, Excluding, Guarded, Maintaining
  <1> QED
    BY <1>2, <1>4, <1>5, <1>6, <1>7 DEF Effect

LEMMA SwitchSteps ==
    ASSUME IInv, NEW t \in Threads, Choose(t) \/ Demote(t) \/ Empty(t) \/ Emptied(t)
    PROVE  \E r : Effect(t, r)
  <1>1. /\ JobOK(job[t]) /\ job[t] \in Job /\ Attempts \in Nat /\ None \notin Nat
        /\ job[t].at \in Switching /\ UNCHANGED <<mark, mlock, full>>
    BY SingleExitAssumption DEF IInv, Jobs, JobOK, Choose, Demote, Empty, Emptied, At, hist,
       Switching, Crosses
  <1>2. job[t].try \in 0..Attempts
    BY <1>1 DEF JobOK, Job, Tries, Switching
  <1>3. ASSUME NEW m \in Nodes, Goes(t, [To(t, "claim") EXCEPT !.node = m]),
               job[t].try < Attempts
        PROVE  \E r : Effect(t, r)
    <2>1. PICK r : r = [To(t, "claim") EXCEPT !.node = m]
      OBVIOUS
    <2>2. "claim" \in Points
      BY DEF Points
    <2>3. /\ To(t, "claim") \in Job /\ To(t, "claim").at = "claim"
          /\ To(t, "claim").try = job[t].try /\ To(t, "claim").phase = job[t].phase
      BY <1>1, <2>2, ToIs
    <2>4. /\ r \in Job /\ r.at = "claim" /\ r.node = m /\ r.try = job[t].try
          /\ r.phase = job[t].phase
      BY <2>1, <2>3 DEF Job
    <2>5. JobOK(r)
      BY <1>1, <1>3, <2>4 DEF JobOK, Switching, Guarded, Called, Maintaining
    <2>6. job' = [job EXCEPT ![t] = r]
      BY <1>3, <2>1 DEF Goes
    <2> QED
      BY <1>1, <2>4, <2>5, <2>6, SwitchingOn
  <1>4. ASSUME NEW p \in {"empty", "emptied"}, Goes(t, To(t, p)), job[t].try < Attempts
        PROVE  \E r : Effect(t, r)
    <2>1. PICK r : r = To(t, p)
      OBVIOUS
    <2>2. p \in Points
      BY DEF Points, Stopping
    <2>3. /\ r \in Job /\ r.at = p /\ r.try = job[t].try /\ r.phase = job[t].phase
      BY <1>1, <2>1, <2>2, ToIs
    <2>4. JobOK(r)
      BY <1>1, <1>4, <2>3 DEF JobOK, Switching, Guarded, Called, Maintaining
    <2>5. job' = [job EXCEPT ![t] = r]
      BY <1>4, <2>1 DEF Goes
    <2>6. r.at \in Switching
      BY <2>3 DEF Switching
    <2> QED
      BY <1>1, <2>3, <2>4, <2>5, <2>6, SwitchingOn
  <1>5. CASE Choose(t)
    <2>1. \/ Goes(t, Switched(t))
          \/ \E m \in Filtered(cfg) : /\ Goes(t, [To(t, "claim") EXCEPT !.node = m])
                                      /\ job[t].try < Attempts
          \/ Goes(t, To(t, "empty")) /\ job[t].try < Attempts
      BY <1>5 DEF Choose
    <2>2. Filtered(cfg) \subseteq Nodes
      BY DEF IInv, TypeOK, Filtered
    <2> QED
      BY <1>1, <1>3, <1>4, <2>1, <2>2, SwitchReturns
  <1>6. CASE Demote(t)
    <2>1. PICK r : r = [To(t, "choose") EXCEPT !.try = To(t, "choose").try + 1]
      OBVIOUS
    <2>2. "choose" \in Points
      BY DEF Points
    <2>3. /\ To(t, "choose") \in Job /\ To(t, "choose").at = "choose"
          /\ To(t, "choose").try = job[t].try /\ To(t, "choose").phase = job[t].phase
      BY <1>1, <2>2, ToIs
    <2>4. job[t].try < Attempts /\ job[t].try + 1 \in 0..Attempts
      BY <1>1, <1>2, <1>6 DEF Demote, At, JobOK
    <2>5. /\ r \in Job /\ r.at = "choose" /\ r.try = job[t].try + 1
          /\ r.phase = job[t].phase
      BY <2>1, <2>3, <2>4 DEF Job, Tries
    <2>6. JobOK(r)
      BY <1>1, <2>4, <2>5 DEF JobOK, Switching, Guarded, Called, Maintaining
    <2>7. job' = [job EXCEPT ![t] = r]
      BY <1>6, <2>1 DEF Demote, Goes
    <2>8. r.at \in Switching
      BY <2>5 DEF Switching
    <2> QED
      BY <1>1, <2>5, <2>6, <2>7, <2>8, SwitchingOn
  <1>7. CASE Empty(t)
    <2>1. job[t].try < Attempts
      BY <1>1, <1>7 DEF Empty, At, JobOK
    <2> QED
      BY <1>4, <1>7, <2>1 DEF Empty
  <1>8. CASE Emptied(t)
    BY <1>1, <1>8, SwitchReturns DEF Emptied
  <1> QED
    BY <1>5, <1>6, <1>7, <1>8

LEMMA MaintenanceSteps ==
    ASSUME IInv, NEW t \in Threads,
           \/ Enter(t) \/ Begin(t) \/ Fixed(t) \/ Unmark(t) \/ Remark(t) \/ Fetch(t) \/ Fast(t)
           \/ Back(t) \/ Test(t) \/ Report(t) \/ Finally(t)
    PROVE  \E r : Effect(t, r)
  <1>1. /\ JobOK(job[t]) /\ job[t] \in Job /\ Attempts \in Nat /\ None \notin Nat
    BY SingleExitAssumption DEF IInv, Jobs, JobOK
  <1>2. ASSUME Enter(t)
        PROVE  \E r : Effect(t, r)
    <2>1. CASE /\ mlock' = t /\ mark' /\ full' = TRUE
               /\ Goes(t, To(t, "begin"))
      <3>1. PICK r : r = To(t, "begin")
        OBVIOUS
      <3>2. "begin" \in Points
        BY DEF Points
      <3>3. r \in Job /\ r.at = "begin" /\ r.try = job[t].try
        BY <1>1, <3>1, <3>2, ToIs
      <3>4. r.try = None /\ job[t].at = "enter"
        BY <1>1, <1>2, <3>3 DEF Enter, At, JobOK
      <3>5. JobOK(r) /\ Holds(r) /\ r.at \in WillFree
        BY <3>3, <3>4 DEF JobOK, Holds, WillFree, Guarded, Called, Maintaining
      <3>6. job' = [job EXCEPT ![t] = r]
        BY <2>1, <3>1 DEF Goes
      <3> QED
        BY <2>1, <3>5, <3>6 DEF Effect
    <2>2. CASE Goes(t, Maintained(t)) /\ UNCHANGED <<mlock, mark, full>>
      <3>1. PICK r : r = Maintained(t)
        OBVIOUS
      <3>2. JobOK(r) /\ r.at \in {"idle", "choose"} /\ r.phase = "none"
        BY <1>1, <3>1, MaintainedIs
      <3>3. job' = [job EXCEPT ![t] = r]
        BY <2>2, <3>1 DEF Goes
      <3>4. job[t].at \in Aside /\ r.at \in Aside \cup {"claim", "choose"}
        BY <1>2, <3>2 DEF Enter, At, Aside
      <3> QED
        BY <2>2, <3>2, <3>3, <3>4, AsideOn
    <2> QED
      BY <1>2, <2>1, <2>2 DEF Enter
  <1>3. ASSUME Begin(t)
        PROVE  \E r : Effect(t, r)
    <2>1. job[t].at \in Maintaining /\ UNCHANGED <<mark, mlock, full>>
      BY <1>3 DEF Begin, At, Maintaining, hist
    <2>2. \E p \in {"fixed", "unmark", "fetch"} : Goes(t, To(t, p))
      BY <1>3 DEF Begin
    <2>3. {"fixed", "unmark", "fetch"} \subseteq Maintaining \cap WillFree
      BY DEF Maintaining, WillFree
    <2> QED
      BY <2>1, <2>2, <2>3, MaintainingTo
  <1>4. ASSUME Fixed(t)
        PROVE  \E r : Effect(t, r)
    <2>1. job[t].at = "fixed" /\ job[t].at \in Maintaining /\ UNCHANGED <<mlock, full>>
      BY <1>4 DEF Fixed, At, Maintaining, hist
    <2>2. CASE Goes(t, To(t, "fetch")) /\ UNCHANGED mark
      <3>1. "fetch" \in Maintaining \cap WillFree
        BY DEF Maintaining, WillFree
      <3> QED
        BY <2>1, <2>2, <3>1, MaintainingTo
    <2>3. ASSUME NEW n \in Nodes, mark' = FALSE,
                 Goes(t, [To(t, "claim") EXCEPT !.node = n, !.phase = "fixed", !.saved = mark])
          PROVE  \E r : Effect(t, r)
      <3>1. PICK r : r = [To(t, "claim") EXCEPT !.node = n, !.phase = "fixed", !.saved = mark]
        OBVIOUS
      <3>2. "claim" \in Points
        BY DEF Points
      <3>3. To(t, "claim") \in Job /\ To(t, "claim").at = "claim" /\ To(t, "claim").try = job[t].try
        BY <1>1, <3>2, ToIs
      <3>4. r \in Job /\ r.at = "claim" /\ r.node = n /\ r.try = job[t].try /\ r.phase = "fixed"
        BY <3>1, <3>3 DEF Job, IInv, TypeOK
      <3>5. job[t].try = None
        BY <1>1, <2>1 DEF JobOK
      <3>6. JobOK(r) /\ Holds(r)
        BY <3>4, <3>5 DEF JobOK, Holds, Guarded, Called, Maintaining
      <3>7. job' = [job EXCEPT ![t] = r]
        BY <2>3, <3>1 DEF Goes
      <3> QED
        BY <2>1, <2>3, <3>6, <3>7, MaintainingOn
    <2>4. FixedNode \subseteq Nodes
      BY DEF FixedNode, IInv, TypeOK
    <2> QED
      BY <1>4, <2>2, <2>3, <2>4 DEF Fixed
  <1>5. ASSUME NEW ph \in {"begin", "fast"}, job[t].at \in Maintaining, mark' = FALSE,
               UNCHANGED <<mlock, full>>,
               Goes(t, [To(t, "choose") EXCEPT !.try = 0, !.phase = ph])
        PROVE  \E r : Effect(t, r)
    <2>1. PICK r : r = [To(t, "choose") EXCEPT !.try = 0, !.phase = ph]
      OBVIOUS
    <2>2. "choose" \in Points
      BY DEF Points
    <2>3. To(t, "choose") \in Job /\ To(t, "choose").at = "choose"
      BY <1>1, <2>2, ToIs
    <2>4. 0 \in 0..Attempts /\ 0 # None
      BY <1>1
    <2>5. r \in Job /\ r.at = "choose" /\ r.try = 0 /\ r.phase = ph
      BY <2>1, <2>3, <2>4 DEF Job, Tries
    <2>6. JobOK(r) /\ Holds(r)
      BY <2>4, <2>5 DEF JobOK, Holds, Guarded, Called, Maintaining
    <2>7. job' = [job EXCEPT ![t] = r]
      BY <1>5, <2>1 DEF Goes
    <2> QED
      BY <1>5, <2>6, <2>7, MaintainingOn
  <1>6. ASSUME Unmark(t)
        PROVE  \E r : Effect(t, r)
    <2>1. job[t].at \in Maintaining /\ mark' = FALSE /\ UNCHANGED <<mlock, full>>
      BY <1>6 DEF Unmark, At, Maintaining, hist
    <2> QED
      BY <1>5, <1>6, <2>1 DEF Unmark
  <1>7. ASSUME NEW p \in {"fetch", "finally", "test"}, job[t].at \in Maintaining,
               UNCHANGED <<mlock, full>>,
               \/ Goes(t, [To(t, p) EXCEPT !.phase = "none"])
               \/ Goes(t, [To(t, p) EXCEPT !.phase = "none", !.saved = FALSE])
        PROVE  \E r : Effect(t, r)
    <2>1. PICK r : /\ Goes(t, r)
                   /\ \/ r = [To(t, p) EXCEPT !.phase = "none"]
                      \/ r = [To(t, p) EXCEPT !.phase = "none", !.saved = FALSE]
      BY <1>7
    <2>2. p \in Points
      BY DEF Points
    <2>3. To(t, p) \in Job /\ To(t, p).at = p /\ To(t, p).try = job[t].try
      BY <1>1, <2>2, ToIs
    <2>4. r \in Job /\ r.at = p /\ r.try = job[t].try
      BY <2>1, <2>3 DEF Job
    <2>5. job[t].try = None
      BY <1>1, <1>7 DEF JobOK
    <2>6. JobOK(r) /\ Holds(r) /\ r.at \in WillFree
      BY <2>4, <2>5 DEF JobOK, Holds, WillFree, Guarded, Called, Maintaining
    <2>7. job' = [job EXCEPT ![t] = r]
      BY <1>7, <2>1 DEF Goes
    <2> QED
      BY <1>7, <2>6, <2>7, MaintainingOn
  <1>8. ASSUME Remark(t) \/ Back(t)
        PROVE  \E r : Effect(t, r)
    <2>1. job[t].at \in Maintaining /\ UNCHANGED <<mlock, full>>
      BY <1>8 DEF Remark, Back, At, Maintaining, hist
    <2>2. \E p \in {"fetch", "finally", "test"} :
             \/ Goes(t, [To(t, p) EXCEPT !.phase = "none"])
             \/ Goes(t, [To(t, p) EXCEPT !.phase = "none", !.saved = FALSE])
      BY <1>8 DEF Remark, Back
    <2> QED
      BY <1>7, <2>1, <2>2
  <1>9. ASSUME Fetch(t)
        PROVE  \E r : Effect(t, r)
    <2>1. job[t].at \in Maintaining /\ UNCHANGED <<mark, mlock, full>>
      BY <1>9 DEF Fetch, At, Maintaining, hist
    <2>2. \E p \in {"fast", "finally"} : Goes(t, To(t, p))
      BY <1>9 DEF Fetch
    <2>3. {"fast", "finally"} \subseteq Maintaining \cap WillFree
      BY DEF Maintaining, WillFree
    <2> QED
      BY <2>1, <2>2, <2>3, MaintainingTo
  <1>10. ASSUME Fast(t)
         PROVE  \E r : Effect(t, r)
    <2>1. job[t].at \in Maintaining /\ UNCHANGED <<mlock, full>>
      BY <1>10 DEF Fast, At, Maintaining, hist
    <2>2. CASE Goes(t, To(t, "test")) /\ UNCHANGED mark
      <3>1. "test" \in Maintaining \cap WillFree
        BY DEF Maintaining, WillFree
      <3> QED
        BY <2>1, <2>2, <3>1, MaintainingTo
    <2>3. CASE mark' = FALSE /\ Goes(t, [To(t, "choose") EXCEPT !.try = 0, !.phase = "fast"])
      BY <1>5, <2>1, <2>3
    <2> QED
      BY <1>10, <2>2, <2>3 DEF Fast
  <1>11. ASSUME Test(t)
         PROVE  \E r : Effect(t, r)
    <2>1. job[t].at \in Maintaining /\ mark' = FALSE /\ UNCHANGED <<mlock, full>>
      BY <1>11 DEF Test, At, Maintaining, hist
    <2>2. "report" \in Maintaining /\ Goes(t, To(t, "report"))
      BY <1>11 DEF Test, Maintaining
    <2> QED
      BY <2>1, <2>2, MaintainingTo
  <1>12. ASSUME Report(t)
         PROVE  \E r : Effect(t, r)
    <2>1. job[t].at \in Maintaining /\ UNCHANGED <<mark, mlock, full>>
      BY <1>12 DEF Report, At, Maintaining, hist
    <2>2. "finally" \in Maintaining \cap WillFree /\ Goes(t, To(t, "finally"))
      BY <1>12 DEF Report, Maintaining, WillFree
    <2> QED
      BY <2>1, <2>2, MaintainingTo
  <1>13. ASSUME Finally(t)
         PROVE  \E r : Effect(t, r)
    <2>1. PICK r : r = Maintained(t)
      OBVIOUS
    <2>2. JobOK(r)
      BY <1>1, <2>1, MaintainedIs
    <2>3. /\ job[t].at \in Maintaining /\ mark' = FALSE /\ mlock' = None /\ full' = full
          /\ job' = [job EXCEPT ![t] = r]
      BY <1>13, <2>1 DEF Finally, At, Maintaining, hist, Goes
    <2>4. full
      BY <2>3 DEF IInv, Alone, Apart
    <2> QED
      BY <2>2, <2>3, <2>4 DEF Effect
  <1> QED
    BY <1>2, <1>3, <1>4, <1>6, <1>8, <1>9, <1>10, <1>11, <1>12, <1>13

LEMMA RequestSteps ==
    ASSUME IInv, NEW t \in Threads,
           \/ Cut(t) \/ CutFlags(t) \/ Enforce(t) \/ Bar(t) \/ BarFlags(t) \/ Tested(t)
           \/ Ask(t) \/ Runs(t)
    PROVE  \E r : Effect(t, r)
  <1>1. /\ JobOK(job[t]) /\ job[t] \in Job
    BY DEF IInv, Jobs, JobOK
  <1>2. ASSUME \/ Cut(t) \/ CutFlags(t) \/ Enforce(t) \/ Bar(t) \/ BarFlags(t)
               \/ AskDisconnect(t) \/ AskRoute(t) \/ AskFavorite(t)
        PROVE  \E r : Effect(t, r)
    <2>1. job[t].at \in Aside /\ UNCHANGED <<mark, mlock, full>>
      BY <1>2 DEF Cut, CutFlags, Enforce, Bar, BarFlags, AskDisconnect, AskRoute, AskFavorite,
         At, Aside, hist, Crosses
    <2>2. \E p \in Aside \ {"enter"} : Goes(t, To(t, p)) \/ Goes(t, Idle)
      <3>1. {"cut", "cutflags", "enforce", "bar", "barflags"} \subseteq Aside \ {"enter"}
        BY DEF Aside
      <3>2. CASE CutFlags(t) \/ BarFlags(t)
        BY <3>1, <3>2 DEF CutFlags, BarFlags
      <3>3. CASE Cut(t) \/ Bar(t) \/ AskDisconnect(t) \/ AskRoute(t)
        BY <3>1, <3>3 DEF Cut, Bar, AskDisconnect, AskRoute
      <3>4. CASE Enforce(t)
        <4>1. Goes(t, To(t, "bar")) \/ Goes(t, Idle)
          BY <3>4 DEF Enforce
        <4> QED
          BY <3>1, <4>1
      <3>5. CASE AskFavorite(t)
        <4>1. Goes(t, To(t, "enforce")) \/ Goes(t, Idle)
          BY <3>5 DEF AskFavorite
        <4> QED
          BY <3>1, <4>1
      <3> QED
        BY <1>2, <3>2, <3>3, <3>4, <3>5
    <2> QED
      BY <2>1, <2>2, AsideTo
  <1>3. ASSUME AskConnect(t)
        PROVE  \E r : Effect(t, r)
    <2>1. PICK n \in Nodes : Goes(t, [Idle EXCEPT !.at = "claim", !.node = n])
      BY <1>3 DEF AskConnect
    <2>2. PICK r : r = [Idle EXCEPT !.at = "claim", !.node = n]
      OBVIOUS
    <2>3. r \in Job /\ r.at = "claim" /\ r.node = n /\ r.try = None /\ r.phase = "none"
      BY <2>2, IdleIs DEF JobOK, Job, Points
    <2>4. JobOK(r)
      BY <2>3 DEF JobOK, Guarded, Called, Maintaining
    <2>5. job' = [job EXCEPT ![t] = r]
      BY <2>1, <2>2 DEF Goes
    <2>6. job[t].at \in Aside /\ UNCHANGED <<mark, mlock, full>>
      BY <1>3 DEF AskConnect, At, Aside, hist
    <2> QED
      BY <2>3, <2>4, <2>5, <2>6, AsideOn
  <1>4. ASSUME AskCheck(t)
        PROVE  \E r : Effect(t, r)
    <2>1. PICK r : r = [Idle EXCEPT !.at = "enter", !.force = TRUE]
      OBVIOUS
    <2>2. r \in Job /\ r.at = "enter" /\ r.try = None /\ r.phase = "none"
      BY <2>1, IdleIs DEF JobOK, Job, Points
    <2>3. JobOK(r)
      BY <2>2 DEF JobOK, Guarded, Called, Maintaining
    <2>4. job' = [job EXCEPT ![t] = r]
      BY <1>4, <2>1 DEF AskCheck, Goes
    <2>5. job[t].at \in Aside /\ r.at \in Aside /\ UNCHANGED <<mark, mlock, full>>
      BY <1>4, <2>2 DEF AskCheck, At, Aside, hist
    <2> QED
      BY <2>2, <2>3, <2>4, <2>5, AsideOn
  <1>5. ASSUME Runs(t)
        PROVE  \E r : Effect(t, r)
    <2>1. PICK q \in spawned :
              Goes(t, IF q.op = "switch" THEN [Idle EXCEPT !.at = "choose", !.try = q.try]
                      ELSE [Idle EXCEPT !.at = "enter", !.after = q.try])
      BY <1>5 DEF Runs
    <2>2. PICK r : r = IF q.op = "switch" THEN [Idle EXCEPT !.at = "choose", !.try = q.try]
                       ELSE [Idle EXCEPT !.at = "enter", !.after = q.try]
      OBVIOUS
    <2>3. q.try \in 0..Attempts /\ q.try # None /\ Attempts \in Nat
      BY SingleExitAssumption DEF IInv, TypeOK
    <2>4. JobOK(r) /\ r.at \in {"choose", "enter"} /\ r.phase = "none"
      <3>1. CASE q.op = "switch"
        <4>1. r = [Idle EXCEPT !.at = "choose", !.try = q.try]
          BY <2>2, <3>1
        <4>2. r \in Job /\ r.at = "choose" /\ r.try = q.try /\ r.phase = "none"
          BY <2>3, <4>1, IdleIs DEF JobOK, Job, Points, Tries
        <4> QED
          BY <2>3, <4>2 DEF JobOK, Guarded, Called, Maintaining
      <3>2. CASE q.op # "switch"
        <4>1. r = [Idle EXCEPT !.at = "enter", !.after = q.try]
          BY <2>2, <3>2
        <4>2. r \in Job /\ r.at = "enter" /\ r.try = None /\ r.phase = "none"
          BY <2>3, <4>1, IdleIs DEF JobOK, Job, Points, Tries
        <4> QED
          BY <4>2 DEF JobOK, Guarded, Called, Maintaining
      <3> QED
        BY <3>1, <3>2
    <2>5. job' = [job EXCEPT ![t] = r]
      BY <2>1, <2>2 DEF Goes
    <2>6. job[t].at \in Aside /\ r.at \in Aside \cup {"claim", "choose"}
          /\ UNCHANGED <<mark, mlock, full>>
      BY <1>5, <2>4 DEF Runs, At, Aside, hist
    <2> QED
      BY <2>4, <2>5, <2>6, AsideOn
  <1>6. ASSUME AskTest(t)
        PROVE  \E r : Effect(t, r)
    <2>1. PICK r : r = To(t, "testing")
      OBVIOUS
    <2>2. "testing" \in Points
      BY DEF Points
    <2>3. r \in Job /\ r.at = "testing"
      BY <1>1, <2>1, <2>2, ToIs
    <2>4. JobOK(r) /\ Holds(r) /\ Apart(r) /\ r.at \in WillFree \cap Excluding
      BY <2>3 DEF JobOK, Holds, Apart, WillFree, Excluding, Guarded, Called, Maintaining
    <2>5. /\ ~mark /\ mark' /\ mlock' = t /\ full' = full
          /\ job' = [job EXCEPT ![t] = r]
      BY <1>6, <2>1 DEF AskTest, Goes, hist
    <2> QED
      BY <2>4, <2>5 DEF Effect
  <1>7. ASSUME Tested(t)
        PROVE  \E r : Effect(t, r)
    <2>1. /\ job[t].at = "testing" /\ mark' = FALSE /\ mlock' = None /\ full' = full
          /\ job' = [job EXCEPT ![t] = Idle]
      BY <1>7 DEF Tested, At, Goes, hist
    <2>2. ~full => mark
      BY <2>1 DEF IInv, Alone, OneAtATime, Marked
    <2>3. Apart(Idle) /\ Idle.at \notin Excluding /\ job[t].at \in Excluding
      BY <2>1, IdleIs DEF Apart, Excluding, Guarded, Called, Maintaining
    <2> QED
      BY <2>1, <2>2, <2>3, IdleIs DEF Effect
  <1> QED
    BY <1>2, <1>3, <1>4, <1>5, <1>6, <1>7 DEF Ask

LEMMA Kept ==
    ASSUME IInv, NEW t \in Threads, NEW r, Effect(t, r), mark' \in BOOLEAN
    PROVE  job' \in [Threads -> Job] /\ Jobs' /\ Locked' /\ Freed' /\ Alone'
  <1>1. job \in [Threads -> Job] /\ mark \in BOOLEAN /\ mlock \in Threads \cup {None}
        /\ None \notin Threads
    BY SingleExitAssumption DEF IInv, TypeOK
  <1>2. \A u \in Threads : job'[u] = IF u = t THEN r ELSE job[u]
    BY <1>1 DEF Effect
  <1>3. job' \in [Threads -> Job] /\ Jobs'
    BY <1>1, <1>2 DEF Effect, IInv, Jobs, JobOK
  <1>4. Locked'
    BY <1>1, <1>2 DEF Effect, IInv, Locked
  <1>5. Freed'
    BY <1>1, <1>2 DEF Effect, IInv, Freed
  <1>6. ASSUME ~full'
        PROVE  (\A u \in Threads : Apart(job'[u])) /\ OneAtATime'
    <2>1. ~full /\ Apart(r)
      BY <1>6 DEF Effect
    <2>2. \A u \in Threads : Apart(job'[u])
      BY <1>2, <2>1 DEF IInv, Alone
    <2>3. /\ Marked = {u \in Threads : job[u].at \in Excluding}
          /\ Marked' = {u \in Threads : job'[u].at \in Excluding}
      BY DEF Marked, Excluding
    <2>4. /\ mark <=> Marked # {}
          /\ \A u, v \in Marked : u = v
      BY <2>1 DEF IInv, Alone, OneAtATime
    <2>5. CASE mark' = mark /\ (r.at \in Excluding <=> job[t].at \in Excluding)
      <3>1. Marked' = Marked
        BY <1>2, <2>3, <2>5
      <3> QED
        BY <2>2, <2>4, <2>5, <3>1 DEF OneAtATime
    <2>6. CASE ~mark /\ mark' /\ r.at \in Excluding
      <3>1. Marked' = {t}
        BY <1>2, <2>3, <2>4, <2>6
      <3> QED
        BY <2>2, <2>6, <3>1 DEF OneAtATime
    <2>7. CASE mark /\ ~mark' /\ job[t].at \in Excluding /\ r.at \notin Excluding
      <3>1. Marked' = {}
        BY <1>2, <2>3, <2>4, <2>7
      <3> QED
        BY <2>2, <2>7, <3>1 DEF OneAtATime
    <2> QED
      BY <1>6, <2>5, <2>6, <2>7 DEF Effect
  <1>7. Alone'
    BY <1>6 DEF Alone
  <1> QED
    BY <1>3, <1>4, <1>5, <1>7

\* All but the threads' own variables.
Globals ==
    /\ procs \in [Procs -> Nodes \cup {None}]
    /\ recorded \in Procs \cup {None}
    /\ activeId \in Nodes \cup {None}
    /\ active \subseteq Nodes
    /\ mark \in BOOLEAN
    /\ mlock \in Threads \cup {None}
    /\ cfg \in [enabled : BOOLEAN, mode : Modes, list : SUBSET Nodes, fixed : Nodes \cup {None}]
    /\ spawned \subseteq [op : {"switch", "refetch"}, try : 0..Attempts]
    /\ left \in 0..Requests
    /\ full \in BOOLEAN /\ crossed \in BOOLEAN

LEMMA TypeSplit == TypeOK <=> Globals /\ job \in [Threads -> Job]
  BY DEF TypeOK, Globals

LEMMA StopTyped == StopActive => /\ procs' \in [Procs -> Nodes \cup {None}]
                                 /\ recorded' = None /\ activeId' = None
  BY DEF StopActive, KillExisting

LEMMA SpawnTyped ==
    ASSUME NEW op \in {"switch", "refetch"}, NEW try \in 0..Attempts, Spawn(op, try), Globals
    PROVE  spawned' \subseteq [op : {"switch", "refetch"}, try : 0..Attempts]
  BY DEF Spawn, Globals

LEMMA ConnectTypes ==
    ASSUME IInv, NEW t \in Threads,
           \/ Claim(t) \/ Read(t) \/ Stop(t) \/ Start(t) \/ Ready(t) \/ NotReady(t) \/ Record(t)
           \/ Publish(t) \/ Check(t) \/ Drop(t) \/ Unflag(t) \/ Release(t)
    PROVE  Globals'
  <1>1. Globals /\ JobOK(job[t])
    BY TypeSplit DEF IInv, Jobs
  <1>2. CASE Claim(t) \/ Ready(t) \/ Unflag(t) \/ Release(t)
    BY <1>1, <1>2 DEF Globals, Claim, Ready, Unflag, Release, tun, hist
  <1>3. CASE Read(t)
    <2>1. cfg' = cfg \/ cfg' = [cfg EXCEPT !.enabled = TRUE,
                                           !.fixed = IF cfg.mode = "fixed" THEN job[t].node ELSE cfg.fixed]
      BY <1>3 DEF Read
    <2>2. job[t].node \in Nodes
      BY <1>1, <1>3 DEF Read, At, JobOK, Guarded
    <2>3. cfg' \in [enabled : BOOLEAN, mode : Modes, list : SUBSET Nodes, fixed : Nodes \cup {None}]
      BY <1>1, <2>1, <2>2 DEF Globals
    <2> QED
      BY <1>1, <1>3, <2>3 DEF Globals, Read, tun, hist
  <1>4. CASE Stop(t)
    BY <1>1, <1>4, StopTyped DEF Globals, Stop, hist
  <1>5. CASE Start(t) \/ NotReady(t) \/ Record(t) \/ Publish(t) \/ Check(t) \/ Drop(t)
    <2>1. job[t].node \in Nodes
      BY <1>1, <1>5 DEF Start, NotReady, Record, Publish, Check, Drop, At, JobOK, Guarded
    <2>2. CASE Start(t)
      <3>1. procs' = procs \/ \E p \in Procs : procs' = [procs EXCEPT ![p] = job[t].node]
        BY <2>2 DEF Start, Fresh
      <3>2. procs' \in [Procs -> Nodes \cup {None}]
        BY <1>1, <2>1, <3>1 DEF Globals
      <3> QED
        BY <1>1, <2>2, <3>2 DEF Globals, Start, hist
    <2>3. CASE NotReady(t) \/ Record(t) \/ Publish(t)
      <3>1. job[t].proc \in Procs
        BY <1>1, <2>3 DEF NotReady, Record, Publish, At, JobOK
      <3>2. procs' \in [Procs -> Nodes \cup {None}]
        BY <1>1, <2>3, <3>1 DEF Globals, NotReady, Record, Publish, tun
      <3>3. recorded' \in Procs \cup {None} /\ activeId' \in Nodes \cup {None} /\ active' \subseteq Nodes
        BY <1>1, <2>1, <2>3, <3>1 DEF Globals, NotReady, Record, Publish, tun
      <3>4. UNCHANGED <<mark, mlock, cfg, spawned, left, full, crossed>>
        BY <2>3 DEF NotReady, Record, Publish, hist
      <3> QED
        BY <1>1, <3>2, <3>3, <3>4 DEF Globals
    <2>4. CASE Check(t)
      <3>1. active' \in {active, {}, {job[t].node}}
        BY <2>4 DEF Check, Passes, Rejected, NoExit
      <3> QED
        BY <1>1, <2>1, <2>4, <3>1 DEF Globals, Check, tun, hist
    <2>5. CASE Drop(t)
      BY <1>1, <2>5 DEF Globals, Drop, hist
    <2> QED
      BY <1>5, <2>2, <2>3, <2>4, <2>5
  <1> QED
    BY <1>2, <1>3, <1>4, <1>5

LEMMA OtherTypes ==
    ASSUME IInv, NEW t \in Threads,
           \/ Choose(t) \/ Demote(t) \/ Empty(t) \/ Emptied(t)
           \/ Enter(t) \/ Begin(t) \/ Fixed(t) \/ Unmark(t) \/ Remark(t) \/ Fetch(t) \/ Fast(t)
           \/ Back(t) \/ Test(t) \/ Report(t) \/ Finally(t)
           \/ Cut(t) \/ CutFlags(t) \/ Enforce(t) \/ Bar(t) \/ BarFlags(t) \/ Tested(t)
           \/ Ask(t) \/ Runs(t)
    PROVE  Globals'
  <1>1. Globals /\ JobOK(job[t]) /\ Attempts \in Nat /\ Requests \in Nat /\ None \notin Nat
    BY TypeSplit, SingleExitAssumption DEF IInv, Jobs
  <1>2. CASE Choose(t)
    BY <1>1, <1>2 DEF Globals, Choose, Crosses, tun
  <1>3. CASE Demote(t) \/ Unmark(t) \/ Remark(t) \/ Fetch(t) \/ Fast(t) \/ Back(t) \/ Test(t)
             \/ Finally(t) \/ Fixed(t)
    <2>1. job[t].saved \in BOOLEAN
      BY <1>1 DEF JobOK, Job
    <2>2. CASE Remark(t)
      BY <1>1, <2>1, <2>2 DEF Globals, Remark, tun, hist
    <2>3. CASE ~Remark(t)
      BY <1>1, <1>3, <2>3 DEF Globals, Demote, Unmark, Fetch, Fast, Back, Test, Finally, Fixed,
         tun, hist
    <2> QED
      BY <2>2, <2>3
  <1>4. CASE Empty(t) \/ Cut(t) \/ Bar(t)
    BY <1>1, <1>4, StopTyped DEF Globals, Empty, Cut, Bar, hist
  <1>5. CASE Emptied(t)
    <2>1. job[t].try + 1 \in 0..Attempts
      BY <1>1, <1>5 DEF Emptied, At, JobOK, Job, Tries
    <2>2. spawned' \subseteq [op : {"switch", "refetch"}, try : 0..Attempts]
      BY <1>1, <1>5, <2>1, SpawnTyped DEF Emptied
    <2> QED
      BY <1>1, <1>5, <2>2 DEF Globals, Emptied, tun, hist
  <1>6. CASE Enter(t)
    BY <1>1, <1>6 DEF Globals, Enter, tun
  <1>7. CASE Begin(t)
    <2>1. StopActive \/ UNCHANGED tun
      BY <1>7 DEF Begin
    <2> QED
      BY <1>1, <1>7, <2>1, StopTyped DEF Globals, Begin, tun, hist
  <1>8. CASE Report(t) \/ BarFlags(t) \/ Tested(t)
    <2>1. Spawn("switch", 0) \/ UNCHANGED spawned
      BY <1>8 DEF Report, BarFlags, Tested
    <2>2. 0 \in 0..Attempts
      BY <1>1
    <2>3. spawned' \subseteq [op : {"switch", "refetch"}, try : 0..Attempts]
      BY <1>1, <2>1, <2>2, SpawnTyped DEF Globals
    <2> QED
      BY <1>1, <1>8, <2>3 DEF Globals, Report, BarFlags, Tested, tun, hist
  <1>9. CASE CutFlags(t) \/ Enforce(t) \/ Runs(t)
    BY <1>1, <1>9 DEF Globals, CutFlags, Enforce, Runs, tun, hist
  <1>10. CASE Ask(t)
    <2>1. left' \in 0..Requests
      <3>1. \E op : Occurs(op)
        BY <1>10 DEF Ask, AskConnect, AskDisconnect, AskRoute, AskFavorite, AskCheck, AskTest
      <3> QED
        BY <1>1, <3>1 DEF Globals, Occurs
    <2>2. CASE AskConnect(t) \/ AskCheck(t) \/ AskTest(t)
      BY <1>1, <2>1, <2>2 DEF Globals, AskConnect, AskCheck, AskTest, tun, hist
    <2>3. FixedNode \subseteq Nodes
      BY <1>1 DEF FixedNode, Globals
    <2>4. CASE AskDisconnect(t) \/ AskRoute(t) \/ AskFavorite(t)
      <3>1. cfg' \in [enabled : BOOLEAN, mode : Modes, list : SUBSET Nodes, fixed : Nodes \cup {None}]
        <4>1. CASE AskDisconnect(t)
          BY <1>1, <4>1 DEF Globals, AskDisconnect
        <4>2. CASE AskRoute(t)
          BY <1>1, <2>3, <4>2 DEF Globals, AskRoute, Modes
        <4>3. CASE AskFavorite(t)
          BY <1>1, <4>3 DEF Globals, AskFavorite
        <4> QED
          BY <2>4, <4>1, <4>2, <4>3
      <3> QED
        BY <1>1, <2>1, <2>4, <3>1 DEF Globals, AskDisconnect, AskRoute, AskFavorite, Crosses, tun
    <2> QED
      BY <1>10, <2>2, <2>4 DEF Ask
  <1> QED
    BY <1>2, <1>3, <1>4, <1>5, <1>6, <1>7, <1>8, <1>9, <1>10

----------------------------------------------------------------------------

LEMMA InitInv == Init => IInv
  <1> SUFFICES ASSUME Init PROVE IInv
    OBVIOUS
  <1>1. \A t \in Threads : job[t] = Idle
    BY DEF Init
  <1>2. Idle \in Job
    BY IdleIs DEF JobOK
  <1>3. TypeOK
    <2>1. procs \in [Procs -> Nodes \cup {None}] /\ job \in [Threads -> Job]
      BY <1>2 DEF Init
    <2>2. cfg \in [enabled : BOOLEAN, mode : Modes, list : SUBSET Nodes, fixed : Nodes \cup {None}]
      BY DEF Init, Modes
    <2>3. left \in 0..Requests
      BY SingleExitAssumption DEF Init
    <2> QED
      BY <2>1, <2>2, <2>3 DEF Init, TypeOK
  <1>4. Jobs /\ Locked /\ Freed
    BY <1>1, IdleIs DEF Init, Jobs, Locked, Freed
  <1>5. Alone
    BY <1>1, IdleIs DEF Init, Alone, OneAtATime, Marked, Apart, Maintaining, Called, Guarded
  <1> QED
    BY <1>3, <1>4, <1>5 DEF IInv

LEMMA ThreadEffect ==
    ASSUME IInv, NEW t \in Threads, Step(t) \/ Ask(t) \/ Runs(t)
    PROVE  Globals' /\ \E r : Effect(t, r)
  <1>1. CASE \/ Claim(t) \/ Read(t) \/ Stop(t) \/ Start(t) \/ Ready(t) \/ NotReady(t)
             \/ Record(t) \/ Publish(t) \/ Check(t) \/ Drop(t) \/ Unflag(t) \/ Release(t)
    BY <1>1, ConnectSteps, ConnectTypes
  <1>2. CASE Choose(t) \/ Demote(t) \/ Empty(t) \/ Emptied(t)
    BY <1>2, SwitchSteps, OtherTypes
  <1>3. CASE \/ Enter(t) \/ Begin(t) \/ Fixed(t) \/ Unmark(t) \/ Remark(t) \/ Fetch(t)
             \/ Fast(t) \/ Back(t) \/ Test(t) \/ Report(t) \/ Finally(t)
    BY <1>3, MaintenanceSteps, OtherTypes
  <1>4. CASE \/ Cut(t) \/ CutFlags(t) \/ Enforce(t) \/ Bar(t) \/ BarFlags(t) \/ Tested(t)
             \/ Ask(t) \/ Runs(t)
    BY <1>4, RequestSteps, OtherTypes
  <1> QED
    BY <1>1, <1>2, <1>3, <1>4 DEF Step

LEMMA DiesEffect ==
    ASSUME IInv, Dies
    PROVE  IInv'
  <1>1. Requests \in Nat
    BY SingleExitAssumption
  <1>2. UNCHANGED <<recorded, activeId, active, mark, mlock, cfg, job, spawned, full, crossed>>
    BY DEF Dies, hist
  <1>3. procs' \in [Procs -> Nodes \cup {None}] /\ left' \in 0..Requests
    BY <1>1 DEF IInv, TypeOK, Dies, Occurs
  <1>4. TypeOK'
    BY <1>2, <1>3 DEF IInv, TypeOK
  <1>5. Jobs' /\ Locked' /\ Freed' /\ Alone'
    BY <1>2 DEF IInv, Jobs, Locked, Freed, Alone, OneAtATime, Marked
  <1> QED
    BY <1>4, <1>5 DEF IInv

LEMMA NextInv == IInv /\ [Next]_vars => IInv'
  <1> SUFFICES ASSUME IInv, [Next]_vars PROVE IInv'
    OBVIOUS
  <1>1. ASSUME NEW t \in Threads, Step(t) \/ Ask(t) \/ Runs(t)
        PROVE  IInv'
    <2>1. Globals' /\ \E r : Effect(t, r)
      BY <1>1, ThreadEffect
    <2>2. mark' \in BOOLEAN
      BY <2>1 DEF Globals
    <2>3. job' \in [Threads -> Job] /\ Jobs' /\ Locked' /\ Freed' /\ Alone'
      BY <2>1, <2>2, Kept
    <2>4. TypeOK'
      BY <2>1, <2>3 DEF TypeOK, Globals
    <2> QED
      BY <2>3, <2>4 DEF IInv
  <1>2. CASE Dies
    BY <1>2, DiesEffect
  <1>3. CASE UNCHANGED vars
    BY <1>3 DEF vars, tun, hist, IInv, TypeOK, Jobs, Locked, Freed, Alone, OneAtATime, Marked
  <1> QED
    BY <1>1, <1>2, <1>3 DEF Next

LEMMA Invariant == Spec => []IInv
  BY InitInv, NextInv, PTL DEF Spec

\* The types.
THEOREM TypeCorrect == Spec => []TypeOK
  <1>1. IInv => TypeOK
    BY DEF IInv
  <1> QED
    BY <1>1, Invariant, PTL

\* As long as no full maintenance has run, is_connecting keeps connections and tests
\* apart, and it is set while there is one, however many threads want to begin.
THEOREM OneAtATimeCorrect == Spec => []OneAtATime
  <1>1. IInv => OneAtATime
    BY DEF IInv, Alone, OneAtATime
  <1> QED
    BY <1>1, Invariant, PTL

\* Whatever the maintenance and the connections do to is_connecting in between, it is
\* off and the lock is free when no thread is at work.
THEOREM MarkFreedCorrect == Spec => []MarkFreed
  <1>1. IInv => MarkFreed
    <2> SUFFICES ASSUME IInv, Quiet PROVE ~mark /\ mlock = None
      BY DEF MarkFreed
    <2>1. \A t \in Threads : job[t].at = "idle"
      BY DEF Quiet, At
    <2>2. ~mark
      BY <2>1 DEF IInv, Freed, WillFree, Guarded, Maintaining
    <2>3. mlock = None
      BY <2>1 DEF IInv, TypeOK, Locked, Holds, Maintaining, Called, Guarded
    <2> QED
      BY <2>2, <2>3
  <1> QED
    BY <1>1, Invariant, PTL

----------------------------------------------------------------------------
(* Tunnels and settings.                                                    *)

\* A thread whose process is not recorded yet.
Starting == {"ready", "record"}

\* A process is recorded or being started, and what is being started is alone.
Behind ==
    /\ \A p \in Procs : procs[p] # None =>
          p = recorded \/ \E t \in Threads : job[t].at \in Starting /\ job[t].proc = p
    /\ \A t \in Threads : job[t].at = "start" => \A p \in Procs : procs[p] = None
    /\ \A t \in Threads : job[t].at \in Starting =>
          \A p \in Procs : procs[p] # None => p = job[t].proc

\* Between a change of the active node and that of the flags.
Flagging == {"start", "ready", "record", "publish", "drop", "unflag", "cutflags", "barflags",
             "emptied"}

\* The recorded process is that of the active node.
Served ==
    /\ recorded # None => procs[recorded] \in {activeId, None}
    /\ \A t \in Threads :
          /\ job[t].at \in Starting \cup {"start"} => recorded = None
          /\ job[t].at \in Starting => procs[job[t].proc] \in {job[t].node, None}

\* The settings hold for what runs and for what is being started, until a change of them
\* has been carried out.
Ruled ==
    /\ Running => \/ cfg.enabled
                  \/ \E t \in Threads : job[t].at = "cut"
    /\ Running => \/ Allowed(activeId, cfg)
                  \/ \E t \in Threads : job[t].at \in {"enforce", "bar"}
    /\ \A t \in Threads : job[t].at \in Starting \cup {"stop", "start"} =>
          cfg.enabled /\ Allowed(job[t].node, cfg)

\* The flags are those of the active node.
Shown ==
    /\ \/ active \subseteq {activeId}
       \/ \E t \in Threads : job[t].at \in Flagging
    /\ \A t \in Threads : job[t].at \in {"publish", "check"} => activeId = job[t].node

Calm == ~(Connecting /\ Changing) /\ Served /\ Ruled /\ Shown

Tidied == /\ ~full => Behind
          /\ ~full /\ ~crossed => Calm

\* The only thread that sets up a tunnel, or tests.
LEMMA Sole ==
    ASSUME IInv, ~full, NEW t \in Threads, NEW u \in Threads,
           job[t].at \in Excluding, job[u].at \in Excluding
    PROVE  t = u
  BY DEF IInv, Alone, OneAtATime, Marked, Excluding

\* A step that leaves the tunnel and the settings alone.
LEMMA Elsewhere ==
    ASSUME IInv, Tidied, NEW t \in Threads, NEW r, job' = [job EXCEPT ![t] = r],
           UNCHANGED <<tun, cfg>>, ~full' => ~full, ~crossed' => ~crossed,
           job[t].at \notin Starting \cup {"cut", "enforce", "bar"},
           r.at \notin Starting \cup {"stop", "start", "publish", "check"},
           \/ active' = {}
           \/ active' \subseteq active /\ (job[t].at \notin Flagging \/ r.at \in Flagging),
           r.at \in Guarded => job[t].at \in Guarded \/ crossed' \/ ~Changing,
           r.at \in Stopping => job[t].at \in Stopping \/ crossed' \/ ~Connecting
    PROVE  Tidied'
  <1>1. \A u \in Threads : job'[u] = IF u = t THEN r ELSE job[u]
    BY DEF IInv, TypeOK
  <1>2. procs' = procs /\ recorded' = recorded /\ activeId' = activeId /\ cfg' = cfg
    BY DEF tun
  <1>3. ASSUME ~full'
        PROVE  Behind'
    <2>1. Behind
      BY <1>3 DEF Tidied
    <2>2. \A u \in Threads : job'[u].at \in Starting <=> job[u].at \in Starting
      BY <1>1
    <2>3. \A u \in Threads : job[u].at \in Starting => job'[u] = job[u]
      BY <1>1
    <2>4. \A u \in Threads : job'[u].at = "start" => job[u].at = "start"
      BY <1>1
    <2> QED
      BY <1>2, <2>1, <2>2, <2>3, <2>4 DEF Behind
  <1>4. ASSUME ~full', ~crossed'
        PROVE  Calm'
    <2>1. Calm
      BY <1>4 DEF Tidied
    <2>2. (~(Connecting /\ Changing))'
      <3>1. Connecting' => Connecting \/ r.at \in Guarded
        BY <1>1 DEF Connecting
      <3>2. Changing' => Changing \/ r.at \in Stopping
        BY <1>1 DEF Changing
      <3>3. r.at \notin Guarded \cap Stopping
        BY DEF Guarded, Stopping
      <3>4. job[t].at \in Guarded => Connecting
        BY DEF Connecting
      <3>5. job[t].at \in Stopping => Changing
        BY DEF Changing
      <3> QED
        BY <1>4, <2>1, <3>1, <3>2, <3>3, <3>4, <3>5 DEF Calm
    <2>3. Served'
      BY <1>1, <1>2, <2>1 DEF Calm, Served
    <2>4. Ruled'
      <3>1. Running' = Running
        BY <1>2 DEF Running
      <3>2. Allowed(activeId, cfg)' = Allowed(activeId, cfg)
        BY <1>2 DEF Allowed
      <3>3. \A u \in Threads : job[u].at \in {"cut", "enforce", "bar"} => job'[u] = job[u]
        BY <1>1
      <3>4. \A u \in Threads : job'[u].at \in Starting \cup {"stop", "start"} => job'[u] = job[u]
        BY <1>1
      <3>5. /\ Running' => \/ cfg'.enabled
                           \/ \E u \in Threads : job'[u].at = "cut"
            /\ Running' => \/ Allowed(activeId, cfg)'
                           \/ \E u \in Threads : job'[u].at \in {"enforce", "bar"}
        BY <1>2, <2>1, <3>1, <3>2, <3>3 DEF Calm, Ruled
      <3>6. \A u \in Threads : job'[u].at \in Starting \cup {"stop", "start"} =>
               cfg'.enabled /\ Allowed(job'[u].node, cfg')
        BY <1>2, <2>1, <3>4 DEF Calm, Ruled, Allowed
      <3> QED
        BY <3>5, <3>6 DEF Ruled, Allowed
    <2>5. Shown'
      <3>1. \A u \in Threads : job'[u].at \in {"publish", "check"} => job'[u] = job[u]
        BY <1>1
      <3>2. \A u \in Threads : job'[u].at \in {"publish", "check"} => activeId' = job'[u].node
        BY <1>2, <2>1, <3>1 DEF Calm, Shown
      <3>3. CASE active' = {}
        BY <3>2, <3>3 DEF Shown
      <3>4. CASE active' \subseteq active /\ (job[t].at \notin Flagging \/ r.at \in Flagging)
        <4>1. \A u \in Threads : job[u].at \in Flagging => job'[u].at \in Flagging
          BY <1>1, <3>4
        <4>2. active' \subseteq {activeId'} \/ \E u \in Threads : job'[u].at \in Flagging
          BY <1>2, <2>1, <3>4, <4>1 DEF Calm, Shown
        <4> QED
          BY <3>2, <4>2 DEF Shown
      <3> QED
        BY <3>3, <3>4
    <2> QED
      BY <2>2, <2>3, <2>4, <2>5 DEF Calm
  <1> QED
    BY <1>3, <1>4 DEF Tidied

\* A step that stops the tunnel.
LEMMA Settles ==
    ASSUME IInv, IInv', Tidied, NEW t \in Threads, NEW r, job' = [job EXCEPT ![t] = r],
           StopActive, UNCHANGED <<active, cfg>>, full' = full, crossed' = crossed,
           \/ job[t].at = "stop" /\ r.at = "start" /\ r.node = job[t].node
           \/ job[t].at \in Stopping /\ r.at \in {"cutflags", "barflags", "emptied"}
    PROVE  Tidied'
  <1>1. \A u \in Threads : job'[u] = IF u = t THEN r ELSE job[u]
    BY DEF IInv, TypeOK
  <1>2. /\ \A p \in Procs : procs'[p] = None
        /\ recorded' = None /\ activeId' = None /\ cfg' = cfg
    BY DEF StopActive, KillExisting
  <1>3. Behind'
    BY <1>2 DEF Behind
  <1>4. ASSUME ~full', ~crossed'
        PROVE  Calm'
    <2>1. Calm
      BY <1>4 DEF Tidied
    <2>2. (~(Connecting /\ Changing))'
      <3>1. Connecting' => Connecting
        BY <1>1 DEF Connecting, Guarded, Stopping
      <3>2. Changing' => Changing
        BY <1>1 DEF Changing, Guarded, Stopping
      <3> QED
        BY <2>1, <3>1, <3>2 DEF Calm
    <2>3. \A u \in Threads : job[u].at \in {"publish", "check"} => FALSE
      <3>1. CASE job[t].at = "stop"
        BY <1>4, <3>1, Sole DEF Excluding, Guarded
      <3>2. CASE job[t].at \in Stopping
        BY <2>1, <3>2 DEF Calm, Connecting, Changing, Guarded
      <3> QED
        BY <3>1, <3>2
    <2>4. Served'
      <3>1. \A u \in Threads : job'[u].at \in Starting => job'[u].proc \in Procs
        BY DEF IInv, Jobs, JobOK, Starting
      <3> QED
        BY <1>2, <3>1 DEF Served
    <2>5. ~Running'
      BY <1>2 DEF Running
    <2>6. \A u \in Threads : job'[u].at \in Starting \cup {"stop", "start"} =>
              /\ job[u].at \in Starting \cup {"stop", "start"}
              /\ job'[u].node = job[u].node
      BY <1>1 DEF Starting
    <2>7. Ruled'
      BY <1>2, <2>1, <2>5, <2>6 DEF Calm, Ruled, Allowed
    <2>8. Shown'
      <3>1. r.at \in Flagging
        BY DEF Flagging
      <3>2. \A u \in Threads : job'[u].at \notin {"publish", "check"}
        BY <1>1, <2>3
      <3> QED
        BY <1>1, <3>1, <3>2 DEF Shown
    <2> QED
      BY <2>2, <2>4, <2>7, <2>8 DEF Calm
  <1> QED
    BY <1>3, <1>4 DEF Tidied

\* A thread of connect_node goes on, and the tunnel and what is shown change with it.
LEMMA Onwards ==
    ASSUME IInv, Tidied, NEW t \in Threads, NEW r \in Job, job' = [job EXCEPT ![t] = r],
           job[t].at \in Guarded, r.at \in Guarded, r.node = job[t].node,
           full' = full, crossed' = crossed,
           ~full => Behind',
           ~full /\ ~crossed => Served' /\ Ruled' /\ Shown'
    PROVE  Tidied'
  <1>1. \A u \in Threads : job'[u] = IF u = t THEN r ELSE job[u]
    BY DEF IInv, TypeOK
  <1>2. Connecting' => Connecting
    BY <1>1 DEF Connecting
  <1>3. Changing' => Changing
    BY <1>1 DEF Changing, Guarded, Stopping
  <1> QED
    BY <1>2, <1>3 DEF Tidied, Calm

LEMMA StartTidied ==
    ASSUME IInv, IInv', Tidied, NEW t \in Threads, Start(t)
    PROVE  Tidied'
  <1>1. /\ job[t] \in Job /\ job[t].at = "start" /\ job[t].node \in Nodes
        /\ procs \in [Procs -> Nodes \cup {None}] /\ None \notin Nodes /\ None \notin Procs
        /\ UNCHANGED <<recorded, activeId, active, cfg, full, crossed>>
    BY SingleExitAssumption DEF IInv, Jobs, JobOK, TypeOK, Start, At, Guarded, hist
  <1>2. CASE Goes(t, To(t, "drop")) /\ UNCHANGED procs
    <2>1. PICK r : r = To(t, "drop")
      OBVIOUS
    <2>2. "drop" \in Points
      BY DEF Points, Guarded
    <2>3. r.at = "drop"
      BY <1>1, <2>1, <2>2, ToIs
    <2>4. job' = [job EXCEPT ![t] = r]
      BY <1>2, <2>1 DEF Goes
    <2>5. /\ job[t].at \notin Starting \cup {"cut", "enforce", "bar"}
          /\ r.at \notin Starting \cup {"stop", "start", "publish", "check"}
          /\ r.at \in Flagging /\ r.at \notin Stopping /\ job[t].at \in Guarded
      BY <1>1, <2>3 DEF Starting, Flagging, Stopping, Guarded
    <2> QED
      BY <1>1, <1>2, <2>4, <2>5, Elsewhere DEF tun
  <1>3. ASSUME NEW p \in Fresh, procs' = [procs EXCEPT ![p] = job[t].node],
               Goes(t, [To(t, "ready") EXCEPT !.proc = p])
        PROVE  Tidied'
    <2>1. PICK r : r = [To(t, "ready") EXCEPT !.proc = p]
      OBVIOUS
    <2>2. "ready" \in Points /\ p \in Procs /\ recorded # p
      BY DEF Points, Guarded, Fresh
    <2>3. To(t, "ready") \in Job /\ To(t, "ready").at = "ready" /\ To(t, "ready").node = job[t].node
      BY <1>1, <2>2, ToIs
    <2>4. r \in Job /\ r.at = "ready" /\ r.proc = p /\ r.node = job[t].node
      BY <2>1, <2>2, <2>3 DEF Job
    <2>5. job' = [job EXCEPT ![t] = r]
      BY <1>3, <2>1 DEF Goes
    <2>6. \A u \in Threads : job'[u] = IF u = t THEN r ELSE job[u]
      BY <2>5 DEF IInv, TypeOK
    <2>7. ~full => \A u \in Threads : u # t => job[u].at \notin Excluding
      BY <1>1, Sole DEF Excluding, Guarded
    <2>8. Starting \cup {"start", "stop", "publish", "check"} \subseteq Excluding
      BY DEF Starting, Excluding, Guarded
    <2>9. \A q \in Procs : procs'[q] = IF q = p THEN job[t].node ELSE procs[q]
      BY <1>1, <1>3
    <2>10. ASSUME ~full
           PROVE  Behind'
      <3>1. \A q \in Procs : procs[q] = None
        BY <1>1, <2>10 DEF Tidied, Behind
      <3>2. \A q \in Procs : procs'[q] # None => q = p
        BY <2>9, <3>1
      <3>3. job'[t].at \in Starting /\ job'[t].proc = p
        BY <2>4, <2>6 DEF Starting
      <3>4. \A u \in Threads : u # t => job'[u].at \notin Starting \cup {"start"}
        BY <2>6, <2>7, <2>8, <2>10
      <3>5. job'[t].at # "start"
        BY <2>4, <2>6
      <3> QED
        BY <3>2, <3>3, <3>4, <3>5 DEF Behind
    <2>11. ASSUME ~full, ~crossed
           PROVE  Served' /\ Ruled' /\ Shown'
      <3>1. Calm
        BY <2>11 DEF Tidied
      <3>2. recorded = None
        BY <1>1, <3>1 DEF Calm, Served
      <3>3. \A u \in Threads : u # t => job'[u].at \notin Starting \cup {"start", "stop", "publish", "check"}
        BY <2>6, <2>7, <2>8, <2>11
      <3>4. Served'
        BY <1>1, <2>2, <2>4, <2>6, <2>9, <3>2, <3>3 DEF Served
      <3>5. ~Running'
        BY <1>1, <3>2 DEF Running
      <3>6. cfg.enabled /\ Allowed(job[t].node, cfg)
        BY <1>1, <3>1 DEF Calm, Ruled
      <3>7. \A u \in Threads : job'[u].at \in Starting \cup {"stop", "start"} =>
                cfg'.enabled /\ Allowed(job'[u].node, cfg')
        BY <1>1, <2>4, <2>6, <3>3, <3>6
      <3>8. Ruled'
        BY <3>5, <3>7 DEF Ruled, Allowed
      <3>9. Shown'
        BY <2>4, <2>6, <3>3 DEF Shown, Flagging
      <3> QED
        BY <3>4, <3>8, <3>9
    <2>12. job[t].at \in Guarded /\ r.at \in Guarded
      BY <1>1, <2>4 DEF Guarded
    <2> QED
      BY <1>1, <2>4, <2>5, <2>10, <2>11, <2>12, Onwards
  <1> QED
    BY <1>2, <1>3 DEF Start

LEMMA ReadyTidied ==
    ASSUME IInv, Tidied, NEW t \in Threads, Ready(t)
    PROVE  Tidied'
  <1>1. /\ job[t] \in Job /\ job[t].at = "ready"
        /\ UNCHANGED <<procs, recorded, activeId, active, cfg, full, crossed>>
    BY DEF IInv, Jobs, JobOK, Ready, At, hist, tun
  <1>2. PICK r : r = To(t, "record")
    OBVIOUS
  <1>3. "record" \in Points
    BY DEF Points, Guarded
  <1>4. r \in Job /\ r.at = "record" /\ r.proc = job[t].proc /\ r.node = job[t].node
    BY <1>1, <1>2, <1>3, ToIs
  <1>5. job' = [job EXCEPT ![t] = r]
    BY <1>2 DEF Ready, Goes
  <1>6. \A u \in Threads : job'[u] = IF u = t THEN r ELSE job[u]
    BY <1>5 DEF IInv, TypeOK
  <1>7. \A u \in Threads : /\ job'[u].at \in Starting <=> job[u].at \in Starting
                           /\ job'[u].proc = job[u].proc /\ job'[u].node = job[u].node
                           /\ job'[u].at \in Flagging <=> job[u].at \in Flagging
                           /\ u # t => job'[u] = job[u]
    BY <1>1, <1>4, <1>6 DEF Starting, Flagging
  <1>8. \A u \in Threads, x \in {"start", "stop", "publish", "check", "cut", "enforce", "bar"} :
            job'[u].at = x <=> job[u].at = x
    BY <1>1, <1>4, <1>6
  <1>9. ~full => Behind'
    BY <1>1, <1>7, <1>8 DEF Tidied, Behind
  <1>10. ASSUME ~full, ~crossed
         PROVE  Served' /\ Ruled' /\ Shown'
    <2>1. Calm
      BY <1>10 DEF Tidied
    <2>2. Served'
      BY <1>1, <1>7, <1>8, <2>1 DEF Calm, Served
    <2>3. Running' = Running
      BY <1>1 DEF Running
    <2>4. Ruled'
      BY <1>1, <1>7, <1>8, <2>1, <2>3 DEF Calm, Ruled, Allowed
    <2>5. Shown'
      BY <1>1, <1>7, <1>8, <2>1 DEF Calm, Shown
    <2> QED
      BY <2>2, <2>4, <2>5
  <1>11. job[t].at \in Guarded /\ r.at \in Guarded
    BY <1>1, <1>4 DEF Guarded
  <1> QED
    BY <1>1, <1>4, <1>5, <1>9, <1>10, <1>11, Onwards

\* Nothing runs any more, and no node is taken for the active one.
LEMMA NothingLeft ==
    ASSUME IInv, Tidied, NEW t \in Threads, NEW r \in Job, job' = [job EXCEPT ![t] = r],
           job[t].at \in Guarded, r.at \in {"drop", "unflag"}, r.node = job[t].node,
           full' = full, crossed' = crossed, cfg' = cfg,
           ~full => \A p \in Procs : procs'[p] = None,
           ~full /\ ~crossed => recorded' = None
    PROVE  Tidied'
  <1>1. \A u \in Threads : job'[u] = IF u = t THEN r ELSE job[u]
    BY DEF IInv, TypeOK
  <1>2. ~full => \A u \in Threads : u # t => job[u].at \notin Excluding
    BY Sole DEF Excluding
  <1>3. Starting \cup {"start", "stop", "publish", "check"} \subseteq Excluding
    BY DEF Starting, Excluding, Guarded
  <1>4. r.at \notin Starting \cup {"start", "stop", "publish", "check"} /\ r.at \in Flagging
        /\ r.at \in Guarded
    BY DEF Starting, Flagging, Guarded
  <1>5. ~full => \A u \in Threads :
            job'[u].at \notin Starting \cup {"start", "stop", "publish", "check"}
    BY <1>1, <1>2, <1>3, <1>4
  <1>6. ~full => Behind'
    BY <1>5 DEF Behind
  <1>7. ASSUME ~full, ~crossed
        PROVE  Served' /\ Ruled' /\ Shown'
    <2>1. recorded' = None
      BY <1>7
    <2>2. Served'
      BY <1>5, <1>7, <2>1 DEF Served
    <2>3. ~Running'
      BY <2>1 DEF Running
    <2>4. Ruled'
      BY <1>5, <1>7, <2>3 DEF Ruled
    <2>5. Shown'
      BY <1>1, <1>4, <1>5, <1>7 DEF Shown
    <2> QED
      BY <2>2, <2>4, <2>5
  <1> QED
    BY <1>4, <1>6, <1>7, Onwards

LEMMA NotReadyTidied ==
    ASSUME IInv, Tidied, NEW t \in Threads, NotReady(t)
    PROVE  Tidied'
  <1>1. /\ job[t] \in Job /\ job[t].at = "ready" /\ job[t].proc \in Procs
        /\ procs \in [Procs -> Nodes \cup {None}]
        /\ procs' = [procs EXCEPT ![job[t].proc] = None]
        /\ full' = full /\ crossed' = crossed /\ cfg' = cfg /\ recorded' = recorded
    BY DEF IInv, Jobs, JobOK, TypeOK, NotReady, At, hist
  <1>2. PICK r : r = [To(t, "drop") EXCEPT !.proc = None]
    OBVIOUS
  <1>3. "drop" \in Points
    BY DEF Points, Guarded
  <1>4. To(t, "drop") \in Job /\ To(t, "drop").at = "drop" /\ To(t, "drop").node = job[t].node
    BY <1>1, <1>3, ToIs
  <1>5. r \in Job /\ r.at = "drop" /\ r.node = job[t].node
    BY <1>2, <1>4 DEF Job
  <1>6. job' = [job EXCEPT ![t] = r]
    BY <1>2 DEF NotReady, Goes
  <1>7. ~full => \A p \in Procs : procs'[p] = None
    BY <1>1 DEF Tidied, Behind, Starting
  <1>8. ~full /\ ~crossed => recorded' = None
    BY <1>1 DEF Tidied, Calm, Served, Starting
  <1>9. job[t].at \in Guarded
    BY <1>1 DEF Guarded
  <1> QED
    BY <1>1, <1>5, <1>6, <1>7, <1>8, <1>9, NothingLeft

LEMMA DropTidied ==
    ASSUME IInv, Tidied, NEW t \in Threads, Drop(t)
    PROVE  Tidied'
  <1>1. /\ job[t] \in Job /\ job[t].at = "drop"
        /\ procs \in [Procs -> Nodes \cup {None}] /\ recorded \in Procs \cup {None}
        /\ None \notin Procs
        /\ procs' = IF recorded = None THEN procs ELSE [procs EXCEPT ![recorded] = None]
        /\ full' = full /\ crossed' = crossed /\ cfg' = cfg /\ recorded' = None
    BY SingleExitAssumption DEF IInv, Jobs, JobOK, TypeOK, Drop, At, hist
  <1>2. PICK r : r = To(t, "unflag")
    OBVIOUS
  <1>3. "unflag" \in Points
    BY DEF Points, Guarded
  <1>4. r \in Job /\ r.at = "unflag" /\ r.node = job[t].node
    BY <1>1, <1>2, <1>3, ToIs
  <1>5. job' = [job EXCEPT ![t] = r]
    BY <1>2 DEF Drop, Goes
  <1>6. ~full => \A p \in Procs : procs'[p] = None
    <2> SUFFICES ASSUME ~full PROVE \A p \in Procs : procs'[p] = None
      OBVIOUS
    <2>1. \A u \in Threads : job[u].at \notin Starting
      BY <1>1, Sole DEF Excluding, Guarded, Starting
    <2>2. \A p \in Procs : procs[p] # None => p = recorded
      BY <2>1 DEF Tidied, Behind
    <2> QED
      BY <1>1, <2>2
  <1>7. job[t].at \in Guarded
    BY <1>1 DEF Guarded
  <1> QED
    BY <1>1, <1>4, <1>5, <1>6, <1>7, NothingLeft

LEMMA RecordTidied ==
    ASSUME IInv, Tidied, NEW t \in Threads, Record(t)
    PROVE  Tidied'
  <1>1. /\ job[t] \in Job /\ job[t].at = "record" /\ job[t].proc \in Procs
        /\ recorded' = job[t].proc /\ activeId' = job[t].node
        /\ UNCHANGED <<procs, active, cfg, full, crossed>>
    BY DEF IInv, Jobs, JobOK, Record, At, hist
  <1>2. PICK r : r = To(t, "publish")
    OBVIOUS
  <1>3. "publish" \in Points
    BY DEF Points, Guarded
  <1>4. r \in Job /\ r.at = "publish" /\ r.node = job[t].node
    BY <1>1, <1>2, <1>3, ToIs
  <1>5. job' = [job EXCEPT ![t] = r]
    BY <1>2 DEF Record, Goes
  <1>6. \A u \in Threads : job'[u] = IF u = t THEN r ELSE job[u]
    BY <1>5 DEF IInv, TypeOK
  <1>7. ~full => \A u \in Threads : u # t => job[u].at \notin Excluding
    BY <1>1, Sole DEF Excluding, Guarded
  <1>8. Starting \cup {"start", "stop", "publish", "check"} \subseteq Excluding
    BY DEF Starting, Excluding, Guarded
  <1>9. r.at \notin Starting \cup {"start", "stop"}
    BY <1>4 DEF Starting
  <1>10. ~full => \A u \in Threads : job'[u].at \notin Starting \cup {"start", "stop"}
    BY <1>6, <1>7, <1>8, <1>9
  <1>11. ~full => \A p \in Procs : procs[p] # None => p = job[t].proc
    BY <1>1 DEF Tidied, Behind, Starting
  <1>12. ~full => Behind'
    BY <1>1, <1>10, <1>11 DEF Behind
  <1>13. ASSUME ~full, ~crossed
         PROVE  Served' /\ Ruled' /\ Shown'
    <2>1. Calm
      BY <1>13 DEF Tidied
    <2>2. procs[job[t].proc] \in {job[t].node, None}
      BY <1>1, <2>1 DEF Calm, Served, Starting
    <2>3. Served'
      BY <1>1, <1>10, <1>13, <2>2 DEF Served
    <2>4. cfg.enabled /\ Allowed(job[t].node, cfg)
      BY <1>1, <2>1 DEF Calm, Ruled, Starting
    <2>5. Allowed(activeId, cfg)'
      BY <1>1, <2>4 DEF Allowed
    <2>6. Ruled'
      BY <1>1, <1>10, <1>13, <2>4, <2>5 DEF Ruled
    <2>7. \A u \in Threads : job'[u].at \in {"publish", "check"} => u = t
      BY <1>6, <1>7, <1>8, <1>13
    <2>8. Shown'
      BY <1>1, <1>4, <1>6, <2>7 DEF Shown, Flagging
    <2> QED
      BY <2>3, <2>6, <2>8
  <1>14. job[t].at \in Guarded /\ r.at \in Guarded
    BY <1>1, <1>4 DEF Guarded
  <1> QED
    BY <1>1, <1>4, <1>5, <1>12, <1>13, <1>14, Onwards

\* The flag is set for the node that the thread has connected.
LEMMA FlagTidied ==
    ASSUME IInv, Tidied, NEW t \in Threads, NEW r \in Job, job' = [job EXCEPT ![t] = r],
           job[t].at \in {"publish", "check"}, r.at \in {"check", "release"},
           r.node = job[t].node, active' = {job[t].node},
           UNCHANGED <<procs, recorded, activeId, cfg, full, crossed>>
    PROVE  Tidied'
  <1>1. \A u \in Threads : job'[u] = IF u = t THEN r ELSE job[u]
    BY DEF IInv, TypeOK
  <1>2. \A u \in Threads : job'[u].at \in Starting \cup {"start", "stop", "cut", "enforce", "bar"}
                              => job'[u] = job[u]
    BY <1>1 DEF Starting
  <1>3. \A u \in Threads : job[u].at \in Starting \cup {"start", "stop", "cut", "enforce", "bar"}
                              => job'[u] = job[u]
    BY <1>1 DEF Starting
  <1>4. ~full => Behind'
    BY <1>2, <1>3 DEF Tidied, Behind
  <1>5. ASSUME ~full, ~crossed
        PROVE  Served' /\ Ruled' /\ Shown'
    <2>1. Calm
      BY <1>5 DEF Tidied
    <2>2. Served'
      BY <1>2, <2>1 DEF Calm, Served
    <2>3. Running' = Running
      BY DEF Running
    <2>4. Ruled'
      BY <1>2, <1>3, <2>1, <2>3 DEF Calm, Ruled, Allowed
    <2>5. activeId = job[t].node
      BY <2>1 DEF Calm, Shown
    <2>6. Shown'
      BY <1>1, <2>1, <2>5 DEF Calm, Shown
    <2> QED
      BY <2>2, <2>4, <2>6
  <1>6. job[t].at \in Guarded /\ r.at \in Guarded
    BY DEF Guarded
  <1> QED
    BY <1>4, <1>5, <1>6, Onwards

LEMMA ReadTidied ==
    ASSUME IInv, Tidied, NEW t \in Threads, Read(t)
    PROVE  Tidied'
  <1>1. /\ job[t] \in Job /\ job[t].at = "read"
        /\ cfg \in [enabled : BOOLEAN, mode : Modes, list : SUBSET Nodes, fixed : Nodes \cup {None}]
        /\ UNCHANGED <<procs, recorded, activeId, active, full, crossed>>
    BY DEF IInv, Jobs, JobOK, TypeOK, Read, At, hist, tun
  <1>2. CASE ~Allowed(job[t].node, cfg)
    <2>1. PICK q \in {"drop", "release"} : /\ Goes(t, To(t, q))
                                           /\ q = "drop" \/ q = "release"
      BY <1>2 DEF Read, Raise
    <2>2. PICK r : r = To(t, q)
      OBVIOUS
    <2>3. q \in Points
      BY DEF Points, Guarded
    <2>4. r.at \in {"drop", "release"}
      BY <1>1, <2>2, <2>3, ToIs
    <2>5. job' = [job EXCEPT ![t] = r]
      BY <2>1, <2>2 DEF Goes
    <2>6. /\ job[t].at \notin Starting \cup {"cut", "enforce", "bar"} \cup Flagging
          /\ r.at \notin Starting \cup {"stop", "start", "publish", "check"} \cup Stopping
          /\ job[t].at \in Guarded
      BY <1>1, <2>4 DEF Starting, Flagging, Stopping, Guarded
    <2>7. UNCHANGED <<tun, cfg>>
      BY <1>2 DEF Read
    <2> QED
      BY <1>1, <2>5, <2>6, <2>7, Elsewhere
  <1>3. CASE Allowed(job[t].node, cfg)
    <2>1. /\ cfg' = [cfg EXCEPT !.enabled = TRUE, !.fixed = IF cfg.mode = "fixed" THEN job[t].node ELSE cfg.fixed]
          /\ Goes(t, To(t, "stop"))
      BY <1>3 DEF Read
    <2>2. PICK r : r = To(t, "stop")
      OBVIOUS
    <2>3. "stop" \in Points
      BY DEF Points, Guarded
    <2>4. r \in Job /\ r.at = "stop" /\ r.node = job[t].node
      BY <1>1, <2>2, <2>3, ToIs
    <2>5. job' = [job EXCEPT ![t] = r]
      BY <2>1, <2>2 DEF Goes
    <2>6. \A u \in Threads : job'[u] = IF u = t THEN r ELSE job[u]
      BY <2>5 DEF IInv, TypeOK
    <2>7. cfg'.enabled /\ cfg'.mode = cfg.mode /\ cfg'.list = cfg.list
      BY <1>1, <2>1
    <2>8. \A n : Allowed(n, cfg') <=> Allowed(n, cfg)
      BY <2>7 DEF Allowed
    <2>9. \A u \in Threads : job'[u].at \in Starting \cup Flagging \cup {"start", "publish", "check", "enforce", "bar"}
                              => job'[u] = job[u]
      BY <2>4, <2>6 DEF Starting, Flagging
    <2>10. \A u \in Threads : job[u].at \in Starting \cup Flagging \cup {"start", "publish", "check", "enforce", "bar"}
                              => job'[u] = job[u]
      BY <1>1, <2>6 DEF Starting, Flagging
    <2>11. ~full => Behind'
      BY <1>1, <2>9, <2>10 DEF Tidied, Behind
    <2>12. ASSUME ~full, ~crossed
           PROVE  Served' /\ Ruled' /\ Shown'
      <3>1. Calm
        BY <2>12 DEF Tidied
      <3>2. Served'
        BY <1>1, <2>9, <3>1 DEF Calm, Served
      <3>3. Running' = Running
        BY <1>1 DEF Running
      <3>4. \A u \in Threads : job'[u].at \in Starting \cup {"stop", "start"} =>
                /\ Allowed(job'[u].node, cfg')
        BY <1>3, <2>4, <2>6, <2>8, <3>1 DEF Calm, Ruled
      <3>5. Running' => \/ Allowed(activeId, cfg)'
                        \/ \E u \in Threads : job'[u].at \in {"enforce", "bar"}
        BY <1>1, <2>8, <2>10, <3>1, <3>3 DEF Calm, Ruled
      <3>6. Ruled'
        BY <2>7, <3>4, <3>5 DEF Ruled
      <3>7. Shown'
        BY <1>1, <2>9, <2>10, <3>1 DEF Calm, Shown
      <3> QED
        BY <3>2, <3>6, <3>7
    <2>13. job[t].at \in Guarded /\ r.at \in Guarded
      BY <1>1, <2>4 DEF Guarded
    <2> QED
      BY <1>1, <2>4, <2>5, <2>11, <2>12, <2>13, Onwards
  <1> QED
    BY <1>2, <1>3

LEMMA ConnectTidied ==
    ASSUME IInv, IInv', Tidied, NEW t \in Threads,
           \/ Claim(t) \/ Read(t) \/ Stop(t) \/ Start(t) \/ Ready(t) \/ NotReady(t) \/ Record(t)
           \/ Publish(t) \/ Check(t) \/ Drop(t) \/ Unflag(t) \/ Release(t)
    PROVE  Tidied'
  <1>1. JobOK(job[t]) /\ job[t] \in Job
    BY DEF IInv, Jobs, JobOK
  <1>2. CASE Claim(t)
    <2>1. /\ job[t].at = "claim" /\ UNCHANGED <<tun, active, cfg, full>>
          /\ crossed' = (crossed \/ Changing)
      BY <1>2 DEF Claim, At
    <2>2. \E r : /\ job' = [job EXCEPT ![t] = r]
                 /\ r.at \in {"idle", "remark", "back", "demote", "read"}
      <3>1. CASE mark
        <4>1. PICK r : r = Connected(t, FALSE)
          OBVIOUS
        <4>2. job' = [job EXCEPT ![t] = r]
          BY <1>2, <3>1, <4>1 DEF Claim, Goes
        <4>3. r.at \in {"idle", "remark", "back", "demote"}
          BY <1>1, <2>1, <4>1, ConnectedIs
        <4> QED
          BY <4>2, <4>3
      <3>2. CASE ~mark
        <4>1. PICK r : r = [To(t, "read") EXCEPT !.ok = FALSE, !.proc = None]
          OBVIOUS
        <4>2. job' = [job EXCEPT ![t] = r]
          BY <1>2, <3>2, <4>1 DEF Claim, Goes
        <4>3. "read" \in Points
          BY DEF Points, Guarded
        <4>4. To(t, "read") \in Job /\ To(t, "read").at = "read"
          BY <1>1, <4>3, ToIs
        <4>5. r.at = "read"
          BY <4>1, <4>4 DEF Job
        <4> QED
          BY <4>2, <4>5
      <3> QED
        BY <3>1, <3>2
    <2>3. PICK r : /\ job' = [job EXCEPT ![t] = r]
                   /\ r.at \in {"idle", "remark", "back", "demote", "read"}
      BY <2>2
    <2>4. /\ job[t].at \notin Starting \cup {"cut", "enforce", "bar"} \cup Flagging
          /\ r.at \notin Starting \cup {"stop", "start", "publish", "check"} \cup Stopping
      BY <2>1, <2>3 DEF Starting, Flagging, Stopping
    <2> QED
      BY <2>1, <2>3, <2>4, Elsewhere
  <1>3. CASE Release(t)
    <2>1. PICK r : r = Connected(t, job[t].ok)
      OBVIOUS
    <2>2. /\ job[t].at = "release" /\ job' = [job EXCEPT ![t] = r]
          /\ UNCHANGED <<tun, active, cfg, full, crossed>>
      BY <1>3, <2>1 DEF Release, At, Goes, hist
    <2>3. job[t].at \in Guarded
      BY <2>2 DEF Guarded
    <2>4. r.at \in {"idle", "remark", "back", "demote"}
      BY <1>1, <2>1, <2>3, ConnectedIs
    <2>5. /\ job[t].at \notin Starting \cup {"cut", "enforce", "bar"} \cup Flagging
          /\ r.at \notin Starting \cup {"stop", "start", "publish", "check"} \cup Stopping \cup Guarded
      BY <2>2, <2>4 DEF Starting, Flagging, Stopping, Guarded
    <2> QED
      BY <2>2, <2>5, Elsewhere
  <1>4. CASE Stop(t)
    <2>1. PICK r : r = To(t, "start")
      OBVIOUS
    <2>2. "start" \in Points
      BY DEF Points, Guarded
    <2>3. r.at = "start" /\ r.node = job[t].node
      BY <1>1, <2>1, <2>2, ToIs
    <2>4. /\ job[t].at = "stop" /\ job' = [job EXCEPT ![t] = r]
          /\ StopActive /\ UNCHANGED <<active, cfg, full, crossed>>
      BY <1>4, <2>1 DEF Stop, At, Goes, hist
    <2> QED
      BY <2>3, <2>4, Settles
  <1>5. CASE Unflag(t)
    <2>1. PICK r : r = To(t, "release")
      OBVIOUS
    <2>2. "release" \in Points
      BY DEF Points, Guarded
    <2>3. r.at = "release"
      BY <1>1, <2>1, <2>2, ToIs
    <2>4. /\ job[t].at = "unflag" /\ job' = [job EXCEPT ![t] = r]
          /\ active' = {} /\ UNCHANGED <<tun, cfg, full, crossed>>
      BY <1>5, <2>1 DEF Unflag, At, Goes, hist
    <2>5. /\ job[t].at \notin Starting \cup {"cut", "enforce", "bar"} /\ job[t].at \in Guarded
          /\ r.at \notin Starting \cup {"stop", "start", "publish", "check"} \cup Stopping
      BY <2>3, <2>4 DEF Starting, Stopping, Guarded
    <2> QED
      BY <2>4, <2>5, Elsewhere
  <1>6. CASE Publish(t)
    <2>1. PICK r : r = [To(t, "check") EXCEPT !.proc = None]
      OBVIOUS
    <2>2. "check" \in Points
      BY DEF Points, Guarded
    <2>3. To(t, "check") \in Job /\ To(t, "check").at = "check" /\ To(t, "check").node = job[t].node
      BY <1>1, <2>2, ToIs
    <2>4. r \in Job /\ r.at = "check" /\ r.node = job[t].node
      BY <2>1, <2>3 DEF Job
    <2>5. /\ job[t].at = "publish" /\ job' = [job EXCEPT ![t] = r] /\ active' = {job[t].node}
          /\ UNCHANGED <<procs, recorded, activeId, cfg, full, crossed>>
      BY <1>6, <2>1 DEF Publish, At, Goes, hist, tun
    <2> QED
      BY <2>4, <2>5, FlagTidied
  <1>7. CASE Check(t)
    <2>1. /\ job[t].at = "check"
          /\ UNCHANGED <<procs, recorded, activeId, cfg, full, crossed>>
      BY <1>7 DEF Check, At, hist, tun
    <2>2. CASE Passes(t)
      <3>1. PICK r : r = [To(t, "release") EXCEPT !.ok = TRUE]
        OBVIOUS
      <3>2. "release" \in Points
        BY DEF Points, Guarded
      <3>3. To(t, "release") \in Job /\ To(t, "release").at = "release"
            /\ To(t, "release").node = job[t].node
        BY <1>1, <3>2, ToIs
      <3>4. r \in Job /\ r.at = "release" /\ r.node = job[t].node
        BY <3>1, <3>3 DEF Job
      <3>5. job' = [job EXCEPT ![t] = r] /\ active' \in {active, {job[t].node}}
        BY <2>2, <3>1 DEF Passes, Goes
      <3>6. CASE active' = {job[t].node}
        BY <2>1, <3>4, <3>5, <3>6, FlagTidied
      <3>7. CASE active' = active
        <4>1. /\ job[t].at \notin Starting \cup {"cut", "enforce", "bar"} \cup Flagging
              /\ job[t].at \in Guarded
              /\ r.at \notin Starting \cup {"stop", "start", "publish", "check"} \cup Stopping
          BY <2>1, <3>4 DEF Starting, Stopping, Flagging, Guarded
        <4> QED
          BY <2>1, <3>5, <3>7, <4>1, Elsewhere DEF tun
      <3> QED
        BY <3>5, <3>6, <3>7
    <2>3. CASE Rejected(t) \/ NoExit(t)
      <3>1. PICK r : r = To(t, "drop")
        OBVIOUS
      <3>2. "drop" \in Points
        BY DEF Points, Guarded
      <3>3. r.at = "drop"
        BY <1>1, <3>1, <3>2, ToIs
      <3>4. job' = [job EXCEPT ![t] = r] /\ (active' = {} \/ active' = active)
        BY <2>3, <3>1 DEF Rejected, NoExit, Goes
      <3>5. /\ job[t].at \notin Starting \cup {"cut", "enforce", "bar"} \cup Flagging
            /\ job[t].at \in Guarded
            /\ r.at \notin Starting \cup {"stop", "start", "publish", "check"} \cup Stopping
        BY <2>1, <3>3 DEF Starting, Stopping, Flagging, Guarded
      <3> QED
        BY <2>1, <3>4, <3>5, Elsewhere DEF tun
    <2> QED
      BY <1>7, <2>2, <2>3 DEF Check
  <1> QED
    BY <1>2, <1>3, <1>4, <1>5, <1>6, <1>7, ReadTidied, StartTidied, ReadyTidied, NotReadyTidied,
       RecordTidied, DropTidied

LEMMA SwitchTidied ==
    ASSUME IInv, IInv', Tidied, NEW t \in Threads,
           Choose(t) \/ Demote(t) \/ Empty(t) \/ Emptied(t)
    PROVE  Tidied'
  <1>1. JobOK(job[t]) /\ job[t] \in Job
    BY DEF IInv, Jobs, JobOK
  <1>2. PICK s : s = Switched(t)
    OBVIOUS
  <1>3. s.at \in {"idle", "remark", "back"}
    BY <1>1, <1>2, SwitchedIs, IdleIs
  <1>4. CASE Choose(t)
    <2>1. /\ job[t].at = "choose" /\ UNCHANGED <<tun, active, cfg, full>>
      BY <1>4 DEF Choose, At
    <2>2. \E r : /\ job' = [job EXCEPT ![t] = r]
                 /\ \/ r.at \in {"idle", "remark", "back", "claim"} /\ crossed' = crossed
                    \/ r.at = "empty" /\ crossed' = (crossed \/ Connecting)
      <3>1. CASE Goes(t, Switched(t)) /\ crossed' = crossed
        BY <1>2, <1>3, <3>1 DEF Goes
      <3>2. CASE /\ \E m \in Filtered(cfg) \ active : Goes(t, [To(t, "claim") EXCEPT !.node = m])
                 /\ crossed' = crossed
        <4>1. PICK m : Goes(t, [To(t, "claim") EXCEPT !.node = m])
          BY <3>2
        <4>2. PICK r : r = [To(t, "claim") EXCEPT !.node = m]
          OBVIOUS
        <4>3. To(t, "claim") \in Job /\ To(t, "claim").at = "claim"
          BY <1>1, ToIs DEF Points
        <4>4. r.at = "claim"
          BY <4>2, <4>3 DEF Job
        <4> QED
          BY <3>2, <4>1, <4>2, <4>4 DEF Goes
      <3>3. CASE Goes(t, To(t, "empty")) /\ Crosses
        <4>1. To(t, "empty").at = "empty"
          BY <1>1, ToIs DEF Points, Stopping
        <4> QED
          BY <3>3, <4>1 DEF Goes, Crosses
      <3> QED
        BY <1>4, <3>1, <3>2, <3>3 DEF Choose
    <2>3. PICK r : /\ job' = [job EXCEPT ![t] = r]
                   /\ \/ r.at \in {"idle", "remark", "back", "claim"} /\ crossed' = crossed
                      \/ r.at = "empty" /\ crossed' = (crossed \/ Connecting)
      BY <2>2
    <2>4. /\ job[t].at \notin Starting \cup {"cut", "enforce", "bar"} \cup Flagging
          /\ r.at \notin Starting \cup {"stop", "start", "publish", "check"} \cup Guarded
      BY <2>1, <2>3 DEF Starting, Flagging, Stopping, Guarded
    <2>5. r.at \in Stopping => crossed' \/ ~Connecting
      BY <2>3 DEF Stopping
    <2>6. ~crossed' => ~crossed
      BY <2>3
    <2>7. active' \subseteq active /\ UNCHANGED <<tun, cfg>> /\ (~full' => ~full)
      BY <2>1
    <2>8. job' = [job EXCEPT ![t] = r]
      BY <2>3
    <2> QED
      BY <2>4, <2>5, <2>6, <2>7, <2>8, Elsewhere
  <1>5. CASE Demote(t)
    <2>1. PICK r : r = [To(t, "choose") EXCEPT !.try = @ + 1]
      OBVIOUS
    <2>2. To(t, "choose") \in Job /\ To(t, "choose").at = "choose"
      BY <1>1, ToIs DEF Points
    <2>3. r.at = "choose"
      BY <2>1, <2>2 DEF Job
    <2>4. /\ job[t].at = "demote" /\ job' = [job EXCEPT ![t] = r]
          /\ active' \subseteq active /\ UNCHANGED <<tun, cfg, full, crossed>>
      BY <1>5, <2>1 DEF Demote, At, Goes, hist
    <2>5. /\ job[t].at \notin Starting \cup {"cut", "enforce", "bar"} \cup Flagging
          /\ r.at \notin Starting \cup {"stop", "start", "publish", "check"} \cup Guarded \cup Stopping
      BY <2>3, <2>4 DEF Starting, Flagging, Stopping, Guarded
    <2> QED
      BY <2>4, <2>5, Elsewhere
  <1>6. CASE Empty(t)
    <2>1. PICK r : r = To(t, "emptied")
      OBVIOUS
    <2>2. r.at = "emptied"
      BY <1>1, <2>1, ToIs DEF Points, Stopping
    <2>3. /\ job[t].at \in Stopping /\ job' = [job EXCEPT ![t] = r]
          /\ StopActive /\ UNCHANGED <<active, cfg, full, crossed>>
      BY <1>6, <2>1 DEF Empty, At, Goes, hist, Stopping
    <2> QED
      BY <2>2, <2>3, Settles
  <1>7. CASE Emptied(t)
    <2>1. /\ job[t].at = "emptied" /\ job' = [job EXCEPT ![t] = s]
          /\ active' = {} /\ UNCHANGED <<tun, cfg, full, crossed>>
      BY <1>2, <1>7 DEF Emptied, At, Goes, hist
    <2>2. /\ job[t].at \notin Starting \cup {"cut", "enforce", "bar"}
          /\ s.at \notin Starting \cup {"stop", "start", "publish", "check"} \cup Guarded \cup Stopping
      BY <1>3, <2>1 DEF Starting, Stopping, Guarded
    <2> QED
      BY <2>1, <2>2, Elsewhere
  <1> QED
    BY <1>4, <1>5, <1>6, <1>7

\* The settings change: what has to be done about it is done by the thread that follows.
LEMMA ChangeTidied ==
    ASSUME IInv, Tidied, NEW t \in Threads, NEW r, job' = [job EXCEPT ![t] = r],
           job[t].at = "idle", r.at \in {"cut", "enforce", "idle"},
           UNCHANGED <<tun, active, full>>, Crosses,
           cfg'.enabled \/ cfg'.enabled = cfg.enabled \/ r.at = "cut",
           r.at = "enforce" \/ \A n : Allowed(n, cfg) => Allowed(n, cfg')
    PROVE  Tidied'
  <1>1. \A u \in Threads : job'[u] = IF u = t THEN r ELSE job[u]
    BY DEF IInv, TypeOK
  <1>2. procs' = procs /\ recorded' = recorded /\ activeId' = activeId
    BY DEF tun
  <1>3. r.at \notin Starting \cup Guarded \cup {"start", "stop", "publish", "check"}
    BY DEF Starting, Guarded
  <1>4. job[t].at \notin Starting \cup Flagging \cup {"cut", "enforce", "bar"}
    BY DEF Starting, Flagging
  <1>5. \A u \in Threads : job'[u].at \in Starting \cup {"start"} => job'[u] = job[u]
    BY <1>1, <1>3
  <1>6. \A u \in Threads : job[u].at \in Starting \cup Flagging \cup {"cut", "enforce", "bar"}
                              => job'[u] = job[u]
    BY <1>1, <1>4
  <1>7. ~full' => Behind'
    BY <1>2, <1>5, <1>6 DEF Tidied, Behind
  <1>8. ASSUME ~full', ~crossed'
        PROVE  Calm'
    <2>1. Calm /\ ~Connecting
      BY <1>8 DEF Tidied, Crosses
    <2>2. \A u \in Threads : job'[u].at \notin Guarded
      BY <1>1, <1>3, <2>1 DEF Connecting
    <2>3. Starting \cup {"start", "stop", "publish", "check"} \subseteq Guarded
      BY DEF Starting, Guarded
    <2>4. ~Connecting'
      BY <2>2 DEF Connecting
    <2>5. Served'
      BY <1>2, <2>1, <2>2, <2>3 DEF Calm, Served
    <2>6. Running' = Running
      BY <1>2 DEF Running
    <2>7. Running' => \/ cfg'.enabled
                      \/ \E u \in Threads : job'[u].at = "cut"
      BY <1>1, <1>6, <2>1, <2>6 DEF Calm, Ruled
    <2>8. Running' => \/ Allowed(activeId, cfg)'
                      \/ \E u \in Threads : job'[u].at \in {"enforce", "bar"}
      <3>1. CASE r.at = "enforce"
        BY <1>1, <3>1
      <3>2. CASE \A n : Allowed(n, cfg) => Allowed(n, cfg')
        BY <1>2, <1>6, <2>1, <2>6, <3>2 DEF Calm, Ruled
      <3> QED
        BY <3>1, <3>2
    <2>9. Ruled'
      BY <2>2, <2>3, <2>7, <2>8 DEF Ruled
    <2>10. Shown'
      BY <1>2, <1>6, <2>1, <2>2, <2>3 DEF Calm, Shown
    <2> QED
      BY <2>4, <2>5, <2>9, <2>10 DEF Calm
  <1> QED
    BY <1>7, <1>8 DEF Tidied

\* Nothing is to be done any more when the node in use is none or accepted.
LEMMA EnforceTidied ==
    ASSUME IInv, Tidied, NEW t \in Threads, Enforce(t)
    PROVE  Tidied'
  <1>1. /\ job[t] \in Job /\ job[t].at = "enforce" /\ recorded \in Procs \cup {None}
        /\ UNCHANGED <<procs, recorded, activeId, active, cfg, full, crossed>>
    BY DEF IInv, Jobs, JobOK, TypeOK, Enforce, At, hist, tun
  <1>2. PICK r : r = IF activeId # None /\ ~Allowed(activeId, cfg) THEN To(t, "bar") ELSE Idle
    OBVIOUS
  <1>3. job' = [job EXCEPT ![t] = r]
    BY <1>2 DEF Enforce, Goes
  <1>4. \/ r.at = "bar"
        \/ r.at = "idle" /\ (activeId = None \/ Allowed(activeId, cfg))
    BY <1>1, <1>2, ToIs, IdleIs DEF Points, Stopping
  <1>5. \A u \in Threads : job'[u] = IF u = t THEN r ELSE job[u]
    BY <1>3 DEF IInv, TypeOK
  <1>6. r.at \notin Starting \cup Guarded \cup {"start", "stop", "publish", "check"}
    BY <1>4 DEF Starting, Guarded
  <1>7. job[t].at \notin Starting \cup Flagging \cup {"cut"}
    BY <1>1 DEF Starting, Flagging
  <1>8. \A u \in Threads : job'[u].at \in Starting \cup {"start", "stop", "publish", "check"}
                              => job'[u] = job[u]
    BY <1>5, <1>6
  <1>9. \A u \in Threads : job[u].at \in Starting \cup Flagging \cup {"cut"} => job'[u] = job[u]
    BY <1>5, <1>7
  <1>10. ~full' => Behind'
    BY <1>1, <1>8, <1>9 DEF Tidied, Behind
  <1>11. ASSUME ~full', ~crossed'
         PROVE  Calm'
    <2>1. Calm
      BY <1>1, <1>11 DEF Tidied
    <2>2. Connecting' => Connecting
      BY <1>5, <1>6 DEF Connecting
    <2>3. Changing' => Changing
      BY <1>1, <1>4, <1>5 DEF Changing, Stopping
    <2>4. Served'
      BY <1>1, <1>8, <2>1 DEF Calm, Served
    <2>5. Running' = Running
      BY <1>1 DEF Running
    <2>6. Running' => \/ Allowed(activeId, cfg)'
                      \/ \E u \in Threads : job'[u].at \in {"enforce", "bar"}
      <3>1. CASE r.at = "bar"
        BY <1>5, <3>1
      <3>2. CASE r.at = "idle" /\ Allowed(activeId, cfg)
        BY <1>1, <3>2
      <3>3. CASE activeId = None
        <4>1. ~Running
          BY <2>1, <3>3 DEF Calm, Served, Running
        <4> QED
          BY <2>5, <4>1
      <3> QED
        BY <1>4, <3>1, <3>2, <3>3
    <2>7. Running' => \/ cfg'.enabled
                      \/ \E u \in Threads : job'[u].at = "cut"
      BY <1>1, <1>9, <2>1, <2>5 DEF Calm, Ruled
    <2>8. \A u \in Threads : job'[u].at \in Starting \cup {"stop", "start"} =>
              cfg'.enabled /\ Allowed(job'[u].node, cfg')
      BY <1>1, <1>8, <2>1 DEF Calm, Ruled
    <2>9. Ruled'
      BY <2>6, <2>7, <2>8 DEF Ruled
    <2>10. Shown'
      BY <1>1, <1>8, <1>9, <2>1 DEF Calm, Shown
    <2> QED
      BY <2>1, <2>2, <2>3, <2>4, <2>9, <2>10 DEF Calm
  <1> QED
    BY <1>10, <1>11 DEF Tidied

LEMMA RequestTidied ==
    ASSUME IInv, IInv', Tidied, NEW t \in Threads,
           Cut(t) \/ CutFlags(t) \/ Enforce(t) \/ Bar(t) \/ BarFlags(t) \/ Tested(t) \/ Ask(t) \/ Runs(t)
    PROVE  Tidied'
  <1>1. JobOK(job[t]) /\ job[t] \in Job
    BY DEF IInv, Jobs, JobOK
  <1>2. cfg \in [enabled : BOOLEAN, mode : Modes, list : SUBSET Nodes, fixed : Nodes \cup {None}]
    BY DEF IInv, TypeOK
  <1>3. CASE Cut(t) \/ Bar(t)
    <2>1. PICK q \in {"cutflags", "barflags"} : Goes(t, To(t, q))
      BY <1>3 DEF Cut, Bar
    <2>2. PICK r : r = To(t, q)
      OBVIOUS
    <2>3. q \in Points
      BY DEF Points, Stopping
    <2>4. r.at \in {"cutflags", "barflags"}
      BY <1>1, <2>2, <2>3, ToIs
    <2>5. /\ job[t].at \in Stopping /\ job' = [job EXCEPT ![t] = r]
          /\ StopActive /\ UNCHANGED <<active, cfg, full, crossed>>
      BY <1>3, <2>1, <2>2 DEF Cut, Bar, At, Goes, hist, Stopping
    <2> QED
      BY <2>4, <2>5, Settles
  <1>4. CASE CutFlags(t) \/ BarFlags(t)
    <2>1. PICK r : r = Idle
      OBVIOUS
    <2>2. /\ job[t].at \in {"cutflags", "barflags"} /\ job' = [job EXCEPT ![t] = r]
          /\ active' = {} /\ UNCHANGED <<tun, cfg, full, crossed>> /\ r.at = "idle"
      BY <1>4, <2>1, IdleIs DEF CutFlags, BarFlags, At, Goes, hist
    <2>3. /\ job[t].at \notin Starting \cup {"cut", "enforce", "bar"}
          /\ r.at \notin Starting \cup {"stop", "start", "publish", "check"} \cup Guarded \cup Stopping
      BY <2>2 DEF Starting, Stopping, Guarded
    <2> QED
      BY <2>2, <2>3, Elsewhere
  <1>5. CASE Tested(t) \/ AskConnect(t) \/ AskCheck(t) \/ AskTest(t) \/ Runs(t)
    <2>1. /\ job[t].at \in {"testing", "idle"}
          /\ UNCHANGED <<tun, active, cfg, full, crossed>>
      BY <1>5 DEF Tested, AskConnect, AskCheck, AskTest, Runs, At, hist
    <2>2. \E r : job' = [job EXCEPT ![t] = r] /\ r.at \in {"idle", "claim", "enter", "testing", "choose"}
      <3>1. CASE Tested(t)
        BY <3>1, IdleIs DEF Tested, Goes
      <3>2. CASE AskConnect(t)
        <4>1. PICK n \in Nodes : Goes(t, [Idle EXCEPT !.at = "claim", !.node = n])
          BY <3>2 DEF AskConnect
        <4>2. [Idle EXCEPT !.at = "claim", !.node = n].at = "claim"
          BY DEF Idle
        <4> QED
          BY <4>1, <4>2 DEF Goes
      <3>3. CASE AskCheck(t)
        <4>1. [Idle EXCEPT !.at = "enter", !.force = TRUE].at = "enter"
          BY DEF Idle
        <4> QED
          BY <3>3, <4>1 DEF AskCheck, Goes
      <3>4. CASE AskTest(t)
        <4>1. To(t, "testing").at = "testing"
          BY <1>1, ToIs DEF Points
        <4> QED
          BY <3>4, <4>1 DEF AskTest, Goes
      <3>5. CASE Runs(t)
        <4>1. PICK s \in spawned :
                 Goes(t, IF s.op = "switch" THEN [Idle EXCEPT !.at = "choose", !.try = s.try]
                         ELSE [Idle EXCEPT !.at = "enter", !.after = s.try])
          BY <3>5 DEF Runs
        <4>2. [Idle EXCEPT !.at = "choose", !.try = s.try].at = "choose"
          BY DEF Idle
        <4>3. [Idle EXCEPT !.at = "enter", !.after = s.try].at = "enter"
          BY DEF Idle
        <4> QED
          BY <4>1, <4>2, <4>3 DEF Goes
      <3> QED
        BY <1>5, <3>1, <3>2, <3>3, <3>4, <3>5
    <2>3. PICK r : job' = [job EXCEPT ![t] = r] /\ r.at \in {"idle", "claim", "enter", "testing", "choose"}
      BY <2>2
    <2>4. /\ job[t].at \notin Starting \cup {"cut", "enforce", "bar"} \cup Flagging
          /\ r.at \notin Starting \cup {"stop", "start", "publish", "check"} \cup Guarded \cup Stopping
      BY <2>1, <2>3 DEF Starting, Flagging, Stopping, Guarded
    <2>5. active' \subseteq active
      BY <2>1
    <2> QED
      BY <2>1, <2>3, <2>4, <2>5, Elsewhere
  <1>6. CASE AskDisconnect(t)
    <2>1. PICK r : r = To(t, "cut")
      OBVIOUS
    <2>2. r.at = "cut"
      BY <1>1, <2>1, ToIs DEF Points, Stopping
    <2>3. /\ job[t].at = "idle" /\ job' = [job EXCEPT ![t] = r]
          /\ UNCHANGED <<tun, active, full>> /\ Crosses
          /\ cfg' = [cfg EXCEPT !.enabled = FALSE]
      BY <1>6, <2>1 DEF AskDisconnect, At, Goes
    <2>4. \A n : Allowed(n, cfg) => Allowed(n, cfg')
      BY <1>2, <2>3 DEF Allowed
    <2> QED
      BY <2>2, <2>3, <2>4, ChangeTidied
  <1>7. CASE AskRoute(t)
    <2>1. PICK r : r = To(t, "enforce")
      OBVIOUS
    <2>2. r.at = "enforce"
      BY <1>1, <2>1, ToIs DEF Points, Stopping
    <2>3. /\ job[t].at = "idle" /\ job' = [job EXCEPT ![t] = r]
          /\ UNCHANGED <<tun, active, full>> /\ Crosses
      BY <1>7, <2>1 DEF AskRoute, At, Goes
    <2>4. PICK on \in {TRUE, cfg.enabled} :
             \/ cfg' = [cfg EXCEPT !.mode = "auto", !.enabled = on]
             \/ \E l \in SUBSET Nodes : cfg' = [cfg EXCEPT !.mode = "list", !.list = l, !.enabled = on]
             \/ \E n \in FixedNode : cfg' = [cfg EXCEPT !.mode = "fixed", !.fixed = n, !.enabled = on]
      BY <1>7 DEF AskRoute
    <2>5. cfg'.enabled = on
      BY <1>2, <2>4
    <2>6. cfg'.enabled \/ cfg'.enabled = cfg.enabled
      BY <2>5
    <2> QED
      BY <2>2, <2>3, <2>6, ChangeTidied
  <1>8. CASE AskFavorite(t)
    <2>1. PICK r : r = IF cfg.mode = "list" THEN To(t, "enforce") ELSE Idle
      OBVIOUS
    <2>2. /\ r.at = IF cfg.mode = "list" THEN "enforce" ELSE "idle"
      BY <1>1, <2>1, ToIs, IdleIs DEF Points, Stopping
    <2>3. /\ job[t].at = "idle" /\ job' = [job EXCEPT ![t] = r]
          /\ UNCHANGED <<tun, active, full>> /\ Crosses
      BY <1>8, <2>1 DEF AskFavorite, At, Goes
    <2>4. PICK n \in Nodes :
             cfg' = [cfg EXCEPT !.list = IF n \in cfg.list THEN cfg.list \ {n} ELSE cfg.list \cup {n}]
      BY <1>8 DEF AskFavorite
    <2>5. cfg'.enabled = cfg.enabled /\ cfg'.mode = cfg.mode
      BY <1>2, <2>4
    <2>6. r.at = "enforce" \/ \A m : Allowed(m, cfg) => Allowed(m, cfg')
      BY <2>2, <2>5 DEF Allowed
    <2>7. r.at \in {"cut", "enforce", "idle"}
      BY <2>2
    <2> QED
      BY <2>3, <2>5, <2>6, <2>7, ChangeTidied
  <1> QED
    BY <1>3, <1>4, <1>5, <1>6, <1>7, <1>8, EnforceTidied DEF Ask

\* In a full maintenance nothing is said.
LEMMA MaintenanceTidied ==
    ASSUME IInv, Tidied, NEW t \in Threads,
           \/ Enter(t) \/ Begin(t) \/ Fixed(t) \/ Unmark(t) \/ Remark(t) \/ Fetch(t) \/ Fast(t)
           \/ Back(t) \/ Test(t) \/ Report(t) \/ Finally(t)
    PROVE  Tidied'
  <1>1. JobOK(job[t]) /\ full \in BOOLEAN
    BY DEF IInv, Jobs, TypeOK
  <1>2. CASE job[t].at = "enter"
    <2>1. Enter(t)
      BY <1>2 DEF Begin, Fixed, Unmark, Remark, Fetch, Fast, Back, Test, Report, Finally, At
    <2>2. CASE full' = TRUE
      BY <2>2 DEF Tidied
    <2>3. CASE Goes(t, Maintained(t)) /\ UNCHANGED <<mlock, mark, full>>
      <3>1. PICK r : r = Maintained(t)
        OBVIOUS
      <3>2. r.at \in {"idle", "choose"}
        BY <1>1, <3>1, MaintainedIs
      <3>3. /\ job' = [job EXCEPT ![t] = r]
            /\ UNCHANGED <<tun, active, cfg, full, crossed>>
        BY <2>1, <2>3, <3>1 DEF Enter, Goes
      <3>4. /\ job[t].at \notin Starting \cup {"cut", "enforce", "bar"} \cup Flagging
            /\ r.at \notin Starting \cup {"stop", "start", "publish", "check"} \cup Guarded \cup Stopping
        BY <1>2, <3>2 DEF Starting, Flagging, Stopping, Guarded
      <3>5. active' \subseteq active
        BY <3>3
      <3> QED
        BY <3>3, <3>4, <3>5, Elsewhere
    <2> QED
      BY <2>1, <2>2, <2>3 DEF Enter
  <1>3. CASE job[t].at # "enter"
    <2>1. /\ job[t].at \in Maintaining
          /\ full' = full
      BY <1>3 DEF Enter, Begin, Fixed, Unmark, Remark, Fetch, Fast, Back, Test, Report,
         Finally, At, hist, Maintaining
    <2>2. full
      BY <2>1 DEF IInv, Alone, Apart
    <2> QED
      BY <2>1, <2>2 DEF Tidied
  <1> QED
    BY <1>2, <1>3

LEMMA DiesTidied ==
    ASSUME IInv, Tidied, Dies
    PROVE  Tidied'
  <1>1. /\ UNCHANGED <<recorded, activeId, active, cfg, job, full, crossed>>
        /\ procs \in [Procs -> Nodes \cup {None}] /\ recorded \in Procs \cup {None}
    BY DEF IInv, TypeOK, Dies, hist
  <1>2. PICK p \in Procs : procs' = [procs EXCEPT ![p] = None]
    BY DEF Dies
  <1>3. \A q \in Procs : procs'[q] \in {procs[q], None}
    BY <1>1, <1>2
  <1>4. ~full => Behind'
    BY <1>1, <1>3 DEF Tidied, Behind
  <1>5. ASSUME ~full, ~crossed
        PROVE  Calm'
    <2>1. Calm
      BY <1>5 DEF Tidied
    <2>2. ~(Connecting /\ Changing)'
      BY <1>1, <2>1 DEF Calm, Connecting, Changing
    <2>3. \A u \in Threads : job[u].at \in Starting => job[u].proc \in Procs
      BY DEF IInv, Jobs, JobOK, Starting
    <2>4. Served'
      BY <1>1, <1>3, <2>1, <2>3 DEF Calm, Served
    <2>5. Running' => Running
      BY <1>1, <1>3 DEF Running
    <2>6. Ruled'
      BY <1>1, <2>1, <2>5 DEF Calm, Ruled, Allowed
    <2>7. Shown'
      BY <1>1, <2>1 DEF Calm, Shown
    <2> QED
      BY <2>2, <2>4, <2>6, <2>7 DEF Calm
  <1> QED
    BY <1>1, <1>4, <1>5 DEF Tidied

----------------------------------------------------------------------------
LEMMA InitTidied == Init => Tidied
  <1> SUFFICES ASSUME Init PROVE Tidied
    OBVIOUS
  <1>1. /\ \A p \in Procs : procs[p] = None
        /\ recorded = None /\ activeId = None /\ active = {}
        /\ \A t \in Threads : job[t].at = "idle"
    BY IdleIs DEF Init
  <1>2. Behind
    BY <1>1 DEF Behind, Starting
  <1>3. ~(Connecting /\ Changing)
    BY <1>1 DEF Connecting, Guarded
  <1>4. Served
    BY <1>1 DEF Served, Starting
  <1>5. Ruled
    BY <1>1 DEF Ruled, Running, Starting
  <1>6. Shown
    BY <1>1 DEF Shown
  <1> QED
    BY <1>2, <1>3, <1>4, <1>5, <1>6 DEF Tidied, Calm

LEMMA NextTidied == IInv /\ IInv' /\ Tidied /\ [Next]_vars => Tidied'
  <1> SUFFICES ASSUME IInv, IInv', Tidied, [Next]_vars PROVE Tidied'
    OBVIOUS
  <1>1. ASSUME NEW t \in Threads, Step(t) \/ Ask(t) \/ Runs(t)
        PROVE  Tidied'
    BY <1>1, ConnectTidied, SwitchTidied, RequestTidied, MaintenanceTidied DEF Step
  <1>2. CASE UNCHANGED vars
    BY <1>2 DEF vars, tun, hist, Tidied, Behind, Calm, Connecting, Changing, Served, Ruled,
       Shown, Running, Allowed
  <1> QED
    BY <1>1, <1>2, DiesTidied DEF Next

LEMMA AlwaysTidied == Spec => []Tidied
  <1>1. IInv /\ IInv' /\ Tidied /\ [Next]_vars => Tidied'
    BY NextTidied
  <1> QED
    BY <1>1, InitTidied, Invariant, PTL DEF Spec

\* As long as no full maintenance has run, no OpenVPN process of this program is left
\* without anyone knowing of it, and no two of them set up tun0.
THEOREM OneTunnelCorrect == Spec => []OneTunnel
  <1>1. IInv /\ Tidied => OneTunnel
    <2> SUFFICES ASSUME IInv, Tidied, ~full, NEW p \in Procs, NEW q \in Procs,
                        procs[p] # None
                 PROVE  /\ procs[q] # None => p = q
                        /\ p = recorded \/ \E t \in Threads : job[t].proc = p
      BY DEF OneTunnel
    <2> QED
      BY DEF Tidied, Behind
  <1> QED
    BY <1>1, Invariant, AlwaysTidied, PTL

\* When all requests have been carried out, and no change of the settings overlapped with
\* the setting up of a tunnel, what runs is what the settings ask for.
THEOREM SettingsHoldApartCorrect == Spec => []SettingsHoldApart
  <1>1. IInv /\ Tidied => SettingsHoldApart
    <2> SUFFICES ASSUME IInv, Tidied, ~full, ~crossed, Quiet
                 PROVE  /\ Running => cfg.enabled /\ Allowed(activeId, cfg)
                        /\ active \subseteq {activeId}
      BY DEF SettingsHoldApart, SettingsHold
    <2>1. \A t \in Threads : job[t].at = "idle"
      BY DEF Quiet, At
    <2>2. Calm
      BY DEF Tidied
    <2>3. \A t \in Threads : job[t].at \notin Flagging
      BY <2>1 DEF Flagging
    <2> QED
      BY <2>1, <2>2, <2>3 DEF Calm, Ruled, Shown
  <1> QED
    BY <1>1, Invariant, AlwaysTidied, PTL

=============================================================================
