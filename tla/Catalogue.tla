------------------------------ MODULE Catalogue ------------------------------
(***************************************************************************)
(* The list of nodes (nodes.json) and the tasks of the dashboard that       *)
(* change it (vpngate_manager.py): updates from the sources, tests of many  *)
(* nodes or of one, and the full maintenance, which does both.  A task      *)
(* holds maintenance_lock and sets is_connecting; connecting the            *)
(* dashboard's own tunnel is kept out by is_connecting, except where the    *)
(* full maintenance clears it for a while.  A failed switch to another      *)
(* node marks that node in the list at any time.                            *)
(*                                                                          *)
(* The list, the files with the nodes' configurations, the blacklist and    *)
(* the pause are on disk and survive the end of the dashboard.              *)
(***************************************************************************)
EXTENDS Naturals, FiniteSets

CONSTANTS
    Nodes, None,
    Sources, Main, \* the site and its mirrors
    Offer,         \* the nodes of each source
    Target, Cap,   \* CACHED_CONFIG_RECOVERY_TARGET; a thousand
    Events,        \* what may occur: "pause", "connect", "mark", "memory", "error",
                   \* "disk", "crash"
    MaxEvents      \* bound: how often in all

ASSUME CatalogueAssumption ==
    /\ None \notin Nodes /\ Main \in Sources
    /\ Offer \in [Sources -> SUBSET Nodes]
    /\ IsFiniteSet(Nodes) /\ Target \in Nat /\ Cap \in Nat /\ Target <= Cap

VARIABLES
    listed, \* the nodes in the list
    probe,  \* their probe_status
    recent, \* those of them seen within NODE_RETENTION_SECONDS
    files,  \* the nodes whose configuration is in CONFIG_DIR
    aged,   \* those of them older than CONFIG_CACHE_RETENTION_SECONDS
    black,  \* the blacklist
    used,   \* active_openvpn_node_id
    paused, \* METADATA_PAUSE_FILE
    stop,   \* metadata_cancel_event
    task,   \* the task that holds maintenance_lock
    left    \* how many events may still occur

catalogue == <<listed, probe, recent>>
cache     == <<files, aged>>
halt      == <<paused, stop>>
vars      == <<catalogue, cache, black, used, halt, task, left>>

Occurs(event) == event \in Events /\ left > 0 /\ left' = left - 1

Verdict == {"available", "unavailable"}
Unasked == [s \in Sources |-> "no"]
NoResult == [n \in Nodes |-> "none"]

NoTask == [kind |-> "none", at |-> "none", got |-> {}, asked |-> Unasked, todo |-> {},
           before |-> NoResult, result |-> NoResult]

Smaller(m, n) == IF m < n THEN m ELSE n

\* reset_stale_testing_nodes
Reset(p) == [n \in Nodes |-> IF p[n] = "testing" THEN "not_checked" ELSE p[n]]

----------------------------------------------------------------------------
(* A task begins and ends.                                                  *)

Free == task.kind = "none"

Take(kind, at) ==
    /\ Free
    /\ task' = [NoTask EXCEPT !.kind = kind, !.at = at]
    /\ probe' = Reset(probe)

End == task' = [task EXCEPT !.at = "end"]

\* Mutant of Release: no task takes the marks off.
ReleaseOnly ==
    /\ task.at = "end"
    /\ task' = NoTask
    /\ UNCHANGED <<catalogue, cache, black, used, halt, left>>

\* The finally of the tasks.  Those of the dashboard's own batches and of the
\* maintenance take the marks of tests off; those of an update and of the tests of the
\* page do not.
Release ==
    /\ task.at = "end"
    /\ task' = NoTask
    /\ probe' = IF task.kind \in {"batch", "full"} THEN Reset(probe) ELSE probe
    /\ UNCHANGED <<listed, recent, cache, black, used, halt, left>>

\* Something raises an exception.
Breaks ==
    /\ task.at \in {"store", "tidy", "test"}
    /\ Occurs("error")
    /\ End
    /\ UNCHANGED <<catalogue, cache, black, used, halt>>

----------------------------------------------------------------------------
(* Updates.                                                                 *)

\* The collector, or the standby loop.
RoutineUpdate ==
    /\ ~paused /\ ~stop
    /\ Take("update", "fetch")
    /\ UNCHANGED <<listed, recent, cache, black, used, halt, left>>

\* The recovery loop, or the administrator: the pause ends whether or not the lock
\* is free.
ForcedUpdate ==
    /\ paused' = FALSE /\ stop' = FALSE
    /\ \/ Take("update", "fetch")
       \/ ~Free /\ task.kind # "start" /\ UNCHANGED <<task, probe>>
    /\ UNCHANGED <<listed, recent, cache, black, used, left>>

\* maintain_valid_nodes
FullMaintenance ==
    /\ Take("full", "fetch")
    /\ UNCHANGED <<listed, recent, cache, black, used, halt, left>>

\* The main site comes first; which mirrors are known is left open.
MayAsk(s) ==
    /\ task.at = "fetch" /\ ~stop /\ task.asked[s] = "no"
    /\ s # Main => task.asked[Main] # "no"

\* A source that answers adds what it offers and the blacklist does not have.
Answer(s) ==
    /\ MayAsk(s)
    /\ task' = [task EXCEPT !.asked[s] = "ok", !.got = @ \cup (Offer[s] \ black)]
    /\ UNCHANGED <<catalogue, cache, black, used, halt, left>>

NoAnswer(s) ==
    /\ MayAsk(s)
    /\ task' = [task EXCEPT !.asked[s] = "failed"]
    /\ UNCHANGED <<catalogue, cache, black, used, halt, left>>

\* Mutant of TooLarge: the next source is asked.
TooLargeSkipped(s) ==
    /\ MayAsk(s)
    /\ task' = [task EXCEPT !.asked[s] = "large"]
    /\ UNCHANGED <<catalogue, cache, black, used, halt, left>>

\* An answer over the limit ends the update.
TooLarge(s) ==
    /\ MayAsk(s)
    /\ task' = [task EXCEPT !.asked[s] = "large", !.at = "end"]
    /\ UNCHANGED <<catalogue, cache, black, used, halt, left>>

\* So does a stop, or too little memory.
Cancelled ==
    /\ task.at = "fetch"
    /\ IF stop THEN UNCHANGED left ELSE Occurs("memory")
    /\ End
    /\ UNCHANGED <<catalogue, cache, black, used, halt>>

\* Without any node an update goes on with what is known, and the maintenance ends.
GoesOn(got) == got # {} \/ (task.kind = "update" /\ (listed # {} \/ files # {}))

Proceed(got) == IF GoesOn(got) THEN task' = [task EXCEPT !.at = "store", !.got = got] ELSE End

Fetched ==
    /\ task.at = "fetch" /\ ~stop /\ task.asked[Main] # "no"
    /\ Proceed(task.got)
    /\ UNCHANGED <<catalogue, cache, black, used, halt, left>>

\* An exception outside of the sources counts as no answer at all.
FetchBreaks ==
    /\ task.at = "fetch" /\ ~stop /\ Occurs("error")
    /\ Proceed({})
    /\ UNCHANGED <<catalogue, cache, black, used, halt>>

----------------------------------------------------------------------------
(* enrich_and_store_candidates: the new list, in the order of its groups.   *)

Active   == {used} \cap listed
Retained == {n \in listed \ black : n \in recent}

\* Mutant of Merged: only what the sources offer, and the active node.
MergedOnly(got) == Active \cup got
Merged(got) == Active \cup got \cup Retained

\* From the files, newest first, while there are fewer than Target.
Recovered(got) ==
    LET pool == files \ (Merged(got) \cup black)
        size == Cardinality(Merged(got))
        room == IF size < Target THEN Target - size ELSE 0
    IN  {R \in SUBSET pool :
            /\ Cardinality(R) = Smaller(room, Cardinality(pool))
            /\ R \cap aged # {} => pool \ aged \subseteq R}

\* Not more than Cap; what is known already goes first.
CutTo(got, all) ==
    {K \in SUBSET all :
        /\ Cardinality(K) = Smaller(Cap, Cardinality(all))
        /\ Active \subseteq K
        /\ K \ (Active \cup got) # {} => got \subseteq K
        /\ K \ Merged(got) # {} => Merged(got) \subseteq K}

\* Mutant of Probes: a node that is offered counts as a new one.
ProbesAnew(got, back, K) ==
    [n \in Nodes |-> IF n \in K \cap (got \cup back) THEN "not_checked" ELSE probe[n]]

\* The results of known nodes are kept.
Probes(got, back, K) ==
    [n \in Nodes |-> IF n \in K \cap ((got \ listed) \cup back) THEN "not_checked"
                     ELSE IF n \in K THEN probe[n] ELSE "none"]

\* The record of the active node stays as it is, and so does its file.
Stores(got) ==
    \E back \in Recovered(got) : \E K \in CutTo(got, Merged(got) \cup back) :
        LET new == (got \ Active) \cap K IN
        /\ listed' = K
        /\ recent' = (recent \cup new \cup back) \cap K
        /\ probe' = Probes(got, back, K)
        /\ \E lost \in SUBSET new :
              /\ IF lost = {} THEN UNCHANGED left ELSE Occurs("disk")
              /\ files' = files \cup (new \ lost)
              /\ aged' = aged \ (new \ lost)

Store ==
    /\ task.at = "store"
    /\ Stores(task.got)
    /\ task' = [task EXCEPT !.at = IF task.kind = "full" THEN "rest"
                                   ELSE IF stop THEN "end" ELSE "tidy"]
    /\ UNCHANGED <<black, used, halt>>

\* cleanup_stale_config_cache, which does nothing most of the time.
Tidy ==
    /\ task.at = "tidy"
    /\ End
    /\ files' \in {files, files \ (aged \ listed)}
    /\ aged' = aged \cap files'
    /\ UNCHANGED <<catalogue, black, used, halt, left>>

----------------------------------------------------------------------------
(* Tests.                                                                   *)

\* Mutant of Marked: the states are kept after they have been changed.
MarkedBefore(t, p, todo) ==
    [t EXCEPT !.at = "test", !.todo = todo,
              !.before = [n \in Nodes |-> IF n \notin todo THEN "none"
                                          ELSE IF p[n] = "unavailable" THEN p[n]
                                          ELSE "pending"]]

\* test_multiple_nodes: the states p of the nodes before the test are kept; a mark that
\* was there before gives no state to go back to.
Marked(t, p, todo) ==
    [t EXCEPT !.at = "test", !.todo = todo,
              !.before = [n \in Nodes |-> IF n \notin todo THEN "none"
                                          ELSE IF p[n] = "testing" THEN "pending"
                                          ELSE p[n]]]

Mark(p, todo) ==
    probe' = [n \in Nodes |-> IF n \in todo /\ p[n] # "unavailable" THEN "testing" ELSE p[n]]

\* The active node is left out, and so are some that the country lines use.
Asked(ids) == (ids \cap listed) \ Active

\* test_node_availability_only
BeginBatch(ids) ==
    /\ Free
    /\ task' = Marked([NoTask EXCEPT !.kind = "batch"], Reset(probe), Asked(ids))
    /\ Mark(Reset(probe), Asked(ids))
    /\ UNCHANGED <<listed, recent, cache, black, used, halt, left>>

\* A test that the page asks for and waits for: marks that are there already stay.
BeginPage(ids) ==
    /\ Free
    /\ task' = Marked([NoTask EXCEPT !.kind = "page"], probe, Asked(ids))
    /\ Mark(probe, Asked(ids))
    /\ UNCHANGED <<listed, recent, cache, black, used, halt, left>>

\* The maintenance tests some nodes, then others.
NextBatch(ids) ==
    /\ task.at = "rest"
    /\ task' = Marked(task, probe, Asked(ids))
    /\ Mark(probe, Asked(ids))
    /\ UNCHANGED <<listed, recent, cache, black, used, halt, left>>

NoMoreBatches ==
    /\ task.at = "rest" /\ End
    /\ UNCHANGED <<catalogue, cache, black, used, halt, left>>

\* What the results so far make of a list.
Overlay(results) ==
    [n \in Nodes |-> CASE n \notin listed            -> probe[n]
                       [] results[n] \in Verdict     -> results[n]
                       [] results[n] = "deferred"    -> task.before[n]
                       [] OTHER                      -> probe[n]]

\* A node is tested, or is not for want of memory; now and then the results so far
\* are written.
TestNode(n) ==
    /\ task.at = "test" /\ task.kind # "single"
    /\ n \in task.todo /\ task.result[n] = "none"
    /\ \E r \in Verdict \cup {"deferred"}, flush \in BOOLEAN :
          /\ IF r = "deferred" THEN Occurs("memory") ELSE UNCHANGED left
          /\ task' = [task EXCEPT !.result[n] = r]
          /\ probe' = IF flush THEN Overlay(task'.result) ELSE probe
    /\ UNCHANGED <<listed, recent, cache, black, used, halt>>

EndBatch ==
    /\ task.at = "test" /\ task.kind # "single"
    /\ \A n \in task.todo : task.result[n] # "none"
    /\ probe' = Overlay(task.result)
    /\ task' = [task EXCEPT !.at = IF task.kind = "full" THEN "rest" ELSE "end",
                            !.todo = {}, !.before = NoResult, !.result = NoResult]
    /\ UNCHANGED <<listed, recent, cache, black, used, halt, left>>

\* test_node_by_id
BeginSingle(n) ==
    /\ Free /\ n \in listed
    /\ task' = [NoTask EXCEPT !.kind = "single", !.at = "test", !.todo = {n}]
    /\ UNCHANGED <<catalogue, cache, black, used, halt, left>>

EndSingle ==
    /\ task.at = "test" /\ task.kind = "single"
    /\ \E n \in task.todo, r \in Verdict : probe' = [probe EXCEPT ![n] = r]
    /\ task' = [task EXCEPT !.at = "end", !.todo = {}]
    /\ UNCHANGED <<listed, recent, cache, black, used, halt, left>>

----------------------------------------------------------------------------
(* The dashboard's tunnel, the administrator, time, and the dashboard's end. *)

\* stop_active_openvpn deletes the configuration of the active node.
StillStored == files \ Active

\* The node is connected, except that under some rules its exit must be known.
Connected(n) ==
    /\ used' \in {n, None}
    /\ files' = StillStored
    /\ UNCHANGED <<probe, black>>

\* It does not answer, and its configuration goes.
Fails(n) ==
    /\ used' = None
    /\ files' = StillStored \ {n}
    /\ probe' = [probe EXCEPT ![n] = "unavailable"]
    /\ UNCHANGED black

\* The rules refuse its exit: mark_blacklisted.
Refused(n) ==
    /\ used' = None
    /\ files' = StillStored
    /\ probe' = [probe EXCEPT ![n] = "unavailable"]
    /\ black' = black \cup {n}

\* Its configuration is missing, as is that of the active node when it is connected
\* again.
NotStored ==
    /\ used' = None
    /\ files' = StillStored
    /\ UNCHANGED <<probe, black>>

\* connect_node, which writes the configuration anew
Connect(n) ==
    /\ Free \/ task.at = "rest"
    /\ n \in listed /\ Occurs("connect")
    /\ IF n \in StillStored THEN Connected(n) \/ Fails(n) \/ Refused(n) ELSE NotStored
    /\ aged' = (aged \cap files') \ {n}
    /\ UNCHANGED <<listed, recent, halt, task>>

Disconnect ==
    /\ used # None /\ used' = None
    /\ files' = StillStored /\ aged' = aged \cap files'
    /\ UNCHANGED <<catalogue, black, halt, task, left>>

\* auto_switch_node: a node that could not be connected, perhaps because of a task.
SwitchFails(n) ==
    /\ task.kind # "start" /\ n \in listed \ Active /\ Occurs("mark")
    /\ probe' = [probe EXCEPT ![n] = "unavailable"]
    /\ UNCHANGED <<listed, recent, cache, black, used, halt, task>>

Pause ==
    /\ task.kind # "start" /\ Occurs("pause")
    /\ paused' = TRUE /\ stop' = TRUE
    /\ UNCHANGED <<catalogue, cache, black, used, task>>

Forget(n) ==
    \/ /\ n \in recent /\ recent' = recent \ {n}
       /\ UNCHANGED <<listed, probe, cache, black, used, halt, task, left>>
    \/ /\ n \in files \ aged /\ aged' = aged \cup {n}
       /\ UNCHANGED <<catalogue, files, black, used, halt, task, left>>
    \/ /\ n \in black /\ black' = black \ {n}
       /\ UNCHANGED <<catalogue, cache, used, halt, task, left>>

\* Mutant of Clean: what was under test stays so.
CleanNothing(p) == p
Clean(p) == Reset(p)

\* The dashboard is killed and starts; the pause is kept.
Restart ==
    /\ Occurs("crash")
    /\ task' = [NoTask EXCEPT !.kind = "start", !.at = "refill"] /\ used' = None
    /\ stop' = paused
    /\ probe' = Clean(probe)
    /\ UNCHANGED <<listed, recent, cache, black, paused>>

\* A short list is filled up before anything else happens.
Refill ==
    /\ task.at = "refill" /\ task' = NoTask
    /\ IF Cardinality(listed) < Target THEN Stores({})
       ELSE UNCHANGED <<catalogue, cache, left>>
    /\ UNCHANGED <<black, used, halt>>

----------------------------------------------------------------------------

\* A list whose nodes have been seen and have their files.
Init ==
    /\ listed \in SUBSET Offer[Main]
    /\ probe = [n \in Nodes |-> IF n \in listed THEN "available" ELSE "none"]
    /\ recent = listed /\ files = listed /\ aged = {}
    /\ black = {} /\ used = None
    /\ paused = FALSE /\ stop = FALSE
    /\ task = NoTask
    /\ left = MaxEvents

Update == \/ RoutineUpdate \/ ForcedUpdate \/ FullMaintenance \/ Cancelled \/ Fetched
          \/ FetchBreaks \/ Store \/ Tidy
          \/ \E s \in Sources : Answer(s) \/ NoAnswer(s) \/ TooLarge(s)

Tests == \/ NoMoreBatches \/ EndBatch \/ EndSingle
         \/ \E ids \in SUBSET Nodes : BeginBatch(ids) \/ BeginPage(ids) \/ NextBatch(ids)
         \/ \E n \in Nodes : TestNode(n) \/ BeginSingle(n)

Around == \/ Disconnect \/ Pause \/ Restart \/ Refill
          \/ \E n \in Nodes : Connect(n) \/ SwitchFails(n) \/ Forget(n)

Next == Update \/ Tests \/ Release \/ Breaks \/ Around

Spec == Init /\ [][Next]_vars

----------------------------------------------------------------------------
(* Properties.                                                              *)

\* A node that is marked as under test is in the list; it is being tested, or a test of
\* it was broken off.  A batch and the maintenance take such marks off when they end; a
\* test of the page leaves them until the next update, batch, maintenance or start.
TypeOK ==
    /\ listed \subseteq Nodes /\ recent \subseteq listed
    /\ aged \subseteq files /\ files \subseteq Nodes
    /\ black \subseteq Nodes /\ used \in Nodes \cup {None}
    /\ \A n \in Nodes : /\ probe[n] = "none" <=> n \notin listed
                        /\ probe[n] = "testing" =>
                               \/ task.kind \in {"none", "single", "page"}
                               \/ /\ task.kind \in {"batch", "full"}
                                  /\ task.at = "end" \/ (task.at = "test" /\ n \in task.todo)

Large == \E s \in Sources : task.asked[s] = "large"

\* "A temporary main-site/mirror outage must not collapse a healthy catalog": whatever
\* the sources answer and whatever happens during an update, it drops neither the
\* active node nor, unless the list is full, one seen recently that is not on the
\* blacklist; it keeps the results of the tests of those it keeps; it lists no node
\* anew that is on the blacklist; and one that met an answer over the limit changes
\* nothing.
UpdateKeeps ==
    [][task.at \in {"store", "refill"} /\ task'.at # task.at =>
          /\ Large => listed' = listed /\ probe' = probe
          /\ Active \subseteq listed'
          /\ Cardinality(listed') < Cap => Retained \subseteq listed'
          /\ \A n \in (Active \cup Retained) \cap listed' : probe'[n] \in {probe[n], Reset(probe)[n]}
          /\ listed' \cap black \subseteq listed]_vars

\* "Preserve original states so memory pressure never turns a healthy candidate into a
\* failure or leaves an unstarted probe testing": a test remembers what its nodes were,
\* but for a mark left on them, and when it ends, a node whose test was put off is that
\* again.  When a batch, the maintenance, an update or the start ends, no node is left
\* marked as under test, whatever failed and whichever test left the mark.
StatesRestored ==
    [][/\ \A n \in Nodes :
             /\ n \in task'.todo \ task.todo /\ task'.kind # "single" =>
                    task'.before[n] = probe[n] \/ (probe[n] = "testing" /\ task'.before[n] # "testing")
             /\ n \in task.todo \ task'.todo /\ task.result[n] = "deferred"
                /\ task'.kind = task.kind =>
                    probe'[n] = task.before[n] /\ probe'[n] # "testing"
       /\ task.kind \in {"batch", "full", "update", "start"} /\ task'.kind = "none" =>
             \A n \in Nodes : probe'[n] # "testing"]_vars
=============================================================================
