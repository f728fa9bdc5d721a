----------------------------- MODULE Bootstrap -----------------------------
(***************************************************************************)
(* The first test of a new line (vpngate_manager.py).  A line that is       *)
(* created, or whose country changes, waits: the exit daemon does not       *)
(* connect it until a node has been found for it.  A worker of its own      *)
(* tests the candidates in small batches until one answers and then         *)
(* releases the line.  All tests share one lock that nobody waits for.      *)
(*                                                                          *)
(* A want stands for the country and the IP policy of a line.  The order of *)
(* the candidates is left open.  Files are written at once after each       *)
(* result; a check of the lock and of is_connecting is one step; a probe    *)
(* counts as seen by a worker that had begun, without the second of grace,  *)
(* and a deferred one as not seen, whatever was seen before.                *)
(***************************************************************************)
EXTENDS Naturals, FiniteSets

CONSTANTS
    Ids, Wants, Nodes, None,
    OfCountry, \* the nodes in the country of a want
    Fits,      \* those of them that its policy accepts
    Country,   \* the country of a want
    Up,        \* the nodes that answer
    BatchSize,
    Events,    \* what may occur: "edit", "click", "page", "failure", "crash"
    MaxEvents  \* bound: how often in all

ASSUME BootstrapAssumption ==
    /\ OfCountry \in [Wants -> SUBSET Nodes]
    /\ Fits \in [Wants -> SUBSET Nodes]
    /\ \A w \in Wants : Fits[w] \subseteq OfCountry[w]
    /\ BatchSize \in Nat \ {0}
    /\ MaxEvents \in Nat
    /\ None \notin Ids

VARIABLES
    lines,  \* channels.json: what each line wants, and whether it waits
    nodes,  \* probe_status of each node
    cool,   \* the nodes whose next_probe_at has not come
    used,   \* the nodes that connections use
    worker, \* bootstrap_workers and their local variables
    click,  \* run_channel_availability, started from the page
    test,   \* the test that holds maintenance_lock
    left    \* how many events may still occur

vars == <<lines, nodes, cool, used, worker, click, test, left>>

Line   == [want : Wants, awaiting : BOOLEAN]
Status == {"pending", "testing", "available", "unavailable"}
Worker == [at : {"look", "test", "wait", "judge"}, want : Wants \cup {None},
           batch : SUBSET Nodes, seen : SUBSET Nodes, attempted : SUBSET Nodes]
Click  == [line : Ids, want : Wants, at : {"test", "wait", "judge"}]
Test   == [line : Ids \cup {None}, by : {"worker", "click", "page"}, todo : SUBSET Nodes,
           before : [Nodes -> Status], release : BOOLEAN]

ASSUME NoneAssumption == None \notin Worker /\ None \notin Click /\ None \notin Test

Awaiting(c) == lines[c] # None /\ lines[c].awaiting

Occurs(event) == event \in Events /\ left > 0 /\ left' = left - 1

----------------------------------------------------------------------------
(* Tests.                                                                   *)

\* mark_channel_ready
MarkReady(c) ==
    lines' = IF lines[c] # None THEN [lines EXCEPT ![c].awaiting = FALSE] ELSE lines

\* reset_stale_testing_nodes
Reset == [n \in Nodes |-> IF nodes[n] = "testing" THEN "pending" ELSE nodes[n]]

\* A node's probed_at becomes now: the workers that have taken it will see it.
Seen(probed) ==
    [c \in Ids |-> IF worker[c] = None THEN None
                   ELSE [worker[c] EXCEPT !.seen = @ \cup (probed \cap worker[c].batch)]]

\* A line that waits is released at once for a node known to be available;
\* nodes in use are not tested.
BeginTest(line, by, ids) ==
    LET was   == line # None /\ Awaiting(line)
        known == IF was THEN {n \in ids : Reset[n] = "available"} ELSE {}
    IN
    /\ test = None
    /\ \E first \in IF known = {} THEN {{}} ELSE {{n} : n \in known} :
       LET todo    == ids \ (used \cup first)
           started == {n \in todo : Reset[n] # "unavailable"}
       IN
       /\ IF first = {} THEN UNCHANGED lines ELSE MarkReady(line)
       /\ nodes' = [n \in Nodes |-> IF n \in started THEN "testing" ELSE Reset[n]]
       /\ test' = [line |-> line, by |-> by, todo |-> todo, before |-> Reset,
                   release |-> was /\ first = {}]
       /\ worker' = IF by = "worker"
                    THEN [Seen(started) EXCEPT ![line].at = "wait"]
                    ELSE Seen(started)

\* release_on_first_available
Answers(n) ==
    /\ test # None /\ n \in test.todo /\ n \in Up
    /\ nodes' = [nodes EXCEPT ![n] = "available"]
    /\ cool' = cool \ {n}
    /\ worker' = Seen({n})
    /\ IF test.release THEN MarkReady(test.line) ELSE UNCHANGED lines
    /\ test' = [test EXCEPT !.todo = @ \ {n}, !.release = FALSE]
    /\ UNCHANGED <<used, click, left>>

\* A node that is up may fail, within the bound.
Fails(n) ==
    /\ test # None /\ n \in test.todo
    /\ IF n \in Up THEN Occurs("failure") ELSE UNCHANGED left
    /\ nodes' = [nodes EXCEPT ![n] = "unavailable"]
    /\ cool' = cool \cup {n}
    /\ worker' = Seen({n})
    /\ test' = [test EXCEPT !.todo = @ \ {n}]
    /\ UNCHANGED <<lines, used, click>>

\* The resource guard puts a probe off: the node's record is as before.
Deferred(n) ==
    /\ test # None /\ n \in test.todo
    /\ Occurs("failure")
    /\ nodes' = [nodes EXCEPT ![n] = test.before[n]]
    /\ worker' = [c \in Ids |-> IF worker[c] = None THEN None
                                ELSE [worker[c] EXCEPT !.seen = @ \ {n}]]
    /\ test' = [test EXCEPT !.todo = @ \ {n}]
    /\ UNCHANGED <<lines, cool, used, click>>

Finish ==
    /\ test # None /\ test.todo = {}
    /\ test' = None
    /\ nodes' = Reset
    /\ worker' = IF test.by = "worker" THEN [worker EXCEPT ![test.line].at = "judge"]
                 ELSE worker
    /\ click' = IF test.by = "click" THEN [click EXCEPT !.at = "judge"] ELSE click
    /\ UNCHANGED <<lines, cool, used, left>>

----------------------------------------------------------------------------
(* The workers.                                                             *)

\* The supervisor or the saving of a line; there is one worker for a line.
Ensure(c) ==
    /\ Awaiting(c) /\ worker[c] = None
    /\ worker' = [worker EXCEPT ![c] = [at |-> "look", want |-> None, batch |-> {},
                                        seen |-> {}, attempted |-> {}]]
    /\ UNCHANGED <<lines, nodes, cool, used, click, test, left>>

AtStep(c, at) == worker[c] # None /\ worker[c].at = at

\* Mutant of Eligible: the policy is left for later.
EligibleInCountry(c) == OfCountry[lines[c].want] \ (worker[c].attempted \cup cool)

Eligible(c) == Fits[lines[c].want] \ (worker[c].attempted \cup cool)

\* Mutant of Return: a worker may end while its test runs.
ReturnAnyTime(c) ==
    /\ worker[c] # None /\ ~Awaiting(c)
    /\ worker' = [worker EXCEPT ![c] = None]
    /\ UNCHANGED <<lines, nodes, cool, used, click, test, left>>

Return(c) ==
    /\ AtStep(c, "look") /\ ~Awaiting(c)
    /\ worker' = [worker EXCEPT ![c] = None]
    /\ UNCHANGED <<lines, nodes, cool, used, click, test, left>>

BatchOf(c) ==
    {s \in SUBSET Eligible(c) :
        Cardinality(s) = IF Cardinality(Eligible(c)) < BatchSize
                         THEN Cardinality(Eligible(c)) ELSE BatchSize}

Look(c) ==
    /\ AtStep(c, "look") /\ Awaiting(c) /\ test = None /\ Eligible(c) # {}
    /\ \E batch \in BatchOf(c) :
          worker' = [worker EXCEPT ![c] = [@ EXCEPT !.at = "test", !.batch = batch,
                                                    !.want = lines[c].want]]
    /\ UNCHANGED <<lines, nodes, cool, used, click, test, left>>

\* Mutant of Forget: what has been tried is never tried again.
ForgetNothing(c) == FALSE /\ UNCHANGED vars

\* After half an hour without a candidate all of them may be tried again.
Forget(c) ==
    /\ AtStep(c, "look") /\ Awaiting(c) /\ test = None
    /\ Eligible(c) = {} /\ worker[c].attempted # {}
    /\ worker' = [worker EXCEPT ![c].attempted = {}]
    /\ UNCHANGED <<lines, nodes, cool, used, click, test, left>>

Enter(c) ==
    /\ AtStep(c, "test")
    /\ BeginTest(c, "worker", worker[c].batch)
    /\ UNCHANGED <<cool, used, click, left>>

\* Another test has come first, or the resource guard refuses.
NotTested(c) ==
    /\ AtStep(c, "test")
    /\ IF test = None THEN Occurs("failure") ELSE UNCHANGED left
    /\ worker' = [worker EXCEPT ![c].at = "judge"]
    /\ UNCHANGED <<lines, nodes, cool, used, click, test>>

\* Mutant of Winners: a test that is under way is taken for a success.
WinnersEarly(c) == {n \in worker[c].seen : nodes[n] # "unavailable"}

Winners(c) ==
    {n \in worker[c].seen :
        nodes[n] = "available" /\ n \in Fits[worker[c].want]}

NextRound(c) ==
    [worker[c] EXCEPT !.at = "look", !.want = None, !.batch = {}, !.seen = {},
                      !.attempted = @ \cup worker[c].seen]

Judge(c) ==
    /\ AtStep(c, "judge")
    /\ IF Winners(c) # {}
       THEN MarkReady(c) /\ worker' = [worker EXCEPT ![c] = None]
       ELSE worker' = [worker EXCEPT ![c] = NextRound(c)] /\ UNCHANGED lines
    /\ UNCHANGED <<nodes, cool, used, click, test, left>>

----------------------------------------------------------------------------
(* The test of one line asked for on its card, or by the recovery loop.  It *)
(* takes the nodes of the country, also those the policy rejects.           *)

ClickTest(c) ==
    /\ lines[c] # None /\ click = None /\ test = None
    /\ Occurs("click")
    /\ click' = [line |-> c, want |-> lines[c].want, at |-> "test"]
    /\ UNCHANGED <<lines, nodes, cool, used, worker, test>>

ClickEnters ==
    /\ click # None /\ click.at = "test"
    /\ BeginTest(click.line, "click", OfCountry[click.want])
    /\ click' = [click EXCEPT !.at = "wait"]
    /\ UNCHANGED <<cool, used, left>>

ClickNotTested ==
    /\ click # None /\ click.at = "test" /\ test # None
    /\ click' = [click EXCEPT !.at = "judge"]
    /\ UNCHANGED <<lines, nodes, cool, used, worker, test, left>>

ClickJudges ==
    /\ click # None /\ click.at = "judge"
    /\ IF \E n \in Fits[click.want] : nodes[n] = "available"
       THEN MarkReady(click.line) ELSE UNCHANGED lines
    /\ click' = None
    /\ UNCHANGED <<nodes, cool, used, worker, test, left>>

\* A test of nodes that is for no line.
PageTest(ids) ==
    /\ Occurs("page")
    /\ BeginTest(None, "page", ids)
    /\ UNCHANGED <<cool, used, click>>

----------------------------------------------------------------------------
(* What happens around them.                                                *)

\* A line is created or changed; it waits when its country is new.
Save(c, want) ==
    /\ lines[c] # None => lines[c].want # want
    /\ Occurs("edit")
    /\ lines' = [lines EXCEPT ![c] =
           [want |-> want,
            awaiting |-> \/ lines[c] = None
                         \/ Country[lines[c].want] # Country[want]
                         \/ lines[c].awaiting]]
    /\ UNCHANGED <<nodes, cool, used, worker, click, test>>

Delete(c) ==
    /\ lines[c] # None
    /\ Occurs("edit")
    /\ lines' = [lines EXCEPT ![c] = None]
    /\ UNCHANGED <<nodes, cool, used, worker, click, test>>

CoolDown(n) ==
    /\ n \in cool /\ cool' = cool \ {n}
    /\ UNCHANGED <<lines, nodes, used, worker, click, test, left>>

\* A released line connects, by a node found available, and leaves it.
Use(n) ==
    /\ n \notin used /\ nodes[n] = "available"
    /\ \E c \in Ids : lines[c] # None /\ ~lines[c].awaiting /\ n \in Fits[lines[c].want]
    /\ used' = used \cup {n}
    /\ UNCHANGED <<lines, nodes, cool, worker, click, test, left>>

LeaveNode(n) ==
    /\ n \in used /\ used' = used \ {n}
    /\ UNCHANGED <<lines, nodes, cool, worker, click, test, left>>

\* The dashboard is killed and started again.
Crash ==
    /\ Occurs("crash")
    /\ worker' = [c \in Ids |-> None] /\ click' = None /\ test' = None
    /\ UNCHANGED <<lines, nodes, cool, used>>

----------------------------------------------------------------------------

Init ==
    /\ lines \in [Ids -> [want : Wants, awaiting : {TRUE}] \cup {None}]
    /\ nodes \in [Nodes -> {"pending", "available"}]
    /\ cool = {} /\ used = {}
    /\ worker = [c \in Ids |-> None] /\ click = None /\ test = None
    /\ left = MaxEvents

WorkerStep(c) ==
    Ensure(c) \/ Return(c) \/ Look(c) \/ Forget(c) \/ Enter(c) \/ NotTested(c) \/ Judge(c)

TestStep == (\E n \in Nodes : Answers(n) \/ Fails(n) \/ Deferred(n)) \/ Finish

ClickStep == ClickEnters \/ ClickNotTested \/ ClickJudges

Around ==
    \/ \E c \in Ids : ClickTest(c) \/ Delete(c) \/ \E want \in Wants : Save(c, want)
    \/ \E ids \in SUBSET Nodes : PageTest(ids)
    \/ \E n \in Nodes : CoolDown(n) \/ Use(n) \/ LeaveNode(n)
    \/ Crash

Next == (\E c \in Ids : WorkerStep(c)) \/ TestStep \/ ClickStep \/ Around

Spec == Init /\ [][Next]_vars

\* Probes have a timeout, and times come.  A worker asks for the lock every two
\* seconds, and the others leave it alone for ten seconds or more once they have
\* tried their candidates.
FairSpec ==
    /\ Spec
    /\ WF_vars(TestStep) /\ WF_vars(ClickStep)
    /\ \A n \in Nodes : WF_vars(CoolDown(n))
    /\ \A c \in Ids : /\ WF_vars(WorkerStep(c))
                      /\ SF_vars(Look(c) \/ Forget(c)) /\ SF_vars(Enter(c))

----------------------------------------------------------------------------
(* Properties.                                                              *)

\* Whoever has begun a test still waits for it, and a test that releases is one line's.
TypeOK ==
    /\ lines \in [Ids -> Line \cup {None}]
    /\ nodes \in [Nodes -> Status]
    /\ cool \subseteq Nodes /\ used \subseteq Nodes
    /\ worker \in [Ids -> Worker \cup {None}]
    /\ click \in Click \cup {None}
    /\ test \in Test \cup {None}
    /\ test # None => \/ /\ test.by = "worker" /\ test.line \in Ids
                         /\ AtStep(test.line, "wait")
                      \/ test.by = "click" /\ click # None /\ click.at = "wait"
                      \/ test.by = "page"
    /\ test # None /\ test.release => test.line \in Ids
    /\ left \in 0..MaxEvents

Releases(c) == Awaiting(c) /\ lines'[c] # None /\ ~lines'[c].awaiting

\* What a line may be released for: the nodes that fit what its worker has taken it up
\* for, and, when its test is asked for on the card, those of the country it had then.
TakenFor(c) ==
    (IF worker[c] # None /\ worker[c].at # "look" THEN Fits[worker[c].want] ELSE {})
    \cup (IF click # None /\ click.line = c THEN OfCountry[click.want] ELSE {})

\* "Release one country as soon as its first usable exit has been found": a line
\* stops waiting only for an available node that fits what its worker read of it, or
\* that is of its country when the page asked for its test.  Neither need be what it
\* wants by then: its settings may have changed during the test, and the test of the
\* page takes nodes that its policy rejects.
ReleasedForOwnNode ==
    [][\A c \in Ids : Releases(c) => \E n \in TakenFor(c) : nodes'[n] = "available"]_vars

\* Without such changes and tests: for one that the line wants.
ReleasedAsWanted ==
    [][\A c \in Ids :
          Releases(c) => \E n \in Fits[lines[c].want] : nodes'[n] = "available"]_vars

\* A line that waits is released in the end if one of its nodes answers: past
\* failed and deferred probes, other tests, other workers and restarts.
Usable(c) == Awaiting(c) /\ Fits[lines[c].want] \cap Up # {}

Released == \A c \in Ids : Usable(c) ~> ~Usable(c)
============================================================================
