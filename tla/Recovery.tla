------------------------------ MODULE Recovery ------------------------------
(***************************************************************************)
(* How a country line that has failed comes back.  The exit daemon          *)
(* (multi_exit_manager.py) goes over the lines in passes and tries a few    *)
(* candidates of each line that is down; a candidate that fails is set      *)
(* aside for the line.  The dashboard (vpngate_manager.py) watches the      *)
(* lines: for one that stays failed its recovery loop tests the nodes of    *)
(* the country and, if that finds none, updates the node list; then it      *)
(* tells the daemon to start again.  A standby loop tests nodes ahead of    *)
(* need, and a collector updates the list unless the administrator has      *)
(* paused that.                                                             *)
(*                                                                          *)
(* Time passes with the daemon's passes: a node that failed is set aside    *)
(* for Backoff of them, however often it failed before.  The grace and the  *)
(* windows of the recovery loop end at any time.  Which nodes are due for   *)
(* the standby loop, and the order of equal candidates, is left open.  A     *)
(* test and an update of the list are one step each, with all that holds    *)
(* maintenance_lock left out: they may be refused (Bootstrap and Catalogue  *)
(* have them in detail).                                                    *)
(***************************************************************************)
EXTENDS Naturals, FiniteSets, SequencesExt

CONSTANTS
    Lines, Nodes, None,
    Place,      \* of each line in the list
    Of,         \* the country of each line and node
    Mode,       \* ip_type of a line
    Type,       \* the type of a node's address
    Excluded,   \* the nodes whose provider their country excludes
    TestedOnly, \* the lines that take only nodes found available
    Up,         \* the nodes that answer and give an exit
    Offered,    \* the nodes in the sources of the list
    Lists, Pauses, \* the list and the pause to begin with
    MaxCandidates,  \* MAX_CONNECT_CANDIDATES
    Backoff, Recent, \* in passes: FAILURE_BACKOFF, RECOVERY_COOLDOWN_RETRY
    Events,     \* what may occur: "failure", "loss", "pin", "pause"
    MaxEvents   \* bound: how often in all

ASSUME RecoveryAssumption ==
    /\ None \notin Nodes /\ None \notin Lines
    /\ Up \subseteq Nodes /\ Offered \subseteq Nodes
    /\ Lists \subseteq SUBSET Nodes /\ IsFiniteSet(Nodes)
    /\ MaxCandidates \in Nat \ {0} /\ Backoff \in Nat \ {0} /\ Recent \in 1..Backoff

VARIABLES
    line,     \* state.json and channels.json: status, node, preferred node, restart token
    cooldown, \* history of each line: passes until a node may be tried again
    blocked,  \* deep_failures.json: passes until it counts as usable again
    listed,   \* the nodes in the list
    probe,    \* their probe_status
    paused,   \* METADATA_PAUSE_FILE
    daemon,   \* where the daemon is, and what it has read
    rec,      \* where the recovery loop is
    watch,    \* of a line that is down: "waiting" in its grace or window, "due" for a
              \* test, "tested" in a pass that has not ended, else "no"
    refreshed, \* the lines that had the list updated within the window
    left      \* how many events may still occur

exit   == <<line, cooldown, blocked>>
list   == <<listed, probe, paused>>
window == <<watch, refreshed>>
vars   == <<exit, list, daemon, rec, window, left>>

Occurs(event) == event \in Events /\ left > 0 /\ left' = left - 1

----------------------------------------------------------------------------
(* The policy of a line (channel_policy.py).                                *)

\* ip_type_rank
Rank(n, mode) ==
    CASE mode = "residential_only"      -> IF Type[n] = "residential" THEN 0 ELSE 99
      [] mode = "hosting_only"          -> IF Type[n] = "hosting" THEN 0 ELSE 99
      [] mode = "residential_preferred" -> IF Type[n] = "residential" THEN 0
                                           ELSE IF Type[n] = "hosting" THEN 2 ELSE 1
      [] OTHER                          -> 0

\* candidate_rejection: the provider, then the type.
Rejects(c, n) == n \in Excluded \/ Rank(n, Mode[c]) = 99

InCountry(c) == {n \in listed : Of[n] = Of[c]}
Accepted(c)  == {n \in InCountry(c) : ~Rejects(c, n)}

----------------------------------------------------------------------------
(* The daemon.                                                              *)

Idle == [at |-> "idle", todo |-> {}, again |-> {}, pref |-> [c \in Lines |-> None],
         cur |-> None, order |-> <<>>]

\* A pass works from the settings it has loaded.
BeginPass ==
    /\ daemon.at = "idle"
    /\ daemon' = [Idle EXCEPT !.at = "pass", !.todo = Lines,
                              !.again = {c \in Lines : line[c].again},
                              !.pref = [c \in Lines |-> line[c].pref]]
    /\ line' = [c \in Lines |-> [line[c] EXCEPT !.again = FALSE]]
    /\ UNCHANGED <<cooldown, blocked, list, rec, window, left>>

\* Mutant of Aged: what is over goes on being counted.
AgedOn(f) == [c \in Lines |-> [n \in Nodes |-> f[c][n] - 1]]

Aged(f) == [c \in Lines |-> [n \in Nodes |-> IF f[c][n] = 0 THEN 0 ELSE f[c][n] - 1]]

EndPass ==
    /\ daemon.at = "pass" /\ daemon.todo = {}
    /\ daemon' = Idle
    /\ cooldown' = Aged(cooldown) /\ blocked' = Aged(blocked)
    /\ UNCHANGED <<line, list, rec, window, left>>

Connected(c) == line[c].status = "connected"

\* In the order of the list.
IsNext(c, todo) == c \in todo /\ \A d \in todo : Place[c] <= Place[d]
Handles(c)     == daemon.at = "pass" /\ IsNext(c, daemon.todo)

\* clear_deep_failure
Absolve(c, n) == blocked' = [blocked EXCEPT ![c][n] = 0]

\* An exit that works under the settings it was made with is kept.
Keep(c) ==
    /\ Handles(c) /\ Connected(c) /\ c \notin daemon.again
    /\ line[c].node \in Up
    /\ Absolve(c, line[c].node)
    /\ daemon' = [daemon EXCEPT !.todo = @ \ {c}, !.pref[c] = None]
    /\ UNCHANGED <<line, cooldown, list, rec, window, left>>

\* occupied_country_exits
Occupied(c) == {line[d].node : d \in {d \in Lines \ {c} : Of[d] = Of[c]}} \ {None}

\* The part of select_candidates that differs when nothing else is left.
OffCooldown(c, n, recovery) ==
    \/ cooldown[c][n] = 0
    \/ recovery /\ cooldown[c][n] <= Backoff - Recent

Selectable(c, recovery) ==
    {n \in Accepted(c) :
        /\ n # daemon.pref[c] => blocked[c][n] = 0 /\ OffCooldown(c, n, recovery)
        /\ c \in TestedOnly => probe[n] = "available"}

StatusRank(n) == IF probe[n] = "available" THEN 0 ELSE 3

\* What the candidates are sorted by, as one number: the preferred node, the type,
\* the status, the nodes that other lines do not use.
SortKey(c, n) ==
    (IF n = daemon.pref[c] THEN 0 ELSE 100) + 10 * Rank(n, Mode[c]) + 2 * StatusRank(n)
    + (IF n \in Occupied(c) THEN 1 ELSE 0)

Orders(c, S) ==
    {s \in SetToSeqs(S) :
        \A i, j \in DOMAIN s : i < j => SortKey(c, s[i]) <= SortKey(c, s[j])}

Shorter(m, n) == IF m < n THEN m ELSE n

Chosen(c) ==
    IF Selectable(c, FALSE) # {} THEN Selectable(c, FALSE) ELSE Selectable(c, TRUE)

\* The line is taken down and its candidates are chosen.
Reconnect(c) ==
    /\ \E s \in Orders(c, Chosen(c)) :
          daemon' = [daemon EXCEPT
              !.at = IF s = <<>> THEN "pass" ELSE "try",
              !.todo = @ \ {c}, !.again = @ \ {c}, !.pref[c] = None,
              !.cur = IF s = <<>> THEN None ELSE c,
              !.order = SubSeq(s, 1, Shorter(MaxCandidates, Len(s)))]
    /\ line' = [line EXCEPT ![c].node = None,
                            ![c].status = IF Chosen(c) = {} THEN "failed" ELSE "connecting"]

\* Mutant of SetAside: only the history is written.
SetAsideHalf(c, n) ==
    /\ cooldown' = [cooldown EXCEPT ![c][n] = Backoff]
    /\ UNCHANGED blocked

\* record_node_failure and mark_deep_failure
SetAside(c, n) ==
    /\ cooldown' = [cooldown EXCEPT ![c][n] = Backoff]
    /\ blocked' = [blocked EXCEPT ![c][n] = Backoff]

\* record_node_success
Credit(c, n) == cooldown' = [cooldown EXCEPT ![c][n] = 0]

\* The line is down, or it is to start again.
Start(c) ==
    /\ Handles(c) /\ (~Connected(c) \/ c \in daemon.again)
    /\ Reconnect(c)
    /\ UNCHANGED <<cooldown, blocked, list, rec, window, left>>

\* The exit has failed and the line is to be connected anew; a node that is up may
\* fail, within the bound.
Fail(c) ==
    /\ Handles(c) /\ Connected(c) /\ c \notin daemon.again
    /\ IF line[c].node \in Up THEN Occurs("loss") ELSE UNCHANGED left
    /\ SetAside(c, line[c].node)
    /\ line' = [line EXCEPT ![c].node = None, ![c].status = "connecting"]
    /\ UNCHANGED <<list, daemon, rec, window>>

Trying == daemon.at = "try"
First  == Head(daemon.order)

\* The first candidate gives an exit.
Succeed ==
    /\ Trying /\ First \in Up
    /\ line' = [line EXCEPT ![daemon.cur].status = "connected", ![daemon.cur].node = First]
    /\ Credit(daemon.cur, First)
    /\ Absolve(daemon.cur, First)
    /\ daemon' = [daemon EXCEPT !.at = "pass", !.cur = None, !.order = <<>>]
    /\ UNCHANGED <<list, rec, window, left>>

\* It does not; after the last of them the line has failed.
TryNext ==
    LET next == Tail(daemon.order) IN
    /\ Trying
    /\ IF First \in Up THEN Occurs("failure") ELSE UNCHANGED left
    /\ SetAside(daemon.cur, First)
    /\ IF next = <<>>
       THEN /\ line' = [line EXCEPT ![daemon.cur].status = "failed"]
            /\ daemon' = [daemon EXCEPT !.at = "pass", !.cur = None, !.order = <<>>]
       ELSE /\ daemon' = [daemon EXCEPT !.order = next]
            /\ UNCHANGED line
    /\ UNCHANGED <<list, rec, window>>

DaemonStep ==
    \/ BeginPass \/ EndPass \/ Succeed \/ TryNext
    \/ \E c \in Lines : Keep(c) \/ Start(c) \/ Fail(c)

----------------------------------------------------------------------------
(* Tests of nodes and updates of the list.                                  *)

\* Nodes that a line uses are not tested; one that is up may fail, within the bound.
Test(ids) ==
    LET todo == ids \ {line[c].node : c \in Lines} IN
    \E answers \in SUBSET (todo \cap Up) :
        /\ IF answers = todo \cap Up THEN UNCHANGED left ELSE Occurs("failure")
        /\ probe' = [n \in Nodes |-> IF n \in answers THEN "available"
                                     ELSE IF n \in todo THEN "unavailable" ELSE probe[n]]

\* What the sources offer is added; the sources may fail, and what they no longer
\* offer may be dropped.
Updated ==
    /\ \/ /\ Occurs("failure") /\ UNCHANGED listed
       \/ /\ UNCHANGED left
          /\ \E kept \in SUBSET (listed \ Offered) : listed' = Offered \cup kept
    /\ probe' = [n \in Nodes |-> IF n \in listed' /\ n \notin listed THEN "not_checked"
                                 ELSE probe[n]]

\* refresh_node_catalog_only, by the collector or the standby loop
RoutineUpdate ==
    /\ ~paused
    /\ Updated
    /\ UNCHANGED <<exit, paused, daemon, rec, window>>

\* standby_maintenance_loop, while no line is being connected
StandbyTest(c, ids) ==
    /\ \A d \in Lines : line[d].status # "connecting"
    /\ ids # {} /\ ids \subseteq Accepted(c) \ {line[c].node}
    /\ Test(ids)
    /\ UNCHANGED <<exit, listed, paused, daemon, rec, window>>

----------------------------------------------------------------------------
(* The recovery loop.                                                       *)

Asleep == [at |-> "sleep", todo |-> {}, cur |-> None, again |-> FALSE]

\* Which lines are down is read once for the whole pass; a line that is up again
\* begins anew when it fails the next time.
Watch ==
    /\ rec.at = "sleep"
    /\ rec' = [Asleep EXCEPT !.at = "pick", !.todo = {c \in Lines : line[c].status = "failed"}]
    /\ watch' = [c \in Lines |-> IF Connected(c) THEN "no" ELSE watch[c]]
    /\ UNCHANGED <<exit, list, daemon, refreshed, left>>

Rest ==
    /\ rec.at = "pick" /\ rec.todo = {}
    /\ rec' = Asleep
    /\ watch' = [c \in Lines |-> IF watch[c] = "tested" THEN "waiting" ELSE watch[c]]
    /\ UNCHANGED <<exit, list, daemon, refreshed, left>>

Picks(c) == rec.at = "pick" /\ IsNext(c, rec.todo)

\* Also when something else holds the lock.
PassOver(c) ==
    /\ Picks(c)
    /\ rec' = [rec EXCEPT !.todo = @ \ {c}]
    /\ watch' = [watch EXCEPT ![c] = IF @ = "no" THEN "waiting" ELSE @]
    /\ UNCHANGED <<exit, list, daemon, refreshed, left>>

\* Mutant of Pick: the window begins when the test has succeeded.
PickUnmarked(c) ==
    /\ Picks(c) /\ watch[c] = "due"
    /\ rec' = [rec EXCEPT !.at = "test", !.todo = @ \ {c}, !.cur = c]
    /\ UNCHANGED <<exit, list, daemon, window, left>>

Pick(c) ==
    /\ Picks(c) /\ watch[c] = "due"
    /\ rec' = [rec EXCEPT !.at = "test", !.todo = @ \ {c}, !.cur = c]
    /\ watch' = [watch EXCEPT ![c] = "tested"]
    /\ UNCHANGED <<exit, list, daemon, refreshed, left>>

\* run_channel_availability: all nodes of the country
TestCountry ==
    /\ rec.at = "test" /\ InCountry(rec.cur) # {}
    /\ Test(InCountry(rec.cur))
    /\ rec' = [rec EXCEPT !.at = "judge"]
    /\ UNCHANGED <<exit, listed, paused, daemon, window>>

\* Another test has come first, or there is not enough memory.
NotTested ==
    /\ rec.at = "test" /\ InCountry(rec.cur) # {}
    /\ rec' = [rec EXCEPT !.at = "judge"]
    /\ UNCHANGED <<exit, list, daemon, window, left>>

\* A country without nodes: an exception, which ends the whole pass.
NothingToTest ==
    /\ rec.at = "test" /\ InCountry(rec.cur) = {}
    /\ rec' = Asleep
    /\ UNCHANGED <<exit, list, daemon, window, left>>

\* policy_available_channel_nodes
Available(c) == {n \in Accepted(c) : probe[n] = "available" /\ blocked[c][n] = 0}

\* wake_channel_after_recovery
Wake(c) ==
    line' = [line EXCEPT ![c].again = TRUE,
                         ![c].pref = IF @ \in Available(c) THEN @ ELSE None]

NextLine == [rec EXCEPT !.at = "pick", !.cur = None, !.again = FALSE]

Found ==
    /\ rec.at = "judge" /\ Available(rec.cur) # {}
    /\ Wake(rec.cur)
    /\ rec' = NextLine
    /\ UNCHANGED <<cooldown, blocked, list, daemon, window, left>>

NotFound ==
    /\ rec.at = "judge" /\ Available(rec.cur) = {}
    /\ IF rec.again \/ rec.cur \in refreshed
       THEN rec' = NextLine /\ UNCHANGED refreshed
       ELSE rec' = [rec EXCEPT !.at = "update"] /\ refreshed' = refreshed \cup {rec.cur}
    /\ UNCHANGED <<exit, list, daemon, watch, left>>

\* Mutant of EmergencyUpdate: the pause holds for it too.
EmergencyPaused ==
    /\ rec.at = "update"
    /\ IF ~paused THEN Updated ELSE UNCHANGED <<listed, probe, left>>
    /\ rec' = [rec EXCEPT !.at = "test", !.again = TRUE]
    /\ UNCHANGED <<exit, paused, daemon, window>>

\* refresh_node_catalog_only(force=True): the pause ends first.
EmergencyUpdate ==
    /\ rec.at = "update"
    /\ paused' = FALSE
    /\ Updated
    /\ rec' = [rec EXCEPT !.at = "test", !.again = TRUE]
    /\ UNCHANGED <<exit, daemon, window>>

\* Something else holds the lock, and then the pause has ended all the same; or there
\* is not enough memory.
NotUpdated ==
    /\ rec.at = "update"
    /\ paused' \in {paused, FALSE}
    /\ rec' = [rec EXCEPT !.at = "test", !.again = TRUE]
    /\ UNCHANGED <<exit, listed, probe, daemon, window, left>>

RecoveryStep ==
    \/ Watch \/ Rest \/ TestCountry \/ NotTested \/ NothingToTest
    \/ Found \/ NotFound \/ EmergencyUpdate \/ NotUpdated
    \/ \E c \in Lines : PassOver(c) \/ Pick(c)

----------------------------------------------------------------------------
(* Time and the administrator.                                              *)

\* The grace or the window is over.
TestDue(c) ==
    /\ watch[c] = "waiting" /\ watch' = [watch EXCEPT ![c] = "due"]
    /\ UNCHANGED <<exit, list, daemon, rec, refreshed, left>>

UpdateDue(c) ==
    /\ c \in refreshed /\ refreshed' = refreshed \ {c}
    /\ UNCHANGED <<exit, list, daemon, rec, watch, left>>

\* The administrator switches the line to a node that is available and accepted.
Pin(c, n) ==
    /\ n \in Available(c)
    /\ Occurs("pin")
    /\ line' = [line EXCEPT ![c].pref = n, ![c].again = TRUE]
    /\ UNCHANGED <<cooldown, blocked, list, daemon, rec, window>>

\* pause_metadata_refresh
Pause ==
    /\ ~paused /\ Occurs("pause")
    /\ paused' = TRUE
    /\ UNCHANGED <<exit, listed, probe, daemon, rec, window>>

Around ==
    \/ \E c \in Lines : \/ TestDue(c) \/ UpdateDue(c)
                        \/ \E n \in Nodes : Pin(c, n)
                        \/ \E ids \in SUBSET Nodes : StandbyTest(c, ids)
    \/ RoutineUpdate \/ Pause

----------------------------------------------------------------------------

\* The daemon has started and every line is down.
Init ==
    /\ line = [c \in Lines |-> [status |-> "failed", node |-> None, pref |-> None,
                                again |-> FALSE]]
    /\ cooldown = [c \in Lines |-> [n \in Nodes |-> 0]]
    /\ blocked = [c \in Lines |-> [n \in Nodes |-> 0]]
    /\ listed \in Lists /\ paused \in Pauses
    /\ probe = [n \in Nodes |-> "not_checked"]
    /\ daemon = Idle /\ rec = Asleep
    /\ watch = [c \in Lines |-> "no"] /\ refreshed = {}
    /\ left = MaxEvents

Next == DaemonStep \/ RecoveryStep \/ Around

Fairness ==
    /\ WF_vars(DaemonStep) /\ WF_vars(RecoveryStep)
    /\ WF_vars(RoutineUpdate) /\ SF_vars(TestCountry) /\ SF_vars(EmergencyUpdate)
    /\ \A c \in Lines : /\ WF_vars(TestDue(c)) /\ WF_vars(UpdateDue(c))
                        /\ SF_vars(Pick(c))

Spec == Init /\ [][Next]_vars /\ Fairness

----------------------------------------------------------------------------
(* Properties.                                                              *)

Status == {"failed", "connecting", "connected"}

TypeOK ==
    /\ \A c \in Lines : /\ line[c].status \in Status
                        /\ line[c].node \in Nodes \cup {None}
                        /\ line[c].pref \in Nodes \cup {None}
                        /\ line[c].again \in BOOLEAN
                        /\ Connected(c) <=> line[c].node # None
                        /\ line[c].status = "connecting" =>
                               c \in daemon.todo \cup {daemon.cur}
    /\ cooldown \in [Lines -> [Nodes -> 0..Backoff]]
    /\ blocked \in [Lines -> [Nodes -> 0..Backoff]]

\* What the recovery loop wakes the daemon for, the daemon does try: a node that the
\* dashboard counts as available for a line is a candidate of the line.
AvailableIsTried == \A c \in Lines : Available(c) \subseteq Selectable(c, TRUE)

\* A line that has failed comes back if a node its policy accepts works and is
\* offered, whatever other nodes do and although the list is paused.
HasExit(c) == \E n \in Up \cap Offered : Of[n] = Of[c] /\ ~Rejects(c, n)

Recovers == \A c \in {c \in Lines : HasExit(c)} : ~Connected(c) ~> Connected(c)

\* "Do not leave an offline country waiting hours for historical backoff.  Live
\* retries remain rate-limited by last_failure_at": when a pass tries nothing for a
\* line, each node that it may take has failed a short while ago.
NoHistoricalBackoff ==
    [][\A c \in Lines :
          Handles(c) /\ c \notin daemon'.todo /\ line'[c].status = "failed" =>
              \A n \in Accepted(c) :
                  (c \in TestedOnly => probe[n] = "available")
                  => cooldown[c][n] > Backoff - Recent]_vars
=============================================================================
