----------------------------- MODULE SingleExit ----------------------------
(***************************************************************************)
(* The dashboard's own tunnel (vpngate_manager.py): connecting a node,      *)
(* switching to another, disconnecting, changing the rules, testing nodes   *)
(* and the full maintenance.  Requests, switches and the maintenance run in *)
(* threads of their own.  They share is_connecting, which says that one of  *)
(* them is at work, maintenance_lock, the settings in ui_auth.json, the     *)
(* active flags in nodes.json, and the recorded OpenVPN process.            *)
(*                                                                          *)
(* A section under `lock` is one step, and so is reading and writing back   *)
(* ui_auth.json.  Which nodes are available is left open, as tests change   *)
(* it all the time; so is whether a tunnel comes up and what its exit is.   *)
(* A list stands for the rules that accept some nodes only (a country, the  *)
(* favourites, an address type); a node's exit is as its entry, or refused. *)
(* The threads that main() does not start are left out.                     *)
(***************************************************************************)
EXTENDS Naturals, FiniteSets

CONSTANTS
    Threads, Nodes,
    Procs,    \* identities of OpenVPN processes for tun0
    None,
    Attempts, \* three: consecutive switches that may fail
    Ops,      \* the requests that occur
    Requests  \* bound: requests and deaths of processes in all

ASSUME SingleExitAssumption ==
    /\ Attempts \in Nat /\ Requests \in Nat
    /\ None \notin Nodes /\ None \notin Procs /\ None \notin Threads /\ None \notin Nat

VARIABLES
    procs,    \* the node each running process is connected to
    recorded, \* active_openvpn_process
    activeId, \* active_openvpn_node_id
    active,   \* the nodes with an active flag
    mark,     \* is_connecting
    mlock,    \* the thread that holds maintenance_lock
    cfg,      \* ui_auth.json
    job,      \* the threads and their local variables
    spawned,  \* threads that were started and have not run yet
    left,     \* requests still to come
    full,     \* has a full maintenance begun? (history)
    crossed   \* did a tunnel's setting up and a change overlap? (history)

tun  == <<procs, recorded, activeId>>
hist == <<full, crossed>>
vars == <<tun, active, mark, mlock, cfg, job, spawned, left, hist>>

Modes == {"auto", "list", "fixed"}
Tries == {None} \cup 0..Attempts

\* In connect_node, after is_connecting was set and before it is cleared.
Guarded == {"read", "stop", "start", "ready", "record", "publish", "check", "drop", "unflag", "release"}
\* In a request that changes the settings, or a switch that finds no candidate.
Stopping == {"cut", "cutflags", "enforce", "bar", "barflags", "empty", "emptied"}
Points  == Guarded \cup Stopping \cup
    {"idle", "claim", "choose", "demote", "testing",
     "enter", "begin", "fixed", "unmark", "remark", "fetch", "fast", "back", "test",
     "report", "finally"} \* of the maintenance

Job  == [at : Points, node : Nodes \cup {None}, proc : Procs \cup {None}, ok : BOOLEAN,
         force : BOOLEAN,
         try : Tries,  \* the attempt of the auto_switch_node it is in
         phase : {"none", "fixed", "begin", "fast"}, \* where the maintenance called it
         saved : BOOLEAN, \* previous_connecting
         after : Tries]  \* the switch that follows the maintenance
Idle == [at |-> "idle", node |-> None, proc |-> None, ok |-> FALSE, force |-> FALSE, try |-> None, phase |-> "none", saved |-> FALSE, after |-> None]

TypeOK ==
    /\ procs \in [Procs -> Nodes \cup {None}]
    /\ recorded \in Procs \cup {None}
    /\ activeId \in Nodes \cup {None}
    /\ active \subseteq Nodes
    /\ mark \in BOOLEAN
    /\ mlock \in Threads \cup {None}
    /\ cfg \in [enabled : BOOLEAN, mode : Modes, list : SUBSET Nodes, fixed : Nodes \cup {None}]
    /\ job \in [Threads -> Job]
    /\ spawned \subseteq [op : {"switch", "refetch"}, try : 0..Attempts]
    /\ left \in 0..Requests
    /\ full \in BOOLEAN /\ crossed \in BOOLEAN

At(t, p)     == job[t].at = p
Goes(t, new) == job' = [job EXCEPT ![t] = new]
To(t, p)     == [job[t] EXCEPT !.at = p]

Connecting == \E t \in Threads : job[t].at \in Guarded
Changing   == \E t \in Threads : job[t].at \in Stopping
Running    == recorded # None /\ procs[recorded] # None

\* validate_node_allowed_by_routing
Allowed(n, c) == c.mode = "list" => n \in c.list

\* apply_routing_filters, which repeats the rules for the candidates of a switch.
Filtered(c) == IF c.mode = "list" THEN c.list ELSE Nodes

Crosses    == crossed' = (crossed \/ Connecting)

\* kill_existing_openvpn_processes: every process of this program, whoever holds it.
KillExisting == procs' = [p \in Procs |-> None]

\* stop_active_openvpn
StopActive ==
    /\ KillExisting
    /\ recorded' = None
    /\ activeId' = None

\* Another thread is started for auto_switch_node, or for a new list and a switch.
Spawn(op, try) == spawned' = spawned \cup {[op |-> op, try |-> try]}

----------------------------------------------------------------------------
(* What a thread does when a call has ended.                                *)

\* maintain_valid_nodes has returned.
Maintained(t) ==
    IF job[t].after = None THEN Idle ELSE [Idle EXCEPT !.at = "choose", !.try = job[t].after]

\* auto_switch_node has returned.
Switched(t) ==
    IF job[t].phase = "none" THEN Idle
    ELSE [To(t, IF job[t].phase = "begin" THEN "remark" ELSE "back") EXCEPT !.try = None]

\* connect_node has returned, or raised.
Connected(t, ok) ==
    IF job[t].try # None THEN IF ok THEN Switched(t) ELSE To(t, "demote")
    ELSE IF job[t].phase = "fixed" THEN To(t, "remark") ELSE Idle

----------------------------------------------------------------------------
(* connect_node.                                                            *)

\* Mutant of Claim: the mark is not looked at.
ClaimBlind(t) ==
    /\ At(t, "claim")
    /\ mark' = TRUE
    /\ crossed' = (crossed \/ Changing)
    /\ Goes(t, [To(t, "read") EXCEPT !.ok = FALSE, !.proc = None])
    /\ UNCHANGED <<tun, active, mlock, cfg, spawned, left, full>>

Claim(t) ==
    /\ At(t, "claim")
    /\ mark' = TRUE
    /\ crossed' = (crossed \/ Changing)
    /\ Goes(t, IF mark THEN Connected(t, FALSE)
               ELSE [To(t, "read") EXCEPT !.ok = FALSE, !.proc = None])
    /\ UNCHANGED <<tun, active, mlock, cfg, spawned, left, full>>

\* An exception before anything was stopped: a tunnel that no longer runs is cleared.
Raise(t) ==
    IF activeId = job[t].node /\ ~Running THEN To(t, "drop") ELSE To(t, "release")

\* The node must be one that the rules accept; connecting turns the exit on.
Read(t) ==
    LET n == job[t].node IN
    /\ At(t, "read")
    /\ IF Allowed(n, cfg)
       THEN /\ cfg' = [cfg EXCEPT !.enabled = TRUE, !.fixed = IF cfg.mode = "fixed" THEN n ELSE @]
            /\ Goes(t, To(t, "stop"))
       ELSE /\ Goes(t, Raise(t))
            /\ UNCHANGED cfg
    /\ UNCHANGED <<tun, active, mark, mlock, spawned, left, hist>>

\* Mutant of Stop: the tunnel that runs is left alone.
StopNothing(t) ==
    /\ At(t, "stop")
    /\ Goes(t, To(t, "start"))
    /\ UNCHANGED <<tun, active, mark, mlock, cfg, spawned, left, hist>>

Stop(t) ==
    /\ At(t, "stop")
    /\ StopActive
    /\ Goes(t, To(t, "start"))
    /\ UNCHANGED <<active, mark, mlock, cfg, spawned, left, hist>>

\* A process that nobody refers to.
Fresh == {p \in Procs : procs[p] = None /\ recorded # p /\ \A t \in Threads : job[t].proc # p}

\* run_openvpn_until_ready starts the process, which comes up or is stopped;
\* or there is no configuration to start it with.
Start(t) ==
    /\ At(t, "start")
    /\ \/ \E p \in Fresh :
             /\ procs' = [procs EXCEPT ![p] = job[t].node]
             /\ Goes(t, [To(t, "ready") EXCEPT !.proc = p])
       \/ Goes(t, To(t, "drop")) /\ UNCHANGED procs
    /\ UNCHANGED <<recorded, activeId, active, mark, mlock, cfg, spawned, left, hist>>

Ready(t) ==
    /\ At(t, "ready") /\ procs[job[t].proc] # None
    /\ Goes(t, To(t, "record"))
    /\ UNCHANGED <<tun, active, mark, mlock, cfg, spawned, left, hist>>

NotReady(t) ==
    /\ At(t, "ready")
    /\ procs' = [procs EXCEPT ![job[t].proc] = None]
    /\ activeId' = None
    /\ active' = {}
    /\ Goes(t, [To(t, "drop") EXCEPT !.proc = None])
    /\ UNCHANGED <<recorded, mark, mlock, cfg, spawned, left, hist>>

Record(t) ==
    /\ At(t, "record")
    /\ recorded' = job[t].proc
    /\ activeId' = job[t].node
    /\ Goes(t, To(t, "publish"))
    /\ UNCHANGED <<procs, active, mark, mlock, cfg, spawned, left, hist>>

\* The active flag moves to the node.
Publish(t) ==
    /\ At(t, "publish")
    /\ active' = {job[t].node}
    /\ Goes(t, [To(t, "check") EXCEPT !.proc = None])
    /\ UNCHANGED <<tun, mark, mlock, cfg, spawned, left, hist>>

\* The exit is known and accepted, or it is unknown and no rule needs it.
Passes(t) ==
    /\ Goes(t, [To(t, "release") EXCEPT !.ok = TRUE])
    /\ active' \in {active, {job[t].node}}

\* validate_exit_allowed_by_routing: the exit is not what the rules ask for.
Rejected(t) ==
    /\ Goes(t, To(t, "drop"))
    /\ active' = {}

\* The rules need an exit that could not be found out.
NoExit(t) ==
    /\ Goes(t, To(t, "drop"))
    /\ UNCHANGED active

\* check_proxy_health and inspect_exit_ip
Check(t) ==
    /\ At(t, "check")
    /\ Passes(t) \/ Rejected(t) \/ NoExit(t)
    /\ UNCHANGED <<tun, mark, mlock, cfg, spawned, left, hist>>

\* clear_active_connection_state, without the lock: the recorded process ends ...
Drop(t) ==
    /\ At(t, "drop")
    /\ procs' = IF recorded = None THEN procs ELSE [procs EXCEPT ![recorded] = None]
    /\ recorded' = None
    /\ activeId' = None
    /\ Goes(t, To(t, "unflag"))
    /\ UNCHANGED <<active, mark, mlock, cfg, spawned, left, hist>>

\* ... and no node is active any more.
Unflag(t) ==
    /\ At(t, "unflag")
    /\ active' = {}
    /\ Goes(t, To(t, "release"))
    /\ UNCHANGED <<tun, mark, mlock, cfg, spawned, left, hist>>

Release(t) ==
    /\ At(t, "release")
    /\ mark' = FALSE
    /\ Goes(t, Connected(t, job[t].ok))
    /\ UNCHANGED <<tun, active, mlock, cfg, spawned, left, hist>>

----------------------------------------------------------------------------
(* auto_switch_node.                                                        *)

\* Mutant of Choose: the failures are not counted.
ChooseOn(t) ==
    /\ At(t, "choose")
    /\ \/ \E m \in Filtered(cfg) \ active : Goes(t, [To(t, "claim") EXCEPT !.node = m])
       \/ Goes(t, Switched(t))
    /\ UNCHANGED <<tun, active, mark, mlock, cfg, spawned, left, hist>>

Choose(t) ==
    LET n == job[t].try IN
    /\ At(t, "choose")
    /\ \/ /\ n >= Attempts \/ ~cfg.enabled \/ cfg.mode = "fixed"
          /\ Goes(t, Switched(t)) /\ UNCHANGED crossed
       \/ /\ n < Attempts /\ cfg.enabled /\ cfg.mode # "fixed"
          /\ \/ /\ \E m \in Filtered(cfg) \ active :
                      Goes(t, [To(t, "claim") EXCEPT !.node = m])
                /\ UNCHANGED crossed
             \/ Goes(t, To(t, "empty")) /\ Crosses
    /\ UNCHANGED <<tun, active, mark, mlock, cfg, spawned, left, full>>

\* The node it could not connect is unavailable; the next attempt follows.
Demote(t) ==
    /\ At(t, "demote")
    /\ active' = active \ {job[t].node}
    /\ Goes(t, [To(t, "choose") EXCEPT !.try = @ + 1])
    /\ UNCHANGED <<tun, mark, mlock, cfg, spawned, left, hist>>

\* No candidate: disconnected, and a new list is fetched in the background.
Empty(t) ==
    /\ At(t, "empty")
    /\ StopActive
    /\ Goes(t, To(t, "emptied"))
    /\ UNCHANGED <<active, mark, mlock, cfg, spawned, left, hist>>

Emptied(t) ==
    /\ At(t, "emptied")
    /\ active' = {}
    /\ Spawn("refetch", job[t].try + 1)
    /\ Goes(t, Switched(t))
    /\ UNCHANGED <<tun, mark, mlock, cfg, left, hist>>

----------------------------------------------------------------------------
(* maintain_valid_nodes.                                                    *)

\* It begins; or the lock or the mark is taken, or the resource guard, which may
\* always refuse work in the background, does not let it begin.
Enter(t) ==
    /\ At(t, "enter")
    /\ \/ /\ mlock = None /\ ~mark
          /\ mlock' = t /\ mark' = TRUE /\ full' = TRUE
          /\ Goes(t, To(t, "begin"))
       \/ /\ Goes(t, Maintained(t))
          /\ UNCHANGED <<mlock, mark, full>>
    /\ UNCHANGED <<tun, active, cfg, spawned, left, crossed>>

Begin(t) ==
    LET force == job[t].force
        down  == ~Running /\ cfg.enabled
    IN
    /\ At(t, "begin")
    /\ \/ /\ force
          /\ StopActive /\ Goes(t, To(t, "fixed"))
       \/ /\ ~force /\ down /\ cfg.mode # "fixed" /\ activeId # None
          /\ StopActive /\ Goes(t, To(t, "unmark"))
       \/ /\ ~force /\ down /\ cfg.mode = "fixed"
          /\ UNCHANGED tun /\ Goes(t, To(t, "fixed"))
       \/ /\ ~force /\ ~(down /\ (cfg.mode = "fixed" \/ activeId # None))
          /\ UNCHANGED tun /\ Goes(t, To(t, "fetch"))
    /\ UNCHANGED <<active, mark, mlock, cfg, spawned, left, hist>>

\* current_fixed_node_id
FixedNode ==
    IF activeId # None THEN {activeId}
    ELSE IF active # {} THEN active
    ELSE {cfg.fixed} \ {None}

\* reconnect_fixed_node_if_needed: the mark is saved, and off for the connection.
Fixed(t) ==
    /\ At(t, "fixed")
    /\ IF cfg.mode = "fixed" /\ ~Running /\ FixedNode # {}
       THEN \E n \in FixedNode :
               /\ mark' = FALSE
               /\ Goes(t, [To(t, "claim") EXCEPT !.node = n, !.phase = "fixed", !.saved = mark])
       ELSE Goes(t, To(t, "fetch")) /\ UNCHANGED mark
    /\ UNCHANGED <<tun, active, mlock, cfg, spawned, left, hist>>

Unmark(t) ==
    /\ At(t, "unmark")
    /\ mark' = FALSE
    /\ Goes(t, [To(t, "choose") EXCEPT !.try = 0, !.phase = "begin"])
    /\ UNCHANGED <<tun, active, mlock, cfg, spawned, left, hist>>

\* The mark is what was saved before the fixed node was connected, or set again
\* after a switch.
Remark(t) ==
    /\ At(t, "remark")
    /\ mark' = IF job[t].phase = "fixed" THEN job[t].saved ELSE TRUE
    /\ Goes(t, [To(t, "fetch") EXCEPT !.phase = "none", !.saved = FALSE])
    /\ UNCHANGED <<tun, active, mlock, cfg, spawned, left, hist>>

\* The list is fetched, or there is nothing new.
Fetch(t) ==
    /\ At(t, "fetch")
    /\ Goes(t, To(t, "fast")) \/ Goes(t, To(t, "finally"))
    /\ UNCHANGED <<tun, active, mark, mlock, cfg, spawned, left, hist>>

\* Without a tunnel a few nodes are tested first; one that answers is connected.
Fast(t) ==
    /\ At(t, "fast")
    /\ \/ Goes(t, To(t, "test")) /\ UNCHANGED mark
       \/ /\ cfg.enabled /\ cfg.mode # "fixed" /\ ~Running
          /\ mark' = FALSE
          /\ Goes(t, [To(t, "choose") EXCEPT !.try = 0, !.phase = "fast"])
    /\ UNCHANGED <<tun, active, mlock, cfg, spawned, left, hist>>

Back(t) ==
    /\ At(t, "back")
    /\ mark' = IF Running THEN mark ELSE TRUE
    /\ Goes(t, [To(t, IF Running THEN "finally" ELSE "test") EXCEPT !.phase = "none"])
    /\ UNCHANGED <<tun, active, mlock, cfg, spawned, left, hist>>

\* All others are tested; then the mark comes off before the lock does.
Test(t) ==
    /\ At(t, "test")
    /\ mark' = FALSE
    /\ Goes(t, To(t, "report"))
    /\ UNCHANGED <<tun, active, mlock, cfg, spawned, left, hist>>

\* May a test start a switch of its own?
WantsSwitch == cfg.enabled /\ cfg.mode # "fixed" /\ ~Running

Report(t) ==
    /\ At(t, "report")
    /\ \/ WantsSwitch /\ Spawn("switch", 0)
       \/ UNCHANGED spawned
    /\ Goes(t, To(t, "finally"))
    /\ UNCHANGED <<tun, active, mark, mlock, cfg, left, hist>>

\* Mutant of Finally: the mark stays.
FinallyMarked(t) ==
    /\ At(t, "finally")
    /\ mlock' = None
    /\ Goes(t, Maintained(t))
    /\ UNCHANGED <<tun, active, mark, cfg, spawned, left, hist>>

Finally(t) ==
    /\ At(t, "finally")
    /\ mark' = FALSE
    /\ mlock' = None
    /\ Goes(t, Maintained(t))
    /\ UNCHANGED <<tun, active, cfg, spawned, left, hist>>

----------------------------------------------------------------------------
(* Requests.                                                                *)

Occurs(op) == op \in Ops /\ left > 0 /\ left' = left - 1

\* /api/connect
AskConnect(t) ==
    /\ At(t, "idle") /\ Occurs("connect")
    /\ \E n \in Nodes : Goes(t, [Idle EXCEPT !.at = "claim", !.node = n])
    /\ UNCHANGED <<tun, active, mark, mlock, cfg, spawned, hist>>

\* /api/disconnect: turned off, stopped, and the flags taken off.
AskDisconnect(t) ==
    /\ At(t, "idle") /\ Occurs("disconnect")
    /\ cfg' = [cfg EXCEPT !.enabled = FALSE]
    /\ Crosses
    /\ Goes(t, To(t, "cut"))
    /\ UNCHANGED <<tun, active, mark, mlock, spawned, full>>

Cut(t) ==
    /\ At(t, "cut")
    /\ StopActive
    /\ Goes(t, To(t, "cutflags"))
    /\ UNCHANGED <<active, mark, mlock, cfg, spawned, left, hist>>

CutFlags(t) ==
    /\ At(t, "cutflags")
    /\ active' = {}
    /\ Goes(t, Idle)
    /\ UNCHANGED <<tun, mark, mlock, cfg, spawned, left, hist>>

\* /api/update_routing: the page turns the exit on with it, or leaves it.
AskRoute(t) ==
    /\ At(t, "idle") /\ Occurs("route")
    /\ \E on \in {TRUE, cfg.enabled} :
          \/ cfg' = [cfg EXCEPT !.mode = "auto", !.enabled = on]
          \/ \E l \in SUBSET Nodes : cfg' = [cfg EXCEPT !.mode = "list", !.list = l, !.enabled = on]
          \/ \E n \in FixedNode : cfg' = [cfg EXCEPT !.mode = "fixed", !.fixed = n, !.enabled = on]
    /\ Crosses
    /\ Goes(t, To(t, "enforce"))
    /\ UNCHANGED <<tun, active, mark, mlock, spawned, full>>

\* /api/toggle_favorite: it matters at once if only favourites are accepted.
AskFavorite(t) ==
    /\ At(t, "idle") /\ Occurs("favorite")
    /\ \E n \in Nodes :
          cfg' = [cfg EXCEPT !.list = IF n \in cfg.list THEN @ \ {n} ELSE @ \cup {n}]
    /\ Crosses
    /\ Goes(t, IF cfg.mode = "list" THEN To(t, "enforce") ELSE Idle)
    /\ UNCHANGED <<tun, active, mark, mlock, spawned, full>>

\* Mutant of Enforce: the node in use is not compared with the rules.
EnforceNothing(t) ==
    /\ At(t, "enforce")
    /\ Goes(t, Idle)
    /\ UNCHANGED <<tun, active, mark, mlock, cfg, spawned, left, hist>>

\* enforce_active_node_allowed_by_routing
Enforce(t) ==
    /\ At(t, "enforce")
    /\ Goes(t, IF activeId # None /\ ~Allowed(activeId, cfg) THEN To(t, "bar") ELSE Idle)
    /\ UNCHANGED <<tun, active, mark, mlock, cfg, spawned, left, hist>>

Bar(t) ==
    /\ At(t, "bar")
    /\ StopActive
    /\ Goes(t, To(t, "barflags"))
    /\ UNCHANGED <<active, mark, mlock, cfg, spawned, left, hist>>

BarFlags(t) ==
    /\ At(t, "barflags")
    /\ active' = {}
    /\ IF cfg.enabled /\ cfg.mode # "fixed" THEN Spawn("switch", 0) ELSE UNCHANGED spawned
    /\ Goes(t, Idle)
    /\ UNCHANGED <<tun, mark, mlock, cfg, left, hist>>

\* /api/check
AskCheck(t) ==
    /\ At(t, "idle") /\ Occurs("check")
    /\ Goes(t, [Idle EXCEPT !.at = "enter", !.force = TRUE])
    /\ UNCHANGED <<tun, active, mark, mlock, cfg, spawned, hist>>

\* test_node_availability_only, refresh_node_catalog_only, /api/test_node and
\* /api/test_nodes: without the lock and the mark they do nothing.
AskTest(t) ==
    /\ At(t, "idle") /\ Occurs("test")
    /\ mlock = None /\ ~mark
    /\ mlock' = t /\ mark' = TRUE
    /\ Goes(t, To(t, "testing"))
    /\ UNCHANGED <<tun, active, cfg, spawned, hist>>

\* A test of the page connects what it has found if there is no tunnel.
Tested(t) ==
    /\ At(t, "testing")
    /\ mark' = FALSE
    /\ mlock' = None
    /\ \/ WantsSwitch /\ Spawn("switch", 0)
       \/ UNCHANGED spawned
    /\ Goes(t, Idle)
    /\ UNCHANGED <<tun, active, cfg, left, hist>>

\* A thread that was started runs.
Runs(t) ==
    /\ At(t, "idle")
    /\ \E s \in spawned :
       /\ spawned' = spawned \ {s}
       /\ Goes(t, IF s.op = "switch" THEN [Idle EXCEPT !.at = "choose", !.try = s.try]
                  ELSE [Idle EXCEPT !.at = "enter", !.after = s.try])
    /\ UNCHANGED <<tun, active, mark, mlock, cfg, left, hist>>

\* OpenVPN ends by itself.
Dies ==
    /\ Occurs("death")
    /\ \E p \in Procs : procs[p] # None /\ procs' = [procs EXCEPT ![p] = None]
    /\ UNCHANGED <<recorded, activeId, active, mark, mlock, cfg, job, spawned, hist>>

Init ==
    /\ procs = [p \in Procs |-> None]
    /\ recorded = None /\ activeId = None /\ active = {}
    /\ mark = FALSE /\ mlock = None
    /\ cfg = [enabled |-> TRUE, mode |-> "auto", list |-> {}, fixed |-> None]
    /\ job = [t \in Threads |-> Idle]
    /\ spawned = {}
    /\ left = Requests
    /\ full = FALSE /\ crossed = FALSE

Step(t) ==
    \/ Claim(t) \/ Read(t) \/ Stop(t) \/ Start(t) \/ Ready(t) \/ NotReady(t) \/ Record(t)
    \/ Publish(t) \/ Check(t) \/ Drop(t) \/ Unflag(t) \/ Release(t)
    \/ Choose(t) \/ Demote(t) \/ Empty(t) \/ Emptied(t)
    \/ Enter(t) \/ Begin(t) \/ Fixed(t) \/ Unmark(t) \/ Remark(t) \/ Fetch(t) \/ Fast(t)
    \/ Back(t) \/ Test(t) \/ Report(t) \/ Finally(t)
    \/ Cut(t) \/ CutFlags(t) \/ Enforce(t) \/ Bar(t) \/ BarFlags(t) \/ Tested(t)

Ask(t) ==
    \/ AskConnect(t) \/ AskDisconnect(t) \/ AskRoute(t) \/ AskFavorite(t) \/ AskCheck(t)
    \/ AskTest(t)

Next ==
    \/ \E t \in Threads : Step(t) \/ Ask(t) \/ Runs(t)
    \/ Dies

Spec == Init /\ [][Next]_vars

----------------------------------------------------------------------------
(* Properties.                                                              *)

Quiet == spawned = {} /\ \A t \in Threads : At(t, "idle")

\* Threads that is_connecting is meant to keep apart.
Marked == {t \in Threads : job[t].at \in Guarded \cup {"testing"}}

\* Only one connection or test is under way at a time, and is_connecting says so,
\* as long as no full maintenance has run, which takes the mark off by itself.
OneAtATime ==
    ~full => /\ mark <=> Marked # {}
             /\ \A t, u \in Marked : t = u

\* No tunnel is left behind: a process is the recorded one or in the hands of the
\* thread that has started it, and there are never two.
OneTunnel ==
    ~full => \A p, q \in Procs : procs[p] # None =>
                /\ procs[q] # None => p = q
                /\ p = recorded \/ \E t \in Threads : job[t].proc = p

\* When everything has come to rest, a tunnel runs only if the exit is on and the
\* rules accept its node, and no other node is shown as active.
SettingsHold ==
    Quiet => /\ Running => cfg.enabled /\ Allowed(activeId, cfg)
             /\ active \subseteq {activeId}

\* So it is unless a change of the settings, or a switch that found no candidate,
\* overlapped with the setting up of a tunnel.
SettingsHoldApart == ~full /\ ~crossed => SettingsHold

\* Although the maintenance saves, clears, sets and restores is_connecting while
\* other threads do so too, it never stays set, nor does the lock stay held, when
\* nothing is under way.
MarkFreed == Quiet => ~mark /\ mlock = None

============================================================================
