---------------------------- MODULE ExitDaemon ----------------------------
(***************************************************************************)
(* The multi-country exit daemon (multi_exit_manager.py).  One process      *)
(* serves every country line in passes: it loads channels.json, removes     *)
(* the lines that are gone, probes the tunnels that are up, and then takes  *)
(* the lines one after the other, keeping, holding or reconnecting each.    *)
(* A line owns a network namespace in which one OpenVPN and one proxy       *)
(* process run.  The daemon can be killed between any two steps: systemd    *)
(* then kills the whole control group and starts it again from the state    *)
(* file.                                                                    *)
(*                                                                          *)
(* Which nodes a line may try, and in which order, is left open here: a     *)
(* connection attempt takes any set of candidates.  The statistics kept     *)
(* per node and the back-off after a failure belong to that choice.         *)
(***************************************************************************)
EXTENDS Naturals, FiniteSets

CONSTANTS
    Lines,          \* the ids of the country lines
    Namespaces,     \* network namespace names
    NsOf,           \* the namespace name of a line
    Nodes,          \* catalogue nodes
    IPs,            \* public addresses an exit can show
    LocalIPs,       \* those in the country the lines are locked to
    ResidentialIPs, \* those classified as residential
    HostingIPs,     \* those classified as hosting; the others are unclassified
    ForcedHosting,  \* FORCED_HOSTING_EXIT_IPS
    Pids,           \* process ids
    Free, Host,     \* a pid nobody uses; a pid of an unrelated process
    None,           \* no node, address, pid or signature
    Absent,         \* a line without a runtime record
    Threshold,      \* HEALTH_FAILURE_THRESHOLD
    PidReuse,       \* can a new process get a pid the daemon still records?
    Modes,          \* the ip_type policies in use
    MaxEdits,       \* bound: administrator's changes of channels.json
    MaxCrashes,     \* bound: crashes and reboots
    MaxDeaths       \* bound: tunnel or proxy processes that exit by themselves

ASSUME NsAssumption ==
    /\ NsOf \in [Lines -> Namespaces]
    /\ Free \notin Namespaces /\ Host \notin Namespaces /\ Free # Host
ASSUME IPAssumption ==
    /\ LocalIPs \subseteq IPs
    /\ ResidentialIPs \subseteq IPs /\ HostingIPs \subseteq IPs \ ResidentialIPs
    /\ ForcedHosting \subseteq HostingIPs
ASSUME NoneAssumption ==
    None \notin Nodes /\ None \notin IPs /\ None \notin Pids
ASSUME ThresholdAssumption == Threshold \in Nat \ {0}
ASSUME BoundAssumption ==
    /\ PidReuse \in BOOLEAN
    /\ Modes \subseteq {"all", "residential_only", "hosting_only"}
    /\ MaxEdits \in Nat /\ MaxCrashes \in Nat /\ MaxDeaths \in Nat

VARIABLES
    config,     \* channels.json: per line whether it is wanted and its settings
    cfg,        \* the copy of config the current pass works from
    disk,       \* state.json: the runtime records as last written
    mem,        \* the runtime records in the daemon's memory
    proc,       \* what each pid is: Free, Host, or the namespace it runs in
    netns,      \* the namespaces that exist
    veth,       \* the lines whose veth pair and FORWARD rules exist
    nat,        \* the lines whose MASQUERADE rule exists
    verified,   \* verified_exits.json: per node the exit and type recorded
    pc,         \* where the daemon is
    todo,       \* lines this pass has still to handle
    cur,        \* the line being reconnected
    att,        \* the connection attempt: node, processes, candidates left
    health,     \* probe results of this pass
    bounds      \* counters of the bounded environment actions

vars == <<config, cfg, disk, mem, proc, netns, veth, nat, verified, pc, todo,
          cur, att, health, bounds>>
kernel  == <<netns, veth, nat>>
locals  == <<cfg, todo, cur, att, health>>

Signatures == [mode : Modes, token : Nat]
Settings   == [wanted : BOOLEAN, awaiting : BOOLEAN, sig : Signatures]
Status     == {"testing", "connecting", "connected", "failed"}
IPTypes    == {"residential", "hosting"}
Runtime    == [status : Status, node : Nodes \cup {None},
               exit : IPs \cup {None}, type : IPTypes \cup {None},
               vpn : Pids \cup {None}, proxy : Pids \cup {None},
               sig : Signatures \cup {None}, fails : Nat, addr : BOOLEAN]

\* Mutant of NewRuntime: a new line is forgiven one failure more.
NewRuntimeForgiven == [status |-> "connecting", node |-> None, exit |-> None,
                       type |-> None, vpn |-> None, proxy |-> None, sig |-> None,
                       fails |-> 0 - 1, addr |-> FALSE]

\* The record a line starts from when the daemon has none for it.
NewRuntime == [status |-> "connecting", node |-> None, exit |-> None,
               type |-> None, vpn |-> None, proxy |-> None, sig |-> None,
               fails |-> 0, addr |-> FALSE]
NoAttempt  == [node |-> None, vpn |-> None, proxy |-> None, cands |-> {}]

ASSUME AbsentAssumption == Absent \notin Runtime /\ None \notin Lines

RuntimeOf(c) == IF mem[c] = Absent THEN NewRuntime ELSE mem[c]
TypeOf(ip) ==
    CASE ip \in ResidentialIPs -> "residential"
      [] ip \in HostingIPs     -> "hosting"
      [] OTHER                 -> None

ProcessAlive(p) == p \in Pids /\ proc[p] # Free
NsProcesses(c)  == {p \in Pids : proc[p] = NsOf[c]}

\* Mutants of Stopped: the proxy is left running; the processes of every
\* namespace are stopped.
StoppedTunnelOnly(c, r) == Pids \cap {r.vpn}
StoppedEverywhere(c, r) == {p \in Pids : proc[p] \in Namespaces}

\* stop_runtime followed by stop_namespace_processes: the two recorded pids,
\* whoever has them now, and everything that runs in the line's namespace.
Stopped(c, r) == (Pids \cap {r.vpn, r.proxy}) \cup NsProcesses(c)
Kill(S) == proc' = [p \in Pids |-> IF p \in S THEN Free ELSE proc[p]]

Recorded == UNION {{r.vpn, r.proxy} : r \in
                {m[c] : m \in {mem, disk}, c \in Lines} \ {Absent}}
FreshPids == {p \in Pids : /\ proc[p] = Free
                           /\ PidReuse \/ p \notin Recorded}

----------------------------------------------------------------------------
(* The pass: load, remove, probe.                                           *)

LoadConfig ==
    /\ pc = "load"
    /\ cfg' = config
    /\ pc' = "remove"
    /\ UNCHANGED <<config, disk, mem, proc, kernel, verified, todo, cur, att,
                   health, bounds>>

\* A line with a runtime record that the configuration no longer wants.  The
\* MASQUERADE rule is found through the recorded proxy address, which only
\* a successful connection stores.
RemoveLine(c) ==
    /\ pc = "remove"
    /\ mem[c] # Absent /\ ~cfg[c].wanted
    /\ Kill(Stopped(c, mem[c]))
    /\ netns' = netns \ {NsOf[c]}
    /\ veth' = veth \ {c}
    /\ nat' = IF mem[c].addr THEN nat \ {c} ELSE nat
    /\ mem' = [mem EXCEPT ![c] = Absent]
    /\ UNCHANGED <<config, disk, verified, pc, locals, bounds>>

\* The tunnels that are up under the current settings are probed together;
\* the answers are kept for the rest of the pass.
HealthTargets ==
    {c \in Lines : /\ cfg[c].wanted /\ ~cfg[c].awaiting /\ mem[c] # Absent
                   /\ ProcessAlive(mem[c].vpn) /\ ProcessAlive(mem[c].proxy)
                   /\ mem[c].sig = cfg[c].sig}

Probe ==
    /\ pc = "remove"
    /\ \A c \in Lines : mem[c] = Absent \/ cfg[c].wanted
    /\ health' \in [Lines -> IPs \cup {None}]
    /\ \A c \in Lines \ HealthTargets : health'[c] = None
    /\ todo' = {c \in Lines : cfg[c].wanted}
    /\ pc' = "handle"
    /\ UNCHANGED <<config, cfg, disk, mem, proc, kernel, verified, cur, att,
                   bounds>>

----------------------------------------------------------------------------
(* Handling one line whose processes need no restart.                       *)

\* Mutant of HoldForTest: a line put back to its first test is left running.
HoldForTestRunning(c) ==
    /\ pc = "handle" /\ c \in todo /\ cfg[c].awaiting
    /\ mem' = [mem EXCEPT ![c] = [RuntimeOf(c) EXCEPT !.status = "testing"]]
    /\ disk' = mem'
    /\ todo' = todo \ {c}
    /\ UNCHANGED <<config, cfg, proc, kernel, verified, pc, cur, att, health,
                   bounds>>

\* awaiting_initial_test: nothing may run until the first candidate passed.
HoldForTest(c) ==
    LET r == RuntimeOf(c) IN
    /\ pc = "handle" /\ c \in todo /\ cfg[c].awaiting
    /\ Kill(Stopped(c, r))
    /\ mem' = [mem EXCEPT ![c] = [r EXCEPT !.status = "testing",
                    !.node = None, !.exit = None, !.vpn = None, !.proxy = None]]
    /\ disk' = mem'
    /\ todo' = todo \ {c}
    /\ UNCHANGED <<config, cfg, kernel, verified, pc, cur, att, health,
                   bounds>>

Forced(c, r) == cfg[c].sig.mode = "residential_only" /\ r.exit \in ForcedHosting
Alive(r)     == ProcessAlive(r.vpn) /\ ProcessAlive(r.proxy)

\* Mutant of Fit: the exact hosting list is not looked at.
FitUnforced(c, r) == Alive(r) /\ r.sig = cfg[c].sig

\* Up, allowed by the policy, and connected under the settings in force.  (The
\* KDDI and KT rules compare the provider recorded at the connection with the
\* line's country, which the signature covers.)
Fit(c, r) == Alive(r) /\ ~Forced(c, r) /\ r.sig = cfg[c].sig

\* Mutant of CountryHolds: a changed address passes unseen.
CountryUnchecked(r, ip) == TRUE

CountryHolds(r, ip) == ip = r.exit \/ ip \in LocalIPs

\* mark_exit_verified; the same address again within 300 s writes nothing.
MarkVerified(n, ip, type) ==
    \/ verified' = [verified EXCEPT ![n] = [ip |-> ip, type |-> type]]
    \/ /\ verified[n] # None /\ verified[n].ip = ip
       /\ UNCHANGED verified

\* The probe answered.  Another address than the recorded one passes the
\* country lock again, and nothing else.
KeepLine(c) ==
    LET r == RuntimeOf(c) IN
    /\ pc = "handle" /\ c \in todo /\ ~cfg[c].awaiting
    /\ Fit(c, r) /\ health[c] # None /\ CountryHolds(r, health[c])
    /\ mem' = [mem EXCEPT ![c] = [r EXCEPT !.status = "connected",
                    !.exit = health[c], !.fails = 0]]
    /\ MarkVerified(r.node, health[c], r.type)
    /\ todo' = todo \ {c}
    /\ UNCHANGED <<config, cfg, disk, proc, kernel, pc, cur, att, health,
                   bounds>>

\* The probe failed, but not yet Threshold times in a row.
TolerateFailure(c) ==
    LET r == RuntimeOf(c) IN
    /\ pc = "handle" /\ c \in todo /\ ~cfg[c].awaiting
    /\ Fit(c, r) /\ health[c] = None /\ r.fails + 1 < Threshold
    /\ mem' = [mem EXCEPT ![c] = [r EXCEPT !.status = "connected",
                    !.fails = @ + 1]]
    /\ todo' = todo \ {c}
    /\ UNCHANGED <<config, cfg, disk, proc, kernel, verified, pc, cur, att,
                   health, bounds>>

----------------------------------------------------------------------------
(* Reconnecting one line.                                                   *)

MustReconnect(c, r) ==
    \/ ~Fit(c, r)
    \/ health[c] = None /\ r.fails + 1 >= Threshold
    \/ health[c] # None /\ health[c] # r.exit   \* foreign, or not verifiable

\* Everything of the line is stopped and its record says "connecting" before
\* an attempt starts.  A line without a record gets none yet: the daemon
\* updates a dictionary that is not in the state it writes.
BeginReconnect(c) ==
    LET r == RuntimeOf(c)
        failed == Fit(c, r)
        stopped == [r EXCEPT !.status = "connecting", !.node = None,
                        !.exit = None, !.vpn = None, !.proxy = None,
                        !.type = IF failed THEN None
                                 ELSE IF Alive(r) /\ Forced(c, r) THEN "hosting" ELSE @,
                        !.fails = IF failed /\ health[c] = None THEN @ + 1 ELSE @]
    IN
    /\ pc = "handle" /\ c \in todo /\ ~cfg[c].awaiting
    /\ MustReconnect(c, r)
    /\ Kill(Stopped(c, r))
    /\ mem' = IF mem[c] = Absent THEN mem ELSE [mem EXCEPT ![c] = stopped]
    /\ disk' = mem'
    /\ todo' = todo \ {c}
    /\ cur' = c
    /\ att' = NoAttempt
    /\ pc' = "prepare"
    /\ UNCHANGED <<config, cfg, kernel, verified, health,
                   bounds>>

\* ensure_namespace, then the candidates.  A step of ensure_namespace that
\* fails leaves what the earlier ones made.
PrepareNamespace(c) ==
    /\ pc = "prepare" /\ cur = c
    /\ netns' = netns \cup {NsOf[c]}
    /\ veth' = veth \cup {c}
    /\ nat' = nat \cup {c}
    /\ Kill(NsProcesses(c))
    /\ \E S \in SUBSET Nodes : att' = [NoAttempt EXCEPT !.cands = S]
    /\ pc' = "try"
    /\ UNCHANGED <<config, cfg, disk, mem, verified, todo, cur, health,
                   bounds>>

NamespaceFails(c) ==
    /\ pc = "prepare" /\ cur = c
    /\ netns' \in {netns, netns \cup {NsOf[c]}}
    /\ veth' \in {veth, veth \cup {c}} /\ (NsOf[c] \in netns' \/ veth' = veth)
    /\ nat' \in {nat, nat \cup {c}} /\ (c \in veth' \/ nat' = nat)
    /\ pc' = "try"
    /\ UNCHANGED <<config, disk, mem, proc, verified, locals, bounds>>

StartTunnel(c) ==
    /\ pc = "try" /\ cur = c
    /\ \E n \in att.cands, p \in FreshPids :
        /\ att' = [att EXCEPT !.node = n, !.vpn = p, !.cands = @ \ {n}]
        /\ proc' = [proc EXCEPT ![p] = NsOf[c]]
    /\ pc' = "tunnel"
    /\ UNCHANGED <<config, cfg, disk, mem, kernel, verified, todo, cur, health,
                   bounds>>

StartProxy(c) ==
    /\ pc = "tunnel" /\ cur = c
    /\ \E p \in FreshPids :
        /\ att' = [att EXCEPT !.proxy = p]
        /\ proc' = [proc EXCEPT ![p] = NsOf[c]]
    /\ pc' = "verify"
    /\ UNCHANGED <<config, cfg, disk, mem, kernel, verified, todo, cur, health,
                   bounds>>

\* The tunnel did not come up, or the exit behind it was refused.
CandidateFails(c) ==
    /\ pc \in {"tunnel", "verify"} /\ cur = c
    /\ Kill(Pids \cap ({att.vpn} \cup NsProcesses(c)))
    /\ att' = [NoAttempt EXCEPT !.cands = att.cands]
    /\ pc' = "try"
    /\ UNCHANGED <<config, cfg, disk, mem, kernel, verified, todo, cur, health,
                   bounds>>

\* Mutant of ExitAccepted: only the type of the address is checked.
ExitTypeAccepted(c, ip) ==
    /\ cfg[c].sig.mode = "residential_only" => TypeOf(ip) = "residential"
    /\ cfg[c].sig.mode = "hosting_only" => TypeOf(ip) = "hosting"

\* enforce_country_lock and enforce_exit_ip_type on the address the probe
\* through the new proxy returned.
ExitAccepted(c, ip) ==
    /\ ip \in LocalIPs
    /\ cfg[c].sig.mode = "residential_only" => TypeOf(ip) = "residential"
    /\ cfg[c].sig.mode = "hosting_only" => TypeOf(ip) = "hosting"

Connect(c) ==
    /\ pc = "verify" /\ cur = c
    /\ \E ip \in IPs :
        /\ ExitAccepted(c, ip)
        /\ mem' = [mem EXCEPT ![c] = [status |-> "connected", node |-> att.node,
                exit |-> ip, type |-> TypeOf(ip), vpn |-> att.vpn,
                proxy |-> att.proxy, sig |-> cfg[c].sig, fails |-> 0,
                addr |-> TRUE]]
        /\ MarkVerified(att.node, ip, TypeOf(ip))
    /\ cur' = None
    /\ att' = NoAttempt
    /\ pc' = "handle"
    /\ UNCHANGED <<config, cfg, disk, proc, kernel, todo, health,
                   bounds>>

\* Mutant of GiveUp: the failure is not published.
GiveUpSilently(c) ==
    /\ pc = "try" /\ cur = c /\ att.cands = {}
    /\ Kill(NsProcesses(c))
    /\ cur' = None
    /\ att' = NoAttempt
    /\ pc' = "handle"
    /\ UNCHANGED <<config, cfg, disk, mem, kernel, verified, todo, health,
                   bounds>>

\* No candidate is left, or the namespace could not be prepared.
GiveUp(c) ==
    /\ pc = "try" /\ cur = c /\ att.cands = {}
    /\ Kill(NsProcesses(c))
    /\ mem' = [mem EXCEPT ![c] = [RuntimeOf(c) EXCEPT !.status = "failed",
                    !.exit = None, !.type = None, !.node = None, !.vpn = None,
                    !.proxy = None]]
    /\ cur' = None
    /\ att' = NoAttempt
    /\ pc' = "handle"
    /\ UNCHANGED <<config, cfg, disk, kernel, verified, todo, health,
                   bounds>>

EndPass ==
    /\ pc = "handle" /\ todo = {}
    /\ disk' = mem
    /\ pc' = "wait"
    /\ UNCHANGED <<config, cfg, mem, proc, kernel, verified, todo, cur, att,
                   health, bounds>>

\* Mutant of Wake: the next pass works from the configuration of the last one.
WakeWithoutLoading ==
    /\ pc = "wait"
    /\ pc' = "remove"
    /\ UNCHANGED <<config, disk, mem, proc, kernel, verified, locals, bounds>>

\* The wait ends by its timeout or by SIGUSR1; the event is cleared before the
\* configuration is read, so a signal during the pass starts another one.
Wake ==
    /\ pc = "wait"
    /\ pc' = "load"
    /\ UNCHANGED <<config, disk, mem, proc, kernel, verified, locals, bounds>>

----------------------------------------------------------------------------
(* Failures and restarts.                                                   *)

\* What is left when the daemon stops: the files.  mem holds what the next
\* start will read.
LoseMemory ==
    /\ mem' = disk
    /\ pc' = "down"
    /\ todo' = {}
    /\ cur' = None
    /\ att' = NoAttempt
    /\ health' = [c \in Lines |-> None]
    /\ UNCHANGED <<config, cfg, disk, verified>>

\* The daemon dies or the unit is restarted: systemd kills its control group.
Crash ==
    /\ pc # "down" /\ bounds.crashes < MaxCrashes
    /\ bounds' = [bounds EXCEPT !.crashes = @ + 1]
    /\ Kill({p \in Pids : proc[p] \in Namespaces})
    /\ LoseMemory
    /\ UNCHANGED kernel

\* A reboot also loses the namespaces and rules, and numbers pids afresh.
Reboot ==
    /\ bounds.crashes < MaxCrashes
    /\ bounds' = [bounds EXCEPT !.crashes = @ + 1]
    /\ \E S \in {{}} \cup {{p} : p \in IF PidReuse THEN Pids ELSE {}} :
         proc' = [p \in Pids |-> IF p \in S THEN Host ELSE Free]
    /\ netns' = {} /\ veth' = {} /\ nat' = {}
    /\ LoseMemory

Start ==
    /\ pc = "down"
    /\ pc' = "load"
    /\ UNCHANGED <<config, disk, mem, proc, kernel, verified, locals, bounds>>

ProcessDies(p) ==
    /\ proc[p] \in Namespaces /\ bounds.deaths < MaxDeaths
    /\ bounds' = [bounds EXCEPT !.deaths = @ + 1]
    /\ Kill({p})
    /\ UNCHANGED <<config, disk, mem, kernel, verified, pc, locals>>

----------------------------------------------------------------------------
(* The dashboard process changes channels.json.                             *)

Edit(c, settings) ==
    /\ bounds.edits < MaxEdits
    /\ bounds' = [bounds EXCEPT !.edits = @ + 1]
    /\ config' = [config EXCEPT ![c] = settings]
    /\ UNCHANGED <<disk, mem, proc, kernel, verified, pc, locals>>

NewSignature(mode) == [mode |-> mode, token |-> bounds.edits + 1]

\* A new line, or one whose country changed, waits for its first test.
CreateLine(c) ==
    \E m \in Modes :
        Edit(c, [wanted |-> TRUE, awaiting |-> TRUE, sig |-> NewSignature(m)])

\* A changed policy or node, or a recovery that found new candidates.
EditLine(c) ==
    /\ config[c].wanted
    /\ \E m \in Modes : Edit(c, [config[c] EXCEPT !.sig = NewSignature(m)])

\* mark_channel_ready.
ReleaseLine(c) ==
    /\ config[c].wanted /\ config[c].awaiting
    /\ Edit(c, [config[c] EXCEPT !.awaiting = FALSE,
                                 !.sig = NewSignature(config[c].sig.mode)])

DeleteLine(c) ==
    /\ config[c].wanted
    /\ Edit(c, [config[c] EXCEPT !.wanted = FALSE])

----------------------------------------------------------------------------

Init ==
    /\ config \in [Lines -> [wanted : BOOLEAN, awaiting : BOOLEAN,
                             sig : [mode : Modes, token : {0}]]]
    /\ cfg = config
    /\ disk = [c \in Lines |-> Absent]
    /\ mem = disk
    /\ proc = [p \in Pids |-> Free]
    /\ netns = {} /\ veth = {} /\ nat = {}
    /\ verified = [n \in Nodes |-> None]
    /\ pc = "load"
    /\ todo = {}
    /\ cur = None
    /\ att = NoAttempt
    /\ health = [c \in Lines |-> None]
    /\ bounds = [edits |-> 0, crashes |-> 0, deaths |-> 0]

HandleLine(c) ==
    HoldForTest(c) \/ KeepLine(c) \/ TolerateFailure(c) \/ BeginReconnect(c)

ConnectLine(c) ==
    \/ PrepareNamespace(c) \/ NamespaceFails(c)
    \/ StartTunnel(c) \/ StartProxy(c) \/ CandidateFails(c)
    \/ Connect(c) \/ GiveUp(c)

Daemon ==
    \/ LoadConfig \/ Probe \/ EndPass \/ Wake \/ Start
    \/ \E c \in Lines : RemoveLine(c) \/ HandleLine(c) \/ ConnectLine(c)

Dashboard == \E c \in Lines :
    CreateLine(c) \/ EditLine(c) \/ ReleaseLine(c) \/ DeleteLine(c)

Environment == Crash \/ Reboot \/ \E p \in Pids : ProcessDies(p)

Next == Daemon \/ Dashboard \/ Environment

Spec == Init /\ [][Next]_vars

\* Every subprocess the daemon runs has a timeout and every wait an end, and
\* systemd restarts it (Restart=always): it keeps taking steps.
FairSpec == Spec /\ WF_vars(Daemon)

----------------------------------------------------------------------------
(* Properties.                                                              *)

Attempt == [node : Nodes \cup {None}, vpn : Pids \cup {None},
            proxy : Pids \cup {None}, cands : SUBSET Nodes]

TypeOK ==
    /\ config \in [Lines -> Settings] /\ cfg \in [Lines -> Settings]
    /\ disk \in [Lines -> Runtime \cup {Absent}]
    /\ mem \in [Lines -> Runtime \cup {Absent}]
    /\ proc \in [Pids -> Namespaces \cup {Free, Host}]
    /\ netns \subseteq Namespaces /\ veth \subseteq Lines /\ nat \subseteq Lines
    /\ verified \in [Nodes -> [ip : IPs, type : IPTypes \cup {None}] \cup {None}]
    /\ pc \in {"load", "remove", "handle", "prepare", "try", "tunnel", "verify",
               "wait", "down"}
    /\ todo \subseteq Lines /\ cur \in Lines \cup {None} /\ att \in Attempt
    /\ health \in [Lines -> IPs \cup {None}]
    /\ bounds \in [edits : Nat, crashes : Nat, deaths : Nat]

Connected(m, c) == m[c] # Absent /\ m[c].status = "connected"
Attempted(c)    == cur = c /\ pc \in {"tunnel", "verify"}

\* Fail closed: outside the verification of a candidate, no VPN or proxy
\* process runs for a line that is not connected.  A line that failed, waits for
\* its first test, was deleted or is about to be reconnected carries nothing.
FailClosed ==
    \A c \in Lines : ~Connected(mem, c) /\ ~Attempted(c) => NsProcesses(c) = {}

\* Country lock: the exit of a connected line is an address of the line's
\* country, in the daemon's memory and in the state file the dashboard reads.
CountryLock ==
    \A c \in Lines, m \in {mem, disk} : Connected(m, c) => m[c].exit \in LocalIPs

\* Lines are isolated: a step of the daemon leaves the processes of every line
\* alone whose record it neither removes nor rewrites.
LinesIsolated ==
    [][Daemon => \A c \in Lines :
         Connected(mem, c) /\ mem'[c] = mem[c] => NsProcesses(c) \subseteq NsProcesses(c)']_vars

\* "Remove only the deleted channel's processes, namespace, veth and firewall
\* rules" (remove_channel_namespace): only, so no unrelated process is killed.
NoForeignKill ==
    [][Daemon => \A p \in Pids : proc[p] = Host => proc'[p] = Host]_vars

\* Refinement.  A line serves when its record says connected and both recorded
\* processes run in its namespace: a record that outlived its processes (after a
\* crash, or between a death and the next pass) is not a serving line.
Serving(c) ==
    Connected(mem, c) /\ {mem[c].vpn, mem[c].proxy} \subseteq NsProcesses(c)

Phase(c) == IF Serving(c) THEN "serving"
            ELSE IF Attempted(c) THEN "trying" ELSE "idle"

Service == INSTANCE LineService WITH
    Exits <- LocalIPs,
    phase <- [c \in Lines |-> Phase(c)],
    exit <- [c \in Lines |-> IF Serving(c) THEN mem[c].exit ELSE None]

\* The daemon implements the service: it never serves a line without an attempt
\* of its own, attempts one line at a time, and shows only accepted addresses.
ImplementsService == Service!Spec

\* A deleted or disabled line stops: its processes end unless it comes back.
UnwantedLineStops ==
    \A c \in Lines : ~config[c].wanted ~> (NsProcesses(c) = {} \/ config[c].wanted)

\* A changed setting reaches the tunnel: a line does not stay connected under
\* settings other than those in channels.json.
OldSettingsLeave ==
    \A c \in Lines :
        (Connected(mem, c) /\ mem[c].sig # config[c].sig)
            ~> (~Connected(mem, c) \/ mem[c].sig = config[c].sig)

\* A released line is served: it connects or is published as failed.
ReleasedLineSettles ==
    \A c \in Lines :
        (config[c].wanted /\ ~config[c].awaiting)
            ~> \/ ~config[c].wanted \/ config[c].awaiting
               \/ mem[c] # Absent /\ mem[c].status \in {"connected", "failed"}

\* A residential-only line whose exit turns into an address of the exact hosting
\* list is taken off it, though the pass that saw the change keeps it.
ForcedHostingLeaves ==
    \A c \in Lines :
        (Connected(mem, c) /\ mem[c].exit \in ForcedHosting
                           /\ mem[c].sig.mode = "residential_only")
            ~> ~(Connected(mem, c) /\ mem[c].exit \in ForcedHosting)
===========================================================================
