# A TLA+ model of the multi-country VPN gateway

TLA+ specifications of the gateway in this repository, the TLC instances that
check them, and TLAPS proofs about them.  The gateway is a dashboard process
(`vpngate_manager.py`), a daemon that keeps one isolated VPN exit per country
line (`multi_exit_manager.py`), a local proxy (`proxy_server.py`), helpers that
write the 3x-ui database (`xui_multi_provision.py`, `xui_provision.py`) and
scripts for installing, upgrading and renewing certificates.

## The system

| Part | State | Operations | What makes it correct | Modelled in |
| --- | --- | --- | --- | --- |
| Exit daemon (`multi_exit_manager.py`) | runtime records in memory and `state.json`; processes, namespaces, veth pairs, firewall rules; `verified_exits.json`, `deep_failures.json`, a history per line and node | the pass (load, remove, probe, handle each line), connection attempts, wake by signal, restart by systemd | nothing runs for a line that is not served; a served line exits in its country; lines do not disturb each other; what is wanted happens | `ExitDaemon`, `LineService`; the choice of candidates in `Recovery` |
| Network slots (`channel_network.py`, `migrate_network_slots.py`) | `network_slot` of each line, `network_next_slot` | allocation, mapping to /30 subnets, migration | no two lines share a subnet; an address is never moved or given again | `NetworkSlots` |
| Configuration store (`channels.json`) and its requests | the lines and their settings; `multi_config_lock` | save, delete, switch, direct protocol, batch; background release and unpinning | no request undoes another; ports are unique; file and inbounds agree | `LineStore`; seen from the daemon in `ExitDaemon` |
| 3x-ui provisioning (`xui_multi_provision.py`) | inbounds, routes, backup, result file; x-ui up or down | provision one line or all, delete, copy back | changed only while x-ui is down; x-ui always comes back | `LineStore` |
| First test of a line (`vpngate_manager.py`) | a worker per waiting line, `maintenance_lock`, probe results | look for candidates, test a batch, judge, release | released in the end, and only for an available node that was taken up for it | `Bootstrap` |
| Recovery and standby loops (`vpngate_manager.py`) | grace and windows per line | test a failed line's country, update the list, wake the daemon; test spare nodes | a failed line comes back if it can; what is found is tried | `Recovery` |
| Node catalogue (`vpngate_manager.py`) | `nodes.json`, files of configurations, blacklist, pause; the task that holds `maintenance_lock` | updates from the sources, tests, full maintenance, pause and stop | an outage or a test put off loses nothing that was known; no mark of a test stays for good | `Catalogue` |
| Single exit of the dashboard (`vpngate_manager.py`) | `ui_auth.json`, active node and flags, OpenVPN process, `is_connecting` | connect, disconnect, switch, change of rules, full maintenance | one tunnel; what runs is what the settings ask for; the mark comes off | `SingleExit` |
| Proxy and DNS cache (`proxy_server.py`) | connection permits, cached answers, questions under way | accept, relay, resolve through the tunnel | no step but one loses a permit; no kept answer is from another tunnel, and none used is older than the tunnel seen when it was asked for; nobody waits in vain | `ProxyServer` |
| Channel policy and resource guard (`channel_policy.py`, `resource_guard.py`) | none | filters over candidates; refusals for want of memory | the daemon and the dashboard filter alike | ranks and rejections in `Recovery`; refusals as choices |
| Certificates and upgrade scripts | certificate files, marks | renewal, reload, rollback | a failed renewal leaves the former certificate | not modelled |
| HTTP server, page, subscriptions, parsers, installers | | | | not modelled: text, wire formats and one-shot scripts |

Parts talk through files (`channels.json` to the daemon, `state.json` back,
`nodes.json` between the dashboard's threads), through `SIGUSR1` and
`systemctl`, and inside the dashboard through threads that share locks and the
mark `is_connecting`.

What makes it hard: the daemon works for minutes from a copy of the
configuration and of its probe results; it can be killed between any two steps
and starts again from a file written only at some of them; tunnels, proxies and
exit addresses change under it; the dashboard edits the configuration from many
threads, only some of which take the lock, and undoes edits from copies; tests
of nodes take minutes and share a lock that nobody waits for; `is_connecting` is
read and set in two steps of several functions and cleared in more; a cached
answer, a flag or a record outlives what it was true of.

## Modules

| Module | What it is |
| --- | --- |
| `LineService` | abstract: what a line may do, seen from outside |
| `ExitDaemon`, `ExitDaemonProofs` | the daemon; its invariants, and that it implements `LineService` |
| `LineRegistry` | abstract: lines, and what 3x-ui serves, change in one step |
| `NetworkSlots`, `NetworkSlotsProofs` | slots and addresses |
| `LineStore`, `LineStoreProofs` | requests on `channels.json` and the script on 3x-ui's database |
| `Bootstrap`, `BootstrapProofs` | the first test of a line |
| `SingleExit`, `SingleExitProofs` | the dashboard's own tunnel and the full maintenance around it |
| `ProxyServer`, `ProxyServerProofs` | the proxy of a line and its DNS cache |
| `Recovery`, `RecoveryProofs` | how a failed line comes back: daemon, recovery loop, standby loop, collector |
| `Catalogue`, `CatalogueProofs` | the list of nodes and the tasks that change it |
| `MC...` | symmetry sets and the values of operators for TLC |

Definitions named as mutants in the modules are not part of the models: each is
a plausible bug in place of the definition below it, kept to show that a
property can fail.

### ExitDaemon and LineService

`LineService`: a line is idle, being tried or serving; it serves only after an
attempt, one line is tried at a time, and the address it shows is one of its
country.

| Model | Code |
| --- | --- |
| `config`, `cfg` | `channels.json`, the copy a pass loaded |
| `mem`, `disk` | `state["channels"]`, `state.json` |
| `proc` | the process table: each pid free, unrelated (`Host`) or running in a namespace |
| `netns`, `veth`, `nat` | what `ensure_namespace` makes |
| `verified` | `verified_exits.json` |
| `pc`, `todo`, `cur`, `att`, `health` | the daemon's position and local variables |
| `LoadConfig`, `RemoveLine`, `Probe` | lines 821-855 of `daemon()` |
| `HoldForTest`, `KeepLine`, `TolerateFailure`, `BeginReconnect` | one line of the loop at 857, one action per outcome |
| `PrepareNamespace`, `NamespaceFails`, `StartTunnel`, `StartProxy`, `CandidateFails`, `Connect`, `GiveUp` | `connect_channel` and its handler |
| `EndPass`, `Wake` | lines 1002-1005 |
| `Crash`, `Start` | the systemd unit: `Restart=always`, whole control group killed |
| `Reboot`, `ProcessDies` | the environment |
| `CreateLine`, `EditLine`, `ReleaseLine`, `DeleteLine` | the dashboard's writes |

A pass handles the lines in any order, because the order of `channels.json` is
the administrator's.  Node statistics, back-off times and the ranking of
candidates are left out: an attempt takes any set of candidates, so whatever
holds here holds for every ranking.  Modes of the IP policy that never refuse an
exit (`all`, `residential_preferred`) are one mode.  A line without a runtime
record keeps none until its attempt ends, as in the code, where the daemon
updates a dictionary that is not yet part of its state.

### NetworkSlots

| Model | Code |
| --- | --- |
| `file` | `channels.json`: the lines in order with their slots, and `network_next_slot` |
| `pending` | the copy a request keeps to undo its edit |
| `runtime` | the addresses in `state.json`, as slots |
| `given` | history, not in the code |
| `Keeps`, `FirstFree`, `Ensured` | `ensure_network_slots` |
| `Subnet`, `ProxyAddress`, `SlotOfAddress` | the arithmetic of `channel_network.py` |
| `Migrate`, `FirstLoad` | `migrate_network_slots.py`; the daemon's first load |
| `Create`, `Delete`, `Finish`, `RollBack`, `ReplaceAll` | the requests that allocate |

Requests are one at a time here; that they overlap is `LineStore`.

### LineStore

| Model | Code |
| --- | --- |
| `file`, `db`, `xui` | `channels.json`, the inbounds in the database, whether x-ui runs |
| `jobs[t]` | the local variables of the request that thread `t` handles: what it read, what it writes, its step, the script's backup |
| `lock` | `multi_config_lock` |
| `Save`, `Delete`, `Switch`, `SaveDirect`, `SaveAll` | the handlers of the page |
| `Ready`, `Unpin` | `mark_channel_ready`, `wake_channel_after_recovery` |
| `Write`, `Stop`, `Copy`, `Commit`, `Abort`, `Undo`, `Start` | the steps they share, with the script's between stop and start |
| `StopFails`, `CommitUnreported`, `Crash` | the faults |
| `PortFree`, `Sane`, `Possible`, `Inbounds` | the checks of the handlers and of the script |

A request reads and checks in one step (`Begin`) and writes in another.  A port
stands for everything that makes an inbound.

`LineRegistry` is what the page makes believe: a line is created, changed or
deleted, or the protocol of the direct connection changes, and 3x-ui has it at
once.  `AllOrNothing` maps the store to it: the configuration in effect is the
file, or what the request under way has read (`Effective`) until its script has
committed (`Open`), so that a request undone after a failure has never changed
anything and one that succeeds has done so at its commit (at its write, when it
provisions nothing).

### Bootstrap

| Model | Code |
| --- | --- |
| `lines` | what each line of `channels.json` wants (country and policy) and `awaiting_initial_test` |
| `nodes`, `cool` | `probe_status`, and whether `next_probe_at` is still to come |
| `used` | the nodes of connections in `state.json` |
| `worker[c]` | `bootstrap_workers` and the local variables of `bootstrap_new_channel` |
| `click` | a thread in `run_channel_availability` |
| `test` | the thread that holds `maintenance_lock` in `test_node_availability_only` |
| `Ensure`, `Return`, `Look`, `Forget`, `Enter`, `NotTested`, `Judge` | the supervisor and the loop of a worker |
| `BeginTest`, `Answers`, `Fails`, `Deferred`, `Finish` | the test, up to its `finally` |
| `ClickTest` to `ClickJudges`, `PageTest` | the tests the page asks for |
| `Save`, `Delete`, `CoolDown`, `Use`, `LeaveNode`, `Crash` | what happens around |

The order of candidates is left open.  `next_probe_at` is one bit that time
clears; the half hour of `exhausted_at` is a step that may come when nothing is
eligible.

`ReleasedForOwnNode` is what the code keeps to: a line is released only for an
available node that fits what its worker read of the line (`worker[c].want`), or
that is of the country the line had when its test was asked for on the card
(`TakenFor`).  `ReleasedAsWanted` asks for a node that the line wants at that
moment.  The code keeps it only as long as lines are not edited and not tested
from their cards.

### SingleExit

| Model | Code |
| --- | --- |
| `procs`, `recorded`, `activeId` | the OpenVPN processes of tun0, `active_openvpn_process`, `active_openvpn_node_id` |
| `active`, `cfg` | the active flags in `nodes.json`; `ui_auth.json` |
| `mark`, `mlock` | `is_connecting`, `maintenance_lock` |
| `job[t]` | the local variables of a thread, with the calls it is in: `try` for `auto_switch_node`, `phase` for the place in the maintenance it was called from, `after` for what follows the maintenance |
| `Claim` to `Release` | `connect_node`, its exits and its `finally` |
| `Choose`, `Demote`, `Empty`, `Emptied` | `auto_switch_node` |
| `Enter` to `Finally` | `maintain_valid_nodes`, with `reconnect_fixed_node_if_needed` |
| `AskConnect` to `AskTest`, `Cut`, `Enforce`, `Bar` and their flags | the handlers of the page, `enforce_active_node_allowed_by_routing` |
| `Runs`, `Dies` | a thread that was started runs; OpenVPN ends by itself |

A list stands for every rule that accepts some nodes only.  The rules that a
request was sent with and those in the file when it enforces them are the same
file here: `Enforce` reads it.  Reading and writing back `ui_auth.json` is one
step.  Which nodes are available is open.  Left out are the threads that `main()`
never starts (`background_proxy_checker`, `auto_connect_recovery_loop`,
`active_node_pinger`) and what the page never sends (a change of rules that
turns the exit off).  `Enforce` also leaves out the
branch for an active node that is no longer in the list
(`vpngate_manager.py:2887`), which disconnects it: here every node is in the
list, and updates keep the active one there (`UpdateKeeps` of `Catalogue`).  The
resource guard may refuse the maintenance at its start (`Enter`).  `saved` is the
mark that `reconnect_fixed_node_if_needed` puts back; after a switch the
maintenance sets the mark whatever it was (`Remark`).  `full` and `crossed` are
history: whether a full
maintenance has begun, and whether a change of the settings overlapped with the
setting up of a tunnel.

### ProxyServer

| Model | Code |
| --- | --- |
| `tunnel` | what `_dns_cache_scope` reads of tun0; `Fingerprint` is its result |
| `scope`, `entries`, `inflight` | the fields of `_DNSCache` |
| `flights` | each `_DNSFlight`: its event and its address |
| `permits`, `lost` | `proxy_connection_sem`; permits of threads that never ran (history) |
| `job[c]` | the thread of a client and its local variables |
| `Accept`, `StartFails`, `Request`, `Connect`, `Close` | the accept loop, `handle_proxy_client` |
| `Look` to `Bare` | the loops of `resolve_dns_over_tun0`, `lookup`, `clear` |
| `Begin`, `Query`, `Compare`, `Finish`, `Wake`, `Read`, `TimeOut` | a flight: who asks, who waits |
| `TunnelDown`, `TunnelUp`, `TunnelMoves` | the environment |

An address is known by the tunnel it came through.  The thread that asks reads
the tunnel again when its answer is there (`Compare`): if it has moved, the cache
and those who wait get nothing, but the thread itself uses the answer
(`proxy_server.py:398`).  `NeverOlder` therefore speaks of the tunnel that a
thread saw when it asked and not of the one there is when it connects.  The fingerprint of a tunnel
is taken never to come back for another tunnel, and the cache to have room for at
least one entry; a request for an address instead of a name goes straight to
`Connect`.

### Recovery

| Model | Code |
| --- | --- |
| `line` | of `state.json` the status and node, of `channels.json` the preferred node and restart token |
| `cooldown`, `blocked` | the history's `last_failure_at` with its backoff; `deep_failures.json` |
| `listed`, `probe`, `paused` | the list, `probe_status`, `METADATA_PAUSE_FILE` |
| `daemon`, `rec` | where the daemon's pass and the recovery loop are |
| `watch`, `refreshed` | the loop's grace and windows |
| `Rank`, `Rejects`, `Selectable`, `SortKey`, `Chosen` | `channel_policy.py`, `select_candidates` |
| `BeginPass` to `EndPass`, `Keep`, `Start`, `Fail`, `Succeed`, `TryNext` | `daemon()`, `connect_channel` |
| `SetAside`, `Credit`, `Absolve` | `record_node_failure` with `mark_deep_failure`, `record_node_success`, `clear_deep_failure` |
| `Watch` to `NotUpdated` | the recovery loop |
| `RoutineUpdate`, `StandbyTest`, `Pin`, `Pause` | the collector, the standby loop, the page |

Time is counted in the daemon's passes.  A failed node is set aside for `Backoff`
of them however often it failed; the code lengthens this with each failure up to
a limit, which is what `Backoff` stands for.  A window is not over before the
recovery loop's pass is (`tested`), as it is far longer.  Tests and updates are
one step here and what else holds the lock is their refusal: `Bootstrap` and
`Catalogue` have them in detail.

### Catalogue

| Model | Code |
| --- | --- |
| `listed`, `probe`, `recent` | `nodes.json`: which nodes, their `probe_status`, seen within the retention |
| `files`, `aged` | the configurations kept on disk, those past their retention |
| `black`, `used` | the blacklist; `active_openvpn_node_id` |
| `paused`, `stop` | `METADATA_PAUSE_FILE`, `metadata_cancel_event` |
| `task` | the task that holds `maintenance_lock` and its local variables |
| `RoutineUpdate` to `Tidy` | `refresh_node_catalog_only`, `fetch_candidates`, `enrich_and_store_candidates`, `cleanup_stale_config_cache` |
| `BeginBatch`, `BeginPage` to `EndSingle` | `test_node_availability_only`, `/api/test_nodes`, the batches of the maintenance, `test_node_by_id` |
| `Connect`, `Disconnect`, `SwitchFails` | what a connection makes of the list and the files |
| `Pause`, `Restart`, `Refill`, `Forget` | the page; the dashboard ends and starts; time |

The tasks differ in what they do about nodes that are marked as under test.  A
batch, the maintenance, an update and the start take all such marks off when they
begin; a batch and the maintenance do so again in their `finally` (`Release`).  A
test of the page (`/api/test_nodes`) does neither: it marks the nodes it was
given, and if it raises, they stay marked.  What a node was is remembered from
the record as it was read; a mark that was left counts there as pending.

Ages are sets that time changes.  Where the code sorts, the order within a group
is open.  The two files of a pause are written in one step, and so is what
`connect_node` reads of the list at its start and writes back at its end.

## Runs

| Run | Shows |
| --- | --- |
| `daemon_two_lines` | two lines, one edit, one crash or reboot, one process death: `FailClosed`, `CountryLock`, `LinesIsolated`, and that the daemon implements `LineService` |
| `daemon_liveness` | one line, two edits, under fairness: `UnwantedLineStops`, `OldSettingsLeave`, `ReleasedLineSettles`, `ForcedHostingLeaves` |
| `network_slots` | older files with missing, repeated and impossible slots are repaired and edited up to the limit: `AddressesApart`, `NeverReissued`, `AddressKept`, `HealthyStay` |
| `store_sequential` | one request at a time, transactions may fail: `InSync`, `XuiBack`, `AllOrNothing` |
| `store_locked` | two threads, the requests that hold the lock, all faults: `OthersUntouched`, `ChangedWhileDown` |
| `store_overlap` | two threads, the requests without a lock: `FileSane` |
| `bootstrap` | two lines, two countries, three nodes of which two answer and a policy rejects one of these, any one disturbance, under fairness: `ReleasedForOwnNode`, `Released` |
| `single_exit` | two threads, three requests or deaths, and the switches these start: `OneAtATime`, `OneTunnel`, `SettingsHoldApart`, `MarkFreed` |
| `proxy` | three clients with two questions, a cache for one, a tunnel that goes down, comes back and is replaced: `NeverOlder`, `NobodyWaitsInVain`, `Bounded`, `PermitsBalanced` |
| `recovery` | a line behind one whose country has no nodes, its good node not listed yet and the list paused, any one disturbance, under fairness: `AvailableIsTried`, `Recovers` |
| `catalogue` | two sources, two nodes, tests of the dashboard and of the page, two faults: `UpdateKeeps`, `StatesRestored` |
| `recovery_backoff` | violation of `NoHistoricalBackoff`: a line's only node failed long enough ago for recovery, and still is not tried, because the other record of the same failure blocks it |

### Bounds

`ExitDaemon`: two lines are the least that interfere, four pids the processes
both need at once.  One edit, crash and death can each fall between any two
steps, so every pair of them is seen; `Threshold` is 2 where the code has a
larger number, which only shortens the count.  Two addresses, one of the line's
country, tell apart all that the lock looks at.  The liveness runs use no
symmetry.

`NetworkSlots`: the limit is 62, so that a counter that starts at 59 crosses the
end of a row of subnets (60) and the limit; three lines allow a repetition and a
bystander.  The proofs cover the true limit of 3360.

`LineStore`: two lines, two ports (the least that can be exchanged or collide),
two threads, two or three requests.  A third thread adds no new kind of overlap,
since a request reads once and writes once before its script.

`Bootstrap`: two lines, which may want either of two countries.  Of the one
country both nodes are tested from a card and one is rejected by the policy,
although it answers; so a line could be released for a node of the other country
or for a rejected one.  Batches of one, so that a batch need not hold all
candidates and the workers compete for the lock.
`MaxEvents` bounds edits, clicks, tests of the page, unlucky probes and
restarts together: one, which falls between any two steps.

`SingleExit`: two threads and two nodes are the least that exclude each other
and can be switched; two processes, so that a second can be started while one
is left.  Three requests or deaths allow a change during a connection during a
maintenance.  `Attempts` is 1 where the code has three: a switch fails for good
sooner.  The proofs hold for any.  The view leaves out what a thread no longer
reads (the node and outcome of a connection that has ended, a list of nodes that
is not in use) and, once a full
maintenance has begun, whether changes overlapped.

`ProxyServer`: one client asks, one waits, one evicts; two questions of one name
are two keys, and a cache for one makes them displace each other.  Two tunnels:
a later one adds nothing that the second does not.  The view leaves out what is
set anew before it is read (a flight that nobody refers to, the tunnel a thread
saw before it looks again), and of a resolved address all but whether it is older
than what its thread saw.

`Recovery`: one candidate per pass and a backoff of two passes, of which the
second is long enough for recovery.  `Backoff * MaxCandidates` must exceed the
number of dead nodes that rank before the good one, as it does in the code (six
hours against passes of seconds), or the good one is never reached.  One event,
of any kind, at any point.

`Catalogue`: two nodes, one of them only on a mirror, a list filled up below two.
`Cap` is not reached there, so `CutTo` cuts nothing.  Two events, so that one
fault can meet another.

### Fairness

`ExitDaemon`: only the daemon's steps are fair (`WF_vars(Daemon)`): every
subprocess it starts has a timeout, its waits end, and systemd restarts it.
`LineStore`: the steps of a request (`WF_vars(Step(t))`); every command has a
timeout.  `Bootstrap`: probes time out, workers are threads that run, and times
come (weak fairness); `Look` and `Enter` are strongly fair, because they need the
lock free only now and then: a worker polls every two seconds for ever, while
the others have finitely many candidates and then leave the lock alone for at
least ten seconds.  `Recovery`: the daemon, the recovery loop and the collector
go on, and windows end (weak fairness).  `Pick`, `TestCountry` and
`EmergencyUpdate` are strongly fair: each can be passed over or refused while
something else holds the lock or memory is short, but the loop comes back to it
for ever, and what holds the lock leaves it again and again.  Edits, clicks,
failures, crashes and deaths are never forced.  The runs of `SingleExit`,
`ProxyServer` and `Catalogue` check safety and assume none.

## Proofs

For every value of the constants that satisfies the named assumptions:

- `ExitDaemonProofs`.  `TypeCorrect`.  `FailClosedCorrect`: inductive together
  with the types, if no two lines share a namespace name (`OwnNamespace`).
  `CountryLockCorrect` needs `RecordsLocked`: a record that is not connected names
  no tunnel process; otherwise a record never checked could be kept up.
  `LinesIsolatedCorrect` needs `OwnNamespace` and that no pid is reused while a
  record names it; its invariant `IsolationInv` says that recorded processes, in
  memory and in the file, are gone or in their line's namespace, and that the line
  under reconnection is not connected.
  `Refinement`: under the same two assumptions the daemon implements
  `LineService`; one lemma per kind of step (a stop, an attempt, a connection, a
  stutter).  `PassSettlesCorrect` is the safe half of `UnwantedLineStops`,
  `OldSettingsLeave` and `ReleasedLineSettles`: fairness only has to bring a pass
  to its end, and a pass that ended has settled every line, in memory and in the
  file.  Its `PassInv` says, for each place in the pass, which lines are settled
  already and that those still to come are wanted.  With `FailClosed` and
  `OwnNamespace` this gives `UnwantedSilent`.
- `NetworkSlotsProofs`.  All properties of the run; `DistinctSlots`, that a repaired
  file gives each line a slot of its own; and `AllocatedOnce`, that repairing is
  finished after one allocation.  The invariant `IInv`
  adds to the types that a repaired file agrees with the history of given slots
  (`Agrees`), that the counter is above all slots in use (`Repaired`), and that the
  copy kept for undoing is as good and the edit kept its lines (`Follows`); without
  the last, undoing an edit could bring back a slot that went to another line.  The
  arithmetic of addresses is one lemma (`AddressOfSlot`).
- `LineStoreProofs`.  `TypeCorrect` and `FileAlwaysSane` from `IInv`: every copy
  of the file that a thread holds is sane, so whichever is written last is.
  `LockedLeaveOthers` and `LockedChangeWhileDown` assume that only requests that
  hold the lock occur; their `LockInv` says that a thread in a request has the lock,
  that the file, what it read and what it writes differ in its own line only, and
  that x-ui is down from the stop to the start.  `OneAtATimeInSync` assumes one
  request at a time, by one thread or because all that occur hold the lock
  (`Serial`), no batch, and no failure but the transaction's; its `SyncInv` says, for
  each step of a request, whether the database agrees with the file that was read
  or with the one written, that the two differ in one inbound or in the direct
  protocol, and that every line is enabled: saving a disabled line enables it
  without provisioning.  `RequestsAtomic` is the refinement of `LineRegistry` under
  the same assumptions: the configuration in effect changes only at the commit of
  a script, or at the write of a request that provisions nothing, and then in one
  line or the protocol.  `NeverLeftDown` holds for any
  overlap of requests: if `systemctl stop` works and the dashboard lives, x-ui is
  down only while a request stands between its stop and its start.
- `BootstrapProofs`.  `TypeCorrect` includes who waits for the test that is under
  way.  `OwnNodeCorrect` holds without assumptions; its `TakenInv` says that what
  a worker tests and judges, and what a test that may release has still to do,
  are nodes that the line was taken up for.  `AsWantedCorrect` assumes that no line
  is changed and no test is asked for on a card, and adds that a worker then keeps
  to what its line wants (`SameWant`).

- `SingleExitProofs`.  `TypeCorrect`, `OneAtATimeCorrect` and `MarkFreedCorrect`
  from `IInv`: whoever holds `maintenance_lock` is in the maintenance or a test
  (`Locked`), a mark that is set has a thread on its way to take it off (`Freed`),
  and before a full maintenance nobody is in one (`Alone`).  What a step does to
  the mark and the lock is one relation (`Effect`), and each step is shown to keep
  to it.  `OneTunnelCorrect` and `SettingsHoldApartCorrect` from `Tidied` on top
  of it: a process is recorded or being started by the one thread that connects
  (`Behind`), and, if nothing overlapped (`Calm`), what runs is allowed or a
  thread is on its way to end it, and the flags are those of the active node or a
  thread is about to change them.
- `ProxyServerProofs`.  `NeverOlderCorrect` and `NobodyWaitsInVainCorrect` from one
  invariant: threads that share a flight have read the same tunnel, which is the
  cache's scope while the flight is registered; its answer is no older; and
  exactly one thread asks for it (`FlightsOK`).  `PermitsCorrect`
  counts threads; `TypeCorrect` takes the range of the permits from it;
  `BoundedCorrect` counts entries and questions under way.

- `RecoveryProofs`.  `TypeCorrect` and `AvailableIsTriedCorrect`: a node is in the
  history no longer than in the other record of its failures, and the node that a
  line uses is in neither (`Agree`); without the second, forgetting one of them for
  a working exit would part them.

- `CatalogueProofs`.  `TypeCorrect`, `UpdateKeepsCorrect` and
  `StatesRestoredCorrect` from `IInv`: nodes have a state if and only if they are
  listed and, unless a test of the page left its mark, are under test only in a
  test (`ProbesOK`), what a task has to do
  follows from where it is (`Placed`), a test remembers a state worth restoring for
  each of its nodes (`Tested`), and what was fetched is clear of the blacklist
  (`Clear`), since nodes are only taken off it while an update is under way.

`AsWantedCorrect`, `FailClosedCorrect`, `LinesIsolatedCorrect`, `UnwantedSilent`,
`Refinement` and five theorems of `LineStoreProofs` (`LockedLeaveOthers`,
`LockedChangeWhileDown`, `OneAtATimeInSync`, `RequestsAtomic`, `NeverLeftDown`) make
assumptions because without them the
properties fail; the next section says how.

Only model-checked: all liveness (`UnwantedLineStops`, `OldSettingsLeave`,
`ReleasedLineSettles`, `ForcedHostingLeaves`, `XuiBack`, `Released`,
`Recovers`), which the prover cannot do under fairness.

## Known disagreements

Besides the violation run, the models show the following.  Each can be seen with
the change of a configuration it names.

The daemon and its lines:

- Ids that share their first ten characters share a namespace
  (`multi_exit_manager.py:287`), although every line is to have its own
  (`README.md:22`).  In `ExitDaemon_two.cfg` take `Namespaces = {l1}` and
  `NsOf <- SharedNamespaces`: `LinesIsolated` fails.
- After a reboot a recorded pid is someone else's (`multi_exit_manager.py:328`).
  `PidReuse = TRUE` there: `NoForeignKill` fails.
- A line deleted before it ever connected leaves its MASQUERADE rule
  (`multi_exit_manager.py:332`): `nat` keeps it in `RemoveLine`.
- An exit address that changes behind a live tunnel is stored in
  `verified_exits.json` with the type of the former one
  (`multi_exit_manager.py:936`): see `KeepLine`.

Requests on `channels.json`:

- Two savings overlap and one undoes the other (`vpngate_manager.py:8324`,
  while deleting at `8356` takes the lock).  `Ops = {"save", "delete"}` and two
  threads in `LineStore_locked.cfg`: `OthersUntouched` fails.
- `systemctl stop` fails outside of the `try` of a saving
  (`vpngate_manager.py:8327`): the new line stays in the file without an inbound.
  Add `"stop"` to `Faults` of `LineStore_sequential.cfg`: `InSync` fails.
- Two savings at once and a failing transaction (`xui_multi_provision.py:450`):
  the backup copied over the database undoes the other script, or the file
  written back undoes the other request.  Use two threads there, two requests
  and only `"save"` in `Ops`.
- The batch interface undoes nothing when its script fails
  (`vpngate_manager.py:8544`), which it does when no line is enabled or two lines
  exchange ports.  Add `"all"` to `Ops` there.
- Saving a disabled line enables it (`vpngate_manager.py:8278`).

First tests and recovery:

- The test asked for on a card takes nodes that the line's policy rejects and may
  release the line for one of them (`vpngate_manager.py:999`).  Check
  `ReleasedAsWanted` in `Bootstrap.cfg` with `Events = {"click"}`: it fails.
- A line whose country or policy changes while its first test runs can be
  released for a node of its former settings (`vpngate_manager.py:1161`, `1205`).
  `Events = {"edit"}` there: `ReleasedAsWanted` fails.
- A country without any node raises an exception (`vpngate_manager.py:1000`) that
  ends the pass of the recovery loop before its list is updated and before other
  lines are looked at: `NothingToTest`.  The comment at `1096` has it that such a
  country gets one update.
- The recovery loop judges by a status read before its tests
  (`vpngate_manager.py:1089`) and may restart a line that is connected by then.
- Its forced update deletes the pause file, so that routine updates go on for
  good: `EmergencyUpdate`.
- Records of deep failures are pruned at 512 (`multi_exit_manager.py:119`), which
  is not modelled.

The list of nodes:

- A test of the page that raises after it has marked its nodes (a full disk, say,
  at `vpngate_manager.py:3201`) leaves them "testing" (`8845`), although the
  comment at `3078` has it that no probe is left so, while nothing is under way;
  the next update, batch, maintenance or start takes the marks off, a test of a
  single node does not: `Release`.
- Nodes dropped because they were not seen for two days come back in the same
  update from the files kept of them, while the list is short: `Recovered`.
- The pause and its end are two files, and a forced update ends them before it
  has the lock (`vpngate_manager.py:3652`), so it may cancel a stop and then do
  nothing: `ForcedUpdate`.
- Failures to write a configuration are swallowed (`vpngate_manager.py:3626`).
- Connecting the active node anew deletes its own configuration first and then
  fails for the lack of it (`vpngate_manager.py:2592`): `NotStored`.
- A failed switch marks its node in the list without the lock, and a batch that
  ends writes over it (`vpngate_manager.py:3222`); a switch that was refused
  because something else was under way marks a healthy node (`3279`): `SwitchFails`.

The dashboard's own tunnel:

- A change of the rules, or a disconnection, that overlaps with the setting up of
  a tunnel may be undone by it, since the rules are read before and the change
  looks for the active node too early; so may a full maintenance, which takes the
  mark off in the middle.  Check `SettingsHold` in `SingleExit.cfg`, or take `full`
  out of `OneAtATime` or `OneTunnel`.
- A failed switch connects again although the exit has been turned off meanwhile
  (`vpngate_manager.py:3342`): `Read` turns it on.
- `kill_existing_openvpn_processes` ends the processes of tests as well
  (`vpngate_manager.py:2385`).
- `maintain_valid_nodes` takes the mark off before its results are written and
  the lock is free (`vpngate_manager.py:3977`): `Test`.

The proxy:

- A permit is lost when the thread of a client cannot be started
  (`proxy_server.py:709`): `StartFails`, counted in `lost`.

## Plan

Done: the daemon, its refinement, the slots, the store, the first test, recovery,
the list of nodes, the dashboard's tunnel, the proxy.

What could still be added, in this order:

1. `NamespaceSetup`: the steps of `ensure_namespace` and of the removal, killed
   anywhere and repeated.  It would refine the open choice in `PrepareNamespace`
   and `NamespaceFails`.
2. Composition: `LineStore` with `NetworkSlots` (undoing through allocation), and
   `Bootstrap` with the part of `ExitDaemon` that holds and releases lines.
3. `CertRenew`: renewal, reload and roll-back of the certificate.

## Not modelled

Request parsing, sessions, HTML and subscription links; the wire formats of
OpenVPN, SOCKS and DNS; the parsing of the catalogue and the tables of providers
and address types; the contents of an inbound; the memory thresholds of the
resource guard (its refusals are choices of the models); installers.  The renewal
of certificates and the upgrade are shell scripts without state that others
share.  Times are order only: no property depends on a duration.
