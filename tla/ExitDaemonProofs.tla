-------------------------- MODULE ExitDaemonProofs --------------------------
(***************************************************************************)
(* Proofs about ExitDaemon for every set of lines, nodes, addresses and     *)
(* process ids: typing, fail-closed, country lock, isolation, and that the  *)
(* daemon implements LineService.                                           *)
(***************************************************************************)
EXTENDS ExitDaemon, TLAPS

USE NsAssumption, IPAssumption, NoneAssumption, ThresholdAssumption,
    BoundAssumption, AbsentAssumption

-----------------------------------------------------------------------------
(* Typing.                                                                   *)

LEMMA RuntimeOfType ==
    ASSUME TypeOK, NEW c \in Lines
    PROVE  RuntimeOf(c) \in Runtime
  BY DEF TypeOK, RuntimeOf, NewRuntime, Runtime, Status

LEMMA KillType ==
    ASSUME TypeOK, NEW S, Kill(S)
    PROVE  proc' \in [Pids -> Namespaces \cup {Free, Host}]
  BY DEF TypeOK, Kill

LEMMA InitType == Init => TypeOK
  <1> SUFFICES ASSUME Init PROVE TypeOK
    OBVIOUS
  <1>1. config \in [Lines -> Settings]
    BY DEF Init, Settings, Signatures
  <1>2. att \in Attempt
    BY DEF Init, NoAttempt, Attempt
  <1> QED
    BY <1>1, <1>2 DEF Init, TypeOK

LEMMA RemoveLineType ==
    ASSUME TypeOK, NEW c \in Lines, RemoveLine(c)
    PROVE  TypeOK'
  <1>1. proc' \in [Pids -> Namespaces \cup {Free, Host}]
    BY KillType DEF RemoveLine
  <1> QED
    BY <1>1 DEF RemoveLine, TypeOK, locals

\* A record that holds no process: testing, connecting or failed.
Closed(r) == r \in Runtime /\ r.status # "connected" /\ r.vpn = None /\ r.proxy = None

\* A record r kept up with the exit address ip.
Kept(r, new, ip) ==
    /\ new \in Runtime
    /\ new.status = "connected" /\ new.exit = ip
    /\ new.vpn = r.vpn /\ new.proxy = r.proxy

LEMMA HoldForTestRecord ==
    ASSUME TypeOK, NEW c \in Lines, HoldForTest(c)
    PROVE  \E new : Closed(new) /\ mem' = [mem EXCEPT ![c] = new]
  <1>1. PICK r \in Runtime : r = RuntimeOf(c)
    BY RuntimeOfType
  <1> DEFINE new == [r EXCEPT !.status = "testing", !.node = None, !.exit = None,
                              !.vpn = None, !.proxy = None]
  <1>2. Closed(new)
    BY DEF Closed, Runtime, Status
  <1>3. mem' = [mem EXCEPT ![c] = new]
    BY <1>1 DEF HoldForTest
  <1> QED
    BY <1>2, <1>3

LEMMA HoldForTestType ==
    ASSUME TypeOK, NEW c \in Lines, HoldForTest(c)
    PROVE  TypeOK'
  <1>1. proc' \in [Pids -> Namespaces \cup {Free, Host}]
    BY KillType DEF HoldForTest
  <1>2. mem' \in [Lines -> Runtime \cup {Absent}]
    BY HoldForTestRecord DEF TypeOK, Closed
  <1> QED
    BY <1>1, <1>2 DEF HoldForTest, TypeOK, kernel

LEMMA MarkVerifiedType ==
    ASSUME TypeOK, NEW n, NEW ip \in IPs, NEW type \in IPTypes \cup {None},
           MarkVerified(n, ip, type)
    PROVE  verified' \in [Nodes -> [ip : IPs, type : IPTypes \cup {None}] \cup {None}]
  BY DEF TypeOK, MarkVerified

LEMMA KeepLineRecord ==
    ASSUME TypeOK, NEW c \in Lines, KeepLine(c)
    PROVE  \E new : Kept(RuntimeOf(c), new, health[c]) /\ mem' = [mem EXCEPT ![c] = new]
  <1>1. PICK r \in Runtime : r = RuntimeOf(c)
    BY RuntimeOfType
  <1> DEFINE new == [r EXCEPT !.status = "connected", !.exit = health[c], !.fails = 0]
  <1>2. health[c] \in IPs
    BY DEF KeepLine, TypeOK
  <1>3. Kept(r, new, health[c])
    BY <1>2 DEF Kept, Runtime, Status
  <1>4. mem' = [mem EXCEPT ![c] = new]
    BY <1>1 DEF KeepLine
  <1> QED
    BY <1>1, <1>3, <1>4

LEMMA KeepLineType ==
    ASSUME TypeOK, NEW c \in Lines, KeepLine(c)
    PROVE  TypeOK'
  <1>1. PICK r \in Runtime : r = RuntimeOf(c)
    BY RuntimeOfType
  <1>2. health[c] \in IPs
    BY DEF KeepLine, TypeOK
  <1>3. mem' \in [Lines -> Runtime \cup {Absent}]
    BY KeepLineRecord DEF TypeOK, Kept
  <1>4. /\ MarkVerified(r.node, health[c], r.type)
        /\ r.type \in IPTypes \cup {None}
    BY <1>1 DEF KeepLine, Runtime
  <1>5. verified' \in [Nodes -> [ip : IPs, type : IPTypes \cup {None}] \cup {None}]
    BY <1>2, <1>4, MarkVerifiedType
  <1> QED
    BY <1>3, <1>5 DEF KeepLine, TypeOK, kernel

LEMMA TolerateFailureRecord ==
    ASSUME TypeOK, NEW c \in Lines, TolerateFailure(c)
    PROVE  \E new : /\ Kept(RuntimeOf(c), new, RuntimeOf(c).exit)
                    /\ mem' = [mem EXCEPT ![c] = new]
  <1>1. PICK r \in Runtime : r = RuntimeOf(c)
    BY RuntimeOfType
  <1>2. r.fails + 1 \in Nat
    BY DEF Runtime
  <1>3. PICK k \in Nat : k = r.fails + 1
    BY <1>2
  <1> DEFINE new == [r EXCEPT !.status = "connected", !.fails = k]
  <1>4. Kept(r, new, r.exit)
    BY DEF Kept, Runtime, Status
  <1>5. mem' = [mem EXCEPT ![c] = new]
    BY <1>1, <1>3 DEF TolerateFailure
  <1> QED
    BY <1>1, <1>4, <1>5

LEMMA TolerateFailureType ==
    ASSUME TypeOK, NEW c \in Lines, TolerateFailure(c)
    PROVE  TypeOK'
  <1>1. mem' \in [Lines -> Runtime \cup {Absent}]
    BY TolerateFailureRecord DEF TypeOK, Kept
  <1> QED
    BY <1>1 DEF TolerateFailure, TypeOK, kernel

LEMMA NoAttemptType ==
    ASSUME NEW S \in SUBSET Nodes
    PROVE  NoAttempt \in Attempt /\ [NoAttempt EXCEPT !.cands = S] \in Attempt
  BY DEF NoAttempt, Attempt

LEMMA BeginReconnectRecord ==
    ASSUME TypeOK, NEW c \in Lines, BeginReconnect(c)
    PROVE  \/ mem[c] = Absent /\ mem' = mem
           \/ \E new : Closed(new) /\ mem' = [mem EXCEPT ![c] = new]
  <1>1. CASE mem[c] = Absent
    BY <1>1 DEF BeginReconnect
  <1>2. CASE mem[c] # Absent
    <2> DEFINE r == mem[c]
               failed == Fit(c, r)
               type == IF failed THEN None
                       ELSE IF Alive(r) /\ Forced(c, r) THEN "hosting" ELSE r.type
               fails == IF failed /\ health[c] = None THEN r.fails + 1 ELSE r.fails
               new == [r EXCEPT !.status = "connecting", !.node = None, !.exit = None,
                                !.vpn = None, !.proxy = None, !.type = type,
                                !.fails = fails]
    <2>1. RuntimeOf(c) = r /\ r \in Runtime
      BY <1>2 DEF RuntimeOf, TypeOK
    <2>2. type \in IPTypes \cup {None} /\ fails \in Nat
      BY <2>1 DEF Runtime, IPTypes
    <2>3. mem' = [mem EXCEPT ![c] = new]
      BY <1>2, <2>1, Zenon DEF BeginReconnect
    <2>4. Closed(new)
      <3> HIDE DEF r, type, fails
      <3> QED
        BY <2>1, <2>2 DEF Closed, Runtime, Status
    <2> QED
      BY <2>3, <2>4
  <1> QED
    BY <1>1, <1>2

LEMMA BeginReconnectType ==
    ASSUME TypeOK, NEW c \in Lines, BeginReconnect(c)
    PROVE  TypeOK'
  <1>1. mem' \in [Lines -> Runtime \cup {Absent}]
    BY BeginReconnectRecord DEF TypeOK, Closed
  <1>2. proc' \in [Pids -> Namespaces \cup {Free, Host}]
    BY KillType DEF BeginReconnect
  <1>3. att' \in Attempt
    BY NoAttemptType DEF BeginReconnect
  <1> QED
    BY <1>1, <1>2, <1>3 DEF BeginReconnect, TypeOK, kernel

LEMMA PrepareType ==
    ASSUME TypeOK, NEW c \in Lines, PrepareNamespace(c) \/ NamespaceFails(c)
    PROVE  TypeOK'
  <1>1. NsOf[c] \in Namespaces
    OBVIOUS
  <1>2. CASE PrepareNamespace(c)
    <2>1. proc' \in [Pids -> Namespaces \cup {Free, Host}]
      BY <1>2, KillType DEF PrepareNamespace
    <2>2. att' \in Attempt
      BY <1>2, NoAttemptType DEF PrepareNamespace
    <2> QED
      BY <1>1, <1>2, <2>1, <2>2 DEF PrepareNamespace, TypeOK
  <1>3. CASE NamespaceFails(c)
    BY <1>1, <1>3 DEF NamespaceFails, TypeOK, locals
  <1> QED
    BY <1>2, <1>3

LEMMA StartProcessType ==
    ASSUME TypeOK, NEW c \in Lines, StartTunnel(c) \/ StartProxy(c)
    PROVE  TypeOK'
  <1>1. NsOf[c] \in Namespaces
    OBVIOUS
  <1>2. CASE StartTunnel(c)
    <2>1. PICK n \in att.cands, p \in Pids :
             /\ att' = [att EXCEPT !.node = n, !.vpn = p, !.cands = @ \ {n}]
             /\ proc' = [proc EXCEPT ![p] = NsOf[c]]
      BY <1>2 DEF StartTunnel, FreshPids
    <2>2. att' \in Attempt
      BY <2>1 DEF TypeOK, Attempt
    <2> QED
      BY <1>1, <1>2, <2>1, <2>2 DEF StartTunnel, TypeOK, kernel
  <1>3. CASE StartProxy(c)
    <2>1. PICK p \in Pids :
             /\ att' = [att EXCEPT !.proxy = p]
             /\ proc' = [proc EXCEPT ![p] = NsOf[c]]
      BY <1>3 DEF StartProxy, FreshPids
    <2>2. att' \in Attempt
      BY <2>1 DEF TypeOK, Attempt
    <2> QED
      BY <1>1, <1>3, <2>1, <2>2 DEF StartProxy, TypeOK, kernel
  <1> QED
    BY <1>2, <1>3

LEMMA CandidateFailsType ==
    ASSUME TypeOK, NEW c \in Lines, CandidateFails(c)
    PROVE  TypeOK'
  <1>1. proc' \in [Pids -> Namespaces \cup {Free, Host}]
    BY KillType DEF CandidateFails
  <1>2. att.cands \in SUBSET Nodes
    BY DEF TypeOK, Attempt
  <1>3. att' \in Attempt
    BY <1>2, NoAttemptType DEF CandidateFails
  <1> QED
    BY <1>1, <1>3 DEF CandidateFails, TypeOK, kernel

\* The record of a connection that was accepted.
ConnectedRecord(c, ip) ==
    [status |-> "connected", node |-> att.node, exit |-> ip, type |-> TypeOf(ip),
     vpn |-> att.vpn, proxy |-> att.proxy, sig |-> cfg[c].sig, fails |-> 0,
     addr |-> TRUE]

LEMMA ConnectRecord ==
    ASSUME TypeOK, NEW c \in Lines, Connect(c)
    PROVE  \E ip \in LocalIPs : /\ ConnectedRecord(c, ip) \in Runtime
                                /\ mem' = [mem EXCEPT ![c] = ConnectedRecord(c, ip)]
                                /\ MarkVerified(att.node, ip, TypeOf(ip))
  <1>1. PICK ip \in LocalIPs :
           /\ mem' = [mem EXCEPT ![c] = ConnectedRecord(c, ip)]
           /\ MarkVerified(att.node, ip, TypeOf(ip))
    BY DEF Connect, ExitAccepted, ConnectedRecord
  <1>2. cfg[c].sig \in Signatures
    BY DEF TypeOK, Settings
  <1>3. /\ att.node \in Nodes \cup {None}
        /\ att.vpn \in Pids \cup {None} /\ att.proxy \in Pids \cup {None}
    BY DEF TypeOK, Attempt
  <1>4. TypeOf(ip) \in IPTypes \cup {None}
    BY DEF TypeOf, IPTypes
  <1>5. ConnectedRecord(c, ip) \in Runtime
    BY <1>2, <1>3, <1>4 DEF ConnectedRecord, Runtime, Status
  <1> QED
    BY <1>1, <1>5

LEMMA ConnectType ==
    ASSUME TypeOK, NEW c \in Lines, Connect(c)
    PROVE  TypeOK'
  <1>1. PICK ip \in LocalIPs : /\ ConnectedRecord(c, ip) \in Runtime
                               /\ mem' = [mem EXCEPT ![c] = ConnectedRecord(c, ip)]
                               /\ MarkVerified(att.node, ip, TypeOf(ip))
    BY ConnectRecord
  <1>2. mem' \in [Lines -> Runtime \cup {Absent}]
    BY <1>1 DEF TypeOK
  <1>3. TypeOf(ip) \in IPTypes \cup {None} /\ ip \in IPs
    BY DEF TypeOf, IPTypes
  <1>4. verified' \in [Nodes -> [ip : IPs, type : IPTypes \cup {None}] \cup {None}]
    BY <1>1, <1>3, MarkVerifiedType
  <1>5. att' \in Attempt
    BY NoAttemptType DEF Connect
  <1> QED
    BY <1>2, <1>4, <1>5 DEF Connect, TypeOK, kernel

LEMMA GiveUpRecord ==
    ASSUME TypeOK, NEW c \in Lines, GiveUp(c)
    PROVE  \E new : Closed(new) /\ mem' = [mem EXCEPT ![c] = new]
  <1>1. PICK r \in Runtime : r = RuntimeOf(c)
    BY RuntimeOfType
  <1> DEFINE new == [r EXCEPT !.status = "failed", !.exit = None, !.type = None,
                              !.node = None, !.vpn = None, !.proxy = None]
  <1>2. Closed(new)
    BY DEF Closed, Runtime, Status
  <1>3. mem' = [mem EXCEPT ![c] = new]
    BY <1>1 DEF GiveUp
  <1> QED
    BY <1>2, <1>3

LEMMA GiveUpType ==
    ASSUME TypeOK, NEW c \in Lines, GiveUp(c)
    PROVE  TypeOK'
  <1>1. mem' \in [Lines -> Runtime \cup {Absent}]
    BY GiveUpRecord DEF TypeOK, Closed
  <1>2. proc' \in [Pids -> Namespaces \cup {Free, Host}]
    BY KillType DEF GiveUp
  <1>3. att' \in Attempt
    BY NoAttemptType DEF GiveUp
  <1> QED
    BY <1>1, <1>2, <1>3 DEF GiveUp, TypeOK, kernel

LEMMA PassType ==
    ASSUME TypeOK, LoadConfig \/ Probe \/ EndPass \/ Wake \/ Start
    PROVE  TypeOK'
  <1>1. CASE LoadConfig
    BY <1>1 DEF LoadConfig, TypeOK, kernel
  <1>2. CASE Probe
    BY <1>2 DEF Probe, TypeOK, kernel
  <1>3. CASE EndPass
    BY <1>3 DEF EndPass, TypeOK, kernel
  <1>4. CASE Wake
    BY <1>4 DEF Wake, TypeOK, kernel, locals
  <1>5. CASE Start
    BY <1>5 DEF Start, TypeOK, kernel, locals
  <1> QED
    BY <1>1, <1>2, <1>3, <1>4, <1>5

LEMMA DashboardType ==
    ASSUME TypeOK, Dashboard
    PROVE  TypeOK'
  <1>1. ASSUME NEW c \in Lines, NEW s \in Settings, Edit(c, s)
        PROVE  TypeOK'
    BY <1>1 DEF Edit, TypeOK, kernel, locals
  <1>2. \A m \in Modes : NewSignature(m) \in Signatures
    BY DEF NewSignature, Signatures, TypeOK
  <1>3. PICK c \in Lines :
           CreateLine(c) \/ EditLine(c) \/ ReleaseLine(c) \/ DeleteLine(c)
    BY DEF Dashboard
  <1>4. config[c] \in Settings /\ config[c].sig \in Signatures
    BY DEF TypeOK, Settings
  <1>5. CASE CreateLine(c)
    <2>1. PICK m \in Modes :
            Edit(c, [wanted |-> TRUE, awaiting |-> TRUE, sig |-> NewSignature(m)])
      BY <1>5 DEF CreateLine
    <2> QED
      BY <1>1, <1>2, <2>1 DEF Settings
  <1>6. CASE EditLine(c)
    <2>1. PICK m \in Modes : Edit(c, [config[c] EXCEPT !.sig = NewSignature(m)])
      BY <1>6 DEF EditLine
    <2>2. [config[c] EXCEPT !.sig = NewSignature(m)] \in Settings
      BY <1>2, <1>4 DEF Settings
    <2> QED
      BY <1>1, <2>1, <2>2
  <1>7. CASE ReleaseLine(c)
    <2>1. config[c].sig.mode \in Modes
      BY <1>4 DEF Signatures
    <2>2. [config[c] EXCEPT !.awaiting = FALSE,
                            !.sig = NewSignature(config[c].sig.mode)] \in Settings
      BY <1>2, <1>4, <2>1 DEF Settings
    <2> QED
      BY <1>1, <1>7, <2>2 DEF ReleaseLine
  <1>8. CASE DeleteLine(c)
    <2>1. [config[c] EXCEPT !.wanted = FALSE] \in Settings
      BY <1>4 DEF Settings
    <2> QED
      BY <1>1, <1>8, <2>1 DEF DeleteLine
  <1> QED
    BY <1>3, <1>5, <1>6, <1>7, <1>8

LEMMA EnvironmentType ==
    ASSUME TypeOK, Environment
    PROVE  TypeOK'
  <1>1. ASSUME LoseMemory
        PROVE  /\ mem' \in [Lines -> Runtime \cup {Absent}]
               /\ health' \in [Lines -> IPs \cup {None}]
               /\ att' \in Attempt
    BY <1>1, NoAttemptType DEF LoseMemory, TypeOK
  <1>2. CASE Crash
    <2>1. proc' \in [Pids -> Namespaces \cup {Free, Host}]
      BY <1>2, KillType DEF Crash
    <2>2. bounds' \in [edits : Nat, crashes : Nat, deaths : Nat]
      BY <1>2 DEF Crash, TypeOK
    <2> QED
      BY <1>1, <1>2, <2>1, <2>2 DEF Crash, LoseMemory, TypeOK, kernel
  <1>3. CASE Reboot
    <2>1. proc' \in [Pids -> Namespaces \cup {Free, Host}]
      BY <1>3 DEF Reboot
    <2>2. bounds' \in [edits : Nat, crashes : Nat, deaths : Nat]
      BY <1>3 DEF Reboot, TypeOK
    <2> QED
      BY <1>1, <1>3, <2>1, <2>2 DEF Reboot, LoseMemory, TypeOK
  <1>4. ASSUME NEW p \in Pids, ProcessDies(p)
        PROVE  TypeOK'
    <2>1. proc' \in [Pids -> Namespaces \cup {Free, Host}]
      BY <1>4, KillType DEF ProcessDies
    <2>2. bounds' \in [edits : Nat, crashes : Nat, deaths : Nat]
      BY <1>4 DEF ProcessDies, TypeOK
    <2> QED
      BY <1>4, <2>1, <2>2 DEF ProcessDies, TypeOK, kernel, locals
  <1> QED
    BY <1>2, <1>3, <1>4 DEF Environment

\* Typing: every variable of the daemon keeps its type in every reachable state,
\* whatever the lines, nodes, addresses and bounds are.
THEOREM TypeCorrect == Spec => []TypeOK
  <1>1. TypeOK /\ [Next]_vars => TypeOK'
    <2> SUFFICES ASSUME TypeOK, [Next]_vars PROVE TypeOK'
      OBVIOUS
    <2>1. CASE Daemon
      <3>1. ASSUME NEW c \in Lines, HandleLine(c) PROVE TypeOK'
        BY <3>1, HoldForTestType, KeepLineType, TolerateFailureType,
           BeginReconnectType DEF HandleLine
      <3>2. ASSUME NEW c \in Lines, ConnectLine(c) PROVE TypeOK'
        BY <3>2, PrepareType, StartProcessType, CandidateFailsType, ConnectType,
           GiveUpType DEF ConnectLine
      <3> QED
        BY <2>1, <3>1, <3>2, PassType, RemoveLineType DEF Daemon
    <2>2. CASE UNCHANGED vars
      BY <2>2 DEF vars, TypeOK
    <2> QED
      BY <2>1, <2>2, DashboardType, EnvironmentType DEF Next
  <1> QED
    BY <1>1, InitType, PTL DEF Spec

-----------------------------------------------------------------------------
(* Fail closed.                                                              *)

\* No two lines share a namespace name.
OwnNamespace == \A c, d \in Lines : NsOf[c] = NsOf[d] => c = d

\* What Kill leaves running was running before and was not to be stopped.
LEMMA KillStops ==
    ASSUME NEW S, Kill(S), NEW c \in Lines
    PROVE  NsProcesses(c)' = NsProcesses(c) \ S
  <1>1. NsOf[c] # Free
    OBVIOUS
  <1> QED
    BY <1>1 DEF Kill, NsProcesses

\* A process that starts in the namespace of c adds nothing to another line's.
LEMMA StartAddsNothing ==
    ASSUME OwnNamespace, TypeOK, NEW c \in Lines, NEW d \in Lines, d # c,
           NEW p \in FreshPids, proc' = [proc EXCEPT ![p] = NsOf[c]]
    PROVE  NsProcesses(d)' = NsProcesses(d)
  <1>1. NsOf[d] # NsOf[c] /\ NsOf[d] # Free
    BY DEF OwnNamespace
  <1>2. p \in Pids /\ proc[p] = Free
    BY DEF FreshPids
  <1> QED
    BY <1>1, <1>2 DEF NsProcesses, TypeOK

\* Fail-closed survives when a step stops everything of the line it closes and
\* adds no process to a line that is not under an attempt.
LEMMA OthersFailClosed ==
    ASSUME FailClosed, NEW c \in Lines, NEW d \in Lines, d # c,
           mem'[d] = mem[d], ~Attempted(d), NsProcesses(d)' \subseteq NsProcesses(d),
           ~Connected(mem, d)'
    PROVE  NsProcesses(d)' = {}
  BY DEF FailClosed, Connected

LEMMA HandleFailClosed ==
    ASSUME TypeOK, FailClosed, NEW c \in Lines, RemoveLine(c) \/ HandleLine(c)
    PROVE  FailClosed'
  <1>1. pc \in {"remove", "handle"}
    BY DEF RemoveLine, HandleLine, HoldForTest, KeepLine, TolerateFailure,
           BeginReconnect
  <1>2. ASSUME NEW d \in Lines, d # c, ~Connected(mem, d)'
        PROVE  NsProcesses(d)' = {}
    <2>1. ~Attempted(d)
      BY <1>1 DEF Attempted
    <2>2. mem'[d] = mem[d]
      BY <1>2, HoldForTestRecord, BeginReconnectRecord, KeepLineRecord,
         TolerateFailureRecord DEF RemoveLine, HandleLine, TypeOK
    <2>3. NsProcesses(d)' \subseteq NsProcesses(d)
      BY KillStops DEF RemoveLine, HandleLine, HoldForTest, KeepLine,
         TolerateFailure, BeginReconnect, NsProcesses
    <2> QED
      BY <1>2, <2>1, <2>2, <2>3, OthersFailClosed
  <1>3. ASSUME ~Connected(mem, c)'
        PROVE  NsProcesses(c)' = {}
    <2>1. CASE RemoveLine(c) \/ HoldForTest(c) \/ BeginReconnect(c)
      BY <2>1, KillStops DEF RemoveLine, HoldForTest, BeginReconnect, Stopped
    <2>2. CASE KeepLine(c) \/ TolerateFailure(c)
      <3>1. \E r, ip, new : Kept(r, new, ip) /\ mem'[c] = new
        BY <2>2, KeepLineRecord, TolerateFailureRecord DEF TypeOK
      <3> QED
        BY <1>3, <3>1 DEF Connected, Kept
    <2> QED
      BY <2>1, <2>2 DEF HandleLine
  <1> QED
    BY <1>2, <1>3 DEF FailClosed

LEMMA ConnectFailClosed ==
    ASSUME OwnNamespace, TypeOK, FailClosed, NEW c \in Lines, ConnectLine(c)
    PROVE  FailClosed'
  <1>1. cur = c
    BY DEF ConnectLine, PrepareNamespace, NamespaceFails, StartTunnel, StartProxy,
           CandidateFails, Connect, GiveUp
  <1>2. ASSUME NEW d \in Lines, d # c, ~Connected(mem, d)'
        PROVE  NsProcesses(d)' = {}
    <2>1. ~Attempted(d)
      BY <1>1, <1>2 DEF Attempted
    <2>2. mem'[d] = mem[d]
      <3>1. CASE Connect(c)
        <4>1. \E new : mem' = [mem EXCEPT ![c] = new]
          BY <3>1, ConnectRecord
        <4> QED
          BY <1>2, <4>1 DEF TypeOK
      <3>2. CASE GiveUp(c)
        BY <1>2, <3>2, GiveUpRecord DEF TypeOK
      <3>3. CASE mem' = mem
        BY <3>3
      <3> QED
        BY <3>1, <3>2, <3>3 DEF ConnectLine, PrepareNamespace, NamespaceFails,
           StartTunnel, StartProxy, CandidateFails
    <2>3. NsProcesses(d)' \subseteq NsProcesses(d)
      <3>1. CASE StartTunnel(c) \/ StartProxy(c)
        BY <1>2, <3>1, StartAddsNothing DEF StartTunnel, StartProxy
      <3>2. CASE PrepareNamespace(c) \/ CandidateFails(c) \/ GiveUp(c)
        BY <3>2, KillStops DEF PrepareNamespace, CandidateFails, GiveUp
      <3>3. CASE NamespaceFails(c) \/ Connect(c)
        BY <3>3 DEF NamespaceFails, Connect, NsProcesses
      <3> QED
        BY <3>1, <3>2, <3>3 DEF ConnectLine
    <2> QED
      BY <1>2, <2>1, <2>2, <2>3, OthersFailClosed
  <1>3. ASSUME ~Connected(mem, c)', ~Attempted(c)'
        PROVE  NsProcesses(c)' = {}
    <2>1. CASE PrepareNamespace(c) \/ CandidateFails(c) \/ GiveUp(c)
      BY <2>1, KillStops DEF PrepareNamespace, CandidateFails, GiveUp, NsProcesses
    <2>2. CASE StartTunnel(c) \/ StartProxy(c)
      BY <1>3, <2>2 DEF StartTunnel, StartProxy, Attempted
    <2>3. CASE NamespaceFails(c)
      BY <1>3, <2>3 DEF NamespaceFails, FailClosed, Attempted, Connected, NsProcesses
    <2>4. CASE Connect(c)
      <3>1. PICK ip : /\ ConnectedRecord(c, ip) \in Runtime
                      /\ mem' = [mem EXCEPT ![c] = ConnectedRecord(c, ip)]
        BY <2>4, ConnectRecord
      <3>2. ConnectedRecord(c, ip).status = "connected"
        BY DEF ConnectedRecord
      <3>3. mem'[c] \in Runtime /\ mem'[c].status = "connected"
        BY <3>1, <3>2 DEF TypeOK
      <3> QED
        BY <1>3, <3>1, <3>3 DEF Connected
    <2> QED
      BY <2>1, <2>2, <2>3, <2>4 DEF ConnectLine
  <1> QED
    BY <1>2, <1>3 DEF FailClosed

LEMMA StopFailClosed ==
    ASSUME TypeOK, FailClosed, Environment
    PROVE  FailClosed'
  <1>1. CASE Crash
    <2>1. ASSUME NEW c \in Lines PROVE NsProcesses(c)' = {}
      BY <1>1, <2>1, KillStops DEF Crash, NsProcesses
    <2> QED
      BY <2>1 DEF FailClosed
  <1>2. CASE Reboot
    <2>1. ASSUME NEW c \in Lines PROVE NsProcesses(c)' = {}
      BY <1>2 DEF Reboot, NsProcesses
    <2> QED
      BY <2>1 DEF FailClosed
  <1>3. ASSUME NEW p \in Pids, ProcessDies(p)
        PROVE  FailClosed'
    <2>1. ASSUME NEW c \in Lines PROVE NsProcesses(c)' \subseteq NsProcesses(c)
      BY <1>3, <2>1, KillStops DEF ProcessDies
    <2> QED
      BY <1>3, <2>1 DEF ProcessDies, locals, FailClosed, Attempted, Connected
  <1> QED
    BY <1>1, <1>2, <1>3 DEF Environment

\* Fail closed, for every number of lines that do not share a namespace name:
\* outside the verification of a candidate nothing runs for a line that is not
\* connected, whatever crashes, reboots, deaths and edits come between.
THEOREM FailClosedCorrect ==
    ASSUME OwnNamespace
    PROVE  Spec => []FailClosed
  <1>1. Init => FailClosed
    BY DEF Init, FailClosed, NsProcesses
  <1>2. TypeOK /\ FailClosed /\ [Next]_vars => FailClosed'
    <2> SUFFICES ASSUME TypeOK, FailClosed, [Next]_vars PROVE FailClosed'
      OBVIOUS
    <2>1. CASE \E c \in Lines : RemoveLine(c) \/ HandleLine(c) \/ ConnectLine(c)
      BY <2>1, HandleFailClosed, ConnectFailClosed
    <2>2. CASE LoadConfig \/ Probe \/ EndPass \/ Wake \/ Start
      BY <2>2 DEF LoadConfig, Probe, EndPass, Wake, Start, locals, FailClosed,
         Attempted, Connected, NsProcesses
    <2>3. CASE Dashboard
      BY <2>3 DEF Dashboard, CreateLine, EditLine, ReleaseLine, DeleteLine, Edit,
         locals, FailClosed, Attempted, Connected, NsProcesses
    <2>4. CASE UNCHANGED vars
      BY <2>4 DEF vars, FailClosed, Attempted, Connected, NsProcesses
    <2> QED
      BY <2>1, <2>2, <2>3, <2>4, StopFailClosed DEF Next, Daemon
  <1> QED
    BY <1>1, <1>2, TypeCorrect, PTL DEF Spec

-----------------------------------------------------------------------------
(* Country lock.                                                             *)

\* The strengthening: a record that is not connected names no tunnel process, so
\* only a connected record can be kept up.
RecordLocked(r) ==
    r # Absent => IF r.status = "connected" THEN r.exit \in LocalIPs ELSE r.vpn = None
RecordsLocked == \A c \in Lines : RecordLocked(mem[c]) /\ RecordLocked(disk[c])

LEMMA RecordsLockedStep ==
    ASSUME TypeOK, RecordsLocked, [Next]_vars
    PROVE  RecordsLocked'
  <1>1. ASSUME NEW c \in Lines, NEW new, RecordLocked(new),
               mem' = [mem EXCEPT ![c] = new], disk' \in {disk, mem'}
        PROVE  RecordsLocked'
    BY <1>1 DEF RecordsLocked, TypeOK
  <1>2. \A new : Closed(new) => RecordLocked(new)
    BY DEF Closed, RecordLocked
  <1>3. ASSUME NEW c \in Lines, RemoveLine(c)
        PROVE  RecordsLocked'
    BY <1>1, <1>3 DEF RemoveLine, RecordLocked
  <1>4. ASSUME NEW c \in Lines, HoldForTest(c) \/ BeginReconnect(c) \/ GiveUp(c)
        PROVE  RecordsLocked'
    <2>1. disk' \in {disk, mem'}
      BY <1>4 DEF HoldForTest, BeginReconnect, GiveUp
    <2>2. CASE mem' = mem
      BY <2>1, <2>2 DEF RecordsLocked
    <2>3. CASE \E new : Closed(new) /\ mem' = [mem EXCEPT ![c] = new]
      BY <1>1, <1>2, <2>1, <2>3
    <2> QED
      BY <1>4, <2>2, <2>3, HoldForTestRecord, BeginReconnectRecord, GiveUpRecord
  <1>5. ASSUME NEW c \in Lines, KeepLine(c) \/ TolerateFailure(c)
        PROVE  RecordsLocked'
    <2> DEFINE r == RuntimeOf(c)
    <2>1. r.vpn \in Pids
      BY <1>5 DEF KeepLine, TolerateFailure, Fit, Alive, ProcessAlive
    <2>2. r = mem[c] /\ mem[c] # Absent
      BY <2>1 DEF RuntimeOf, NewRuntime
    <2>3. r.exit \in LocalIPs
      BY <2>1, <2>2 DEF RecordsLocked, RecordLocked
    <2>4. \A new : \A ip \in LocalIPs : Kept(r, new, ip) => RecordLocked(new)
      BY DEF Kept, RecordLocked
    <2>5. \E new : RecordLocked(new) /\ mem' = [mem EXCEPT ![c] = new]
      <3>1. CASE KeepLine(c)
        <4>1. health[c] \in LocalIPs
          BY <2>3, <3>1 DEF KeepLine, CountryHolds
        <4>2. PICK new : Kept(r, new, health[c]) /\ mem' = [mem EXCEPT ![c] = new]
          BY <3>1, KeepLineRecord
        <4>3. RecordLocked(new)
          BY <2>4, <4>1, <4>2
        <4> QED
          BY <4>2, <4>3
      <3>2. CASE TolerateFailure(c)
        <4>1. PICK new : Kept(r, new, r.exit) /\ mem' = [mem EXCEPT ![c] = new]
          BY <3>2, TolerateFailureRecord
        <4>2. RecordLocked(new)
          BY <2>3, <2>4, <4>1
        <4> QED
          BY <4>1, <4>2
      <3> QED
        BY <1>5, <3>1, <3>2
    <2>6. disk' = disk
      BY <1>5 DEF KeepLine, TolerateFailure
    <2> QED
      BY <1>1, <2>5, <2>6
  <1>6. ASSUME NEW c \in Lines, Connect(c)
        PROVE  RecordsLocked'
    <2>1. PICK ip \in LocalIPs : mem' = [mem EXCEPT ![c] = ConnectedRecord(c, ip)]
      BY <1>6, ConnectRecord
    <2>2. RecordLocked(ConnectedRecord(c, ip))
      BY DEF RecordLocked, ConnectedRecord
    <2>3. disk' = disk
      BY <1>6 DEF Connect
    <2> QED
      BY <1>1, <2>1, <2>2, <2>3
  <1>7. CASE mem' \in {mem, disk} /\ disk' \in {mem, disk}
    BY <1>7 DEF RecordsLocked
  <1>8. CASE \E c \in Lines : PrepareNamespace(c) \/ NamespaceFails(c) \/ StartTunnel(c)
                               \/ StartProxy(c) \/ CandidateFails(c)
    BY <1>7, <1>8 DEF PrepareNamespace, NamespaceFails, StartTunnel, StartProxy,
       CandidateFails
  <1>9. CASE LoadConfig \/ Probe \/ EndPass \/ Wake \/ Start
    BY <1>7, <1>9 DEF LoadConfig, Probe, EndPass, Wake, Start
  <1>10. CASE Dashboard
    BY <1>7, <1>10 DEF Dashboard, CreateLine, EditLine, ReleaseLine, DeleteLine, Edit
  <1>11. CASE Environment
    BY <1>7, <1>11 DEF Environment, Crash, Reboot, ProcessDies, LoseMemory
  <1>12. CASE UNCHANGED vars
    BY <1>7, <1>12 DEF vars
  <1> QED
    BY <1>3, <1>4, <1>5, <1>6, <1>8, <1>9, <1>10, <1>11, <1>12
    DEF Next, Daemon, HandleLine, ConnectLine

\* Country lock, in memory and in the state file: the address a connected line
\* shows is one of its country, also after the address changed behind the tunnel
\* and after a restart from the file.
THEOREM CountryLockCorrect == Spec => []CountryLock
  <1>1. Init => RecordsLocked
    BY DEF Init, RecordsLocked, RecordLocked
  <1>2. RecordsLocked => CountryLock
    BY DEF RecordsLocked, RecordLocked, CountryLock, Connected
  <1> QED
    BY <1>1, <1>2, RecordsLockedStep, TypeCorrect, PTL DEF Spec

-----------------------------------------------------------------------------
(* Isolation.                                                                *)

\* A recorded process is gone or runs in the namespace of its line.
Holds(r, c) ==
    r # Absent => \A p \in Pids \cap {r.vpn, r.proxy} : proc[p] \in {Free, NsOf[c]}

RecordsOwned == \A c \in Lines : Holds(mem[c], c) /\ Holds(disk[c], c)
AttemptOwned == \A p \in Pids \cap {att.vpn, att.proxy} :
                    cur # None /\ proc[p] \in {Free, NsOf[cur]}
PidsOwned == RecordsOwned /\ AttemptOwned

\* The line under reconnection is not connected, and nothing else is handled
\* meanwhile.
CurIdle == cur # None => /\ pc \in {"prepare", "try", "tunnel", "verify"}
                         /\ ~Connected(mem, cur)

IsolationInv == PidsOwned /\ CurIdle

\* A step that only ends processes leaves recorded ones owned.
LEMMA HoldsShrink ==
    ASSUME NEW c \in Lines, NEW r, Holds(r, c),
           \A p \in Pids : proc'[p] \in {proc[p], Free}
    PROVE  r # Absent => \A p \in Pids \cap {r.vpn, r.proxy} : proc'[p] \in {Free, NsOf[c]}
  BY DEF Holds

LEMMA KillShrinks ==
    ASSUME NEW S, Kill(S)
    PROVE  \A p \in Pids : proc'[p] \in {proc[p], Free}
  BY DEF Kill

\* Without the reuse of pids a new process takes none that a record names.
LEMMA FreshIsUnrecorded ==
    ASSUME ~PidReuse, NEW p \in FreshPids, NEW c \in Lines
    PROVE  /\ p \in Pids /\ proc[p] = Free
           /\ mem[c] # Absent => p \notin {mem[c].vpn, mem[c].proxy}
           /\ disk[c] # Absent => p \notin {disk[c].vpn, disk[c].proxy}
  BY DEF FreshPids, Recorded

LEMMA RecordsOwnedStep ==
    ASSUME ~PidReuse, TypeOK, IsolationInv, [Next]_vars
    PROVE  RecordsOwned'
  <1> USE DEF IsolationInv, PidsOwned
  <1> DEFINE Shrinks == \A p \in Pids : proc'[p] \in {proc[p], Free}
             Fits(r, c) == r # Absent =>
                 \A p \in Pids \cap {r.vpn, r.proxy} : proc'[p] \in {Free, NsOf[c]}
  <1>1. ASSUME Shrinks, NEW c \in Lines, NEW new, Fits(new, c),
               mem' = [mem EXCEPT ![c] = new], disk' \in {disk, mem'}
        PROVE  RecordsOwned'
    <2>1. ASSUME NEW d \in Lines PROVE Fits(mem'[d], d) /\ Fits(disk[d], d)
      BY <1>1, <2>1, HoldsShrink DEF RecordsOwned, TypeOK
    <2> QED
      BY <1>1, <2>1 DEF RecordsOwned, Holds
  <1>2. ASSUME Shrinks, mem' \in {mem, disk}, disk' \in {mem, disk}
        PROVE  RecordsOwned'
    BY <1>2, HoldsShrink DEF RecordsOwned, Holds
  <1>3. \A c \in Lines : \A new : Closed(new) => Fits(new, c)
    BY DEF Closed
  <1>4. ASSUME NEW c \in Lines, RemoveLine(c)
        PROVE  RecordsOwned'
    BY <1>1, <1>4, KillShrinks DEF RemoveLine
  <1>5. ASSUME NEW c \in Lines, HoldForTest(c) \/ BeginReconnect(c) \/ GiveUp(c)
        PROVE  RecordsOwned'
    <2>1. disk' \in {disk, mem'} /\ Shrinks
      BY <1>5, KillShrinks DEF HoldForTest, BeginReconnect, GiveUp
    <2>2. CASE mem' = mem
      BY <1>2, <2>1, <2>2
    <2>3. CASE \E new : Closed(new) /\ mem' = [mem EXCEPT ![c] = new]
      BY <1>1, <1>3, <2>1, <2>3
    <2> QED
      BY <1>5, <2>2, <2>3, HoldForTestRecord, BeginReconnectRecord, GiveUpRecord
  <1>6. ASSUME NEW c \in Lines, KeepLine(c) \/ TolerateFailure(c)
        PROVE  RecordsOwned'
    <2>1. PICK new, ip : /\ Kept(RuntimeOf(c), new, ip)
                        /\ mem' = [mem EXCEPT ![c] = new]
      BY <1>6, KeepLineRecord, TolerateFailureRecord
    <2>2. disk' = disk /\ proc' = proc
      BY <1>6 DEF KeepLine, TolerateFailure
    <2>3. Fits(new, c)
      BY <2>1, <2>2 DEF Kept, RuntimeOf, NewRuntime, RecordsOwned, Holds
    <2> QED
      BY <1>1, <2>1, <2>2, <2>3
  <1>7. ASSUME NEW c \in Lines, Connect(c)
        PROVE  RecordsOwned'
    <2>1. PICK ip : mem' = [mem EXCEPT ![c] = ConnectedRecord(c, ip)]
      BY <1>7, ConnectRecord
    <2>2. disk' = disk /\ proc' = proc /\ cur = c
      BY <1>7 DEF Connect
    <2>3. Fits(ConnectedRecord(c, ip), c)
      BY <2>2 DEF ConnectedRecord, AttemptOwned
    <2> QED
      BY <1>1, <2>1, <2>2, <2>3
  <1>8. ASSUME NEW c \in Lines, StartTunnel(c) \/ StartProxy(c)
        PROVE  RecordsOwned'
    <2>1. PICK p \in FreshPids : proc' = [proc EXCEPT ![p] = NsOf[c]]
      BY <1>8 DEF StartTunnel, StartProxy
    <2>2. mem' = mem /\ disk' = disk
      BY <1>8 DEF StartTunnel, StartProxy
    <2>3. \A q \in Pids : q # p => proc'[q] = proc[q]
      BY <2>1
    <2>4. ASSUME NEW d \in Lines PROVE Fits(mem[d], d) /\ Fits(disk[d], d)
      BY <2>1, <2>3, FreshIsUnrecorded DEF RecordsOwned, Holds
    <2> QED
      BY <2>2, <2>4 DEF RecordsOwned, Holds
  <1>9. CASE \E c \in Lines : PrepareNamespace(c) \/ NamespaceFails(c) \/ CandidateFails(c)
    BY <1>2, <1>9, KillShrinks DEF PrepareNamespace, NamespaceFails, CandidateFails
  <1>10. CASE LoadConfig \/ Probe \/ EndPass \/ Wake \/ Start
    BY <1>2, <1>10 DEF LoadConfig, Probe, EndPass, Wake, Start
  <1>11. CASE Dashboard
    BY <1>2, <1>11 DEF Dashboard, CreateLine, EditLine, ReleaseLine, DeleteLine, Edit
  <1>12. CASE Environment
    <2>1. Shrinks
      BY <1>12, KillShrinks DEF Environment, Crash, Reboot, ProcessDies
    <2> QED
      BY <1>2, <1>12, <2>1 DEF Environment, Crash, Reboot, ProcessDies, LoseMemory
  <1>13. CASE UNCHANGED vars
    BY <1>2, <1>13 DEF vars
  <1> QED
    BY <1>4, <1>5, <1>6, <1>7, <1>8, <1>9, <1>10, <1>11, <1>12, <1>13
    DEF Next, Daemon, HandleLine, ConnectLine

LEMMA AttemptOwnedStep ==
    ASSUME TypeOK, IsolationInv, [Next]_vars
    PROVE  AttemptOwned'
  <1> USE DEF IsolationInv, PidsOwned
  <1>1. CASE att' = NoAttempt
    BY <1>1 DEF AttemptOwned, NoAttempt
  <1>2. CASE att' = att /\ cur' = cur /\ \A p \in Pids : proc'[p] \in {proc[p], Free}
    BY <1>2 DEF AttemptOwned
  <1>3. ASSUME NEW c \in Lines, StartTunnel(c)
        PROVE  AttemptOwned'
    <2>1. PICK n \in Nodes, p \in Pids :
             /\ att' = [att EXCEPT !.node = n, !.vpn = p, !.cands = @ \ {n}]
             /\ proc' = [proc EXCEPT ![p] = NsOf[c]]
             /\ cur = c /\ cur' = cur
      BY <1>3 DEF StartTunnel, FreshPids, TypeOK, Attempt
    <2>2. att'.vpn = p /\ att'.proxy = att.proxy
      BY <2>1 DEF TypeOK, Attempt
    <2>3. \A q \in Pids : proc'[q] \in {proc[q], NsOf[c]} /\ proc'[p] = NsOf[c]
      BY <2>1 DEF TypeOK
    <2>4. c # None
      OBVIOUS
    <2> QED
      BY <2>1, <2>2, <2>3, <2>4 DEF AttemptOwned
  <1>4. ASSUME NEW c \in Lines, StartProxy(c)
        PROVE  AttemptOwned'
    <2>1. PICK p \in Pids :
             /\ att' = [att EXCEPT !.proxy = p]
             /\ proc' = [proc EXCEPT ![p] = NsOf[c]]
             /\ cur = c /\ cur' = cur
      BY <1>4 DEF StartProxy, FreshPids
    <2>2. att'.vpn = att.vpn /\ att'.proxy = p
      BY <2>1 DEF TypeOK, Attempt
    <2>3. \A q \in Pids : proc'[q] \in {proc[q], NsOf[c]} /\ proc'[p] = NsOf[c]
      BY <2>1 DEF TypeOK
    <2>4. c # None
      OBVIOUS
    <2> QED
      BY <2>1, <2>2, <2>3, <2>4 DEF AttemptOwned
  <1>5. ASSUME NEW c \in Lines, PrepareNamespace(c) \/ CandidateFails(c)
        PROVE  AttemptOwned'
    <2>1. \E S : att' = [NoAttempt EXCEPT !.cands = S]
      BY <1>5 DEF PrepareNamespace, CandidateFails
    <2> QED
      BY <2>1 DEF AttemptOwned, NoAttempt
  <1>6. CASE \E c \in Lines : BeginReconnect(c) \/ Connect(c) \/ GiveUp(c)
    BY <1>1, <1>6 DEF BeginReconnect, Connect, GiveUp
  <1>7. CASE \E c \in Lines : RemoveLine(c) \/ HoldForTest(c) \/ KeepLine(c)
                               \/ TolerateFailure(c) \/ NamespaceFails(c)
    BY <1>2, <1>7, KillShrinks DEF RemoveLine, HoldForTest, KeepLine,
       TolerateFailure, NamespaceFails, locals
  <1>8. CASE LoadConfig \/ Probe \/ EndPass \/ Wake \/ Start
    BY <1>2, <1>8 DEF LoadConfig, Probe, EndPass, Wake, Start, locals
  <1>9. CASE Dashboard
    BY <1>2, <1>9 DEF Dashboard, CreateLine, EditLine, ReleaseLine, DeleteLine, Edit, locals
  <1>10. CASE Environment
    <2>1. CASE Crash \/ Reboot
      BY <1>1, <2>1 DEF Crash, Reboot, LoseMemory
    <2>2. CASE \E p \in Pids : ProcessDies(p)
      BY <1>2, <2>2, KillShrinks DEF ProcessDies, locals
    <2> QED
      BY <1>10, <2>1, <2>2 DEF Environment
  <1>11. CASE UNCHANGED vars
    BY <1>2, <1>11 DEF vars
  <1> QED
    BY <1>3, <1>4, <1>5, <1>6, <1>7, <1>8, <1>9, <1>10, <1>11
    DEF Next, Daemon, HandleLine, ConnectLine

LEMMA CurIdleStep ==
    ASSUME TypeOK, CurIdle, [Next]_vars
    PROVE  CurIdle'
  <1>1. CASE cur' = None
    BY <1>1 DEF CurIdle
  <1>2. CASE cur' = cur /\ mem' = mem
             /\ (pc' = pc \/ pc' \in {"prepare", "try", "tunnel", "verify"})
    BY <1>2 DEF CurIdle, Connected
  <1>3. CASE cur' = cur /\ pc \notin {"prepare", "try", "tunnel", "verify"}
    BY <1>1, <1>3 DEF CurIdle
  <1>4. ASSUME NEW c \in Lines, BeginReconnect(c)
        PROVE  CurIdle'
    <2>1. mem'[c] = Absent \/ Closed(mem'[c])
      BY <1>4, BeginReconnectRecord DEF TypeOK
    <2>2. cur' = c /\ pc' = "prepare"
      BY <1>4 DEF BeginReconnect
    <2> QED
      BY <2>1, <2>2 DEF CurIdle, Connected, Closed
  <1>5. ASSUME NEW c \in Lines, RemoveLine(c) \/ HoldForTest(c) \/ KeepLine(c)
                               \/ TolerateFailure(c)
        PROVE  CurIdle'
    BY <1>3, <1>5 DEF RemoveLine, HoldForTest, KeepLine, TolerateFailure, locals
  <1>6. ASSUME NEW c \in Lines, ConnectLine(c)
        PROVE  CurIdle'
    BY <1>1, <1>2, <1>6 DEF ConnectLine, PrepareNamespace, NamespaceFails, StartTunnel,
       StartProxy, CandidateFails, Connect, GiveUp, locals
  <1>7. CASE LoadConfig \/ Probe \/ EndPass \/ Wake \/ Start
    BY <1>3, <1>7 DEF LoadConfig, Probe, EndPass, Wake, Start, locals
  <1>8. CASE Dashboard
    BY <1>2, <1>8 DEF Dashboard, CreateLine, EditLine, ReleaseLine, DeleteLine, Edit, locals
  <1>9. CASE Environment
    BY <1>1, <1>2, <1>9 DEF Environment, Crash, Reboot, LoseMemory, ProcessDies, locals
  <1>10. CASE UNCHANGED vars
    BY <1>2, <1>10 DEF vars
  <1> QED
    BY <1>4, <1>5, <1>6, <1>7, <1>8, <1>9, <1>10 DEF Next, Daemon, HandleLine

LEMMA IsolationInvariant ==
    ASSUME ~PidReuse
    PROVE  Spec => []IsolationInv
  <1>1. Init => IsolationInv
    BY DEF Init, IsolationInv, PidsOwned, RecordsOwned, AttemptOwned, Holds, CurIdle,
       NoAttempt
  <1>2. TypeOK /\ IsolationInv /\ [Next]_vars => IsolationInv'
    BY RecordsOwnedStep, AttemptOwnedStep, CurIdleStep DEF IsolationInv, PidsOwned
  <1> QED
    BY <1>1, <1>2, TypeCorrect, PTL DEF Spec

\* What is stopped for one line does not run for another.
LEMMA StoppedApart ==
    ASSUME OwnNamespace, TypeOK, IsolationInv, NEW c \in Lines, NEW d \in Lines, c # d
    PROVE  /\ NsProcesses(c) \cap Stopped(d, RuntimeOf(d)) = {}
           /\ NsProcesses(c) \cap NsProcesses(d) = {}
           /\ cur = d => NsProcesses(c) \cap {att.vpn} = {}
  <1>1. NsOf[c] # NsOf[d] /\ NsOf[c] # Free
    BY DEF OwnNamespace
  <1>2. \A p \in Pids \cap {RuntimeOf(d).vpn, RuntimeOf(d).proxy} : proc[p] # NsOf[c]
    BY <1>1 DEF IsolationInv, PidsOwned, RecordsOwned, Holds, RuntimeOf, NewRuntime
  <1>3. cur = d => (att.vpn \in Pids => proc[att.vpn] # NsOf[c])
    BY <1>1 DEF IsolationInv, PidsOwned, AttemptOwned
  <1> QED
    BY <1>1, <1>2, <1>3 DEF Stopped, NsProcesses

LEMMA DaemonIsolates ==
    ASSUME OwnNamespace, TypeOK, IsolationInv, Daemon, NEW c \in Lines,
           Connected(mem, c), mem'[c] = mem[c]
    PROVE  NsProcesses(c) \subseteq NsProcesses(c)'
  <1>1. CASE proc' = proc
    BY <1>1 DEF NsProcesses
  <1>2. ASSUME NEW S, Kill(S), NsProcesses(c) \cap S = {}
        PROVE  NsProcesses(c) \subseteq NsProcesses(c)'
    BY <1>2, KillStops
  <1>3. cur # c
    BY DEF IsolationInv, CurIdle
  <1>4. ASSUME NEW d \in Lines, RemoveLine(d)
        PROVE  NsProcesses(c) \subseteq NsProcesses(c)'
    <2>1. d # c
      BY <1>4 DEF RemoveLine, TypeOK
    <2>2. RuntimeOf(d) = mem[d]
      BY <1>4 DEF RemoveLine, RuntimeOf
    <2> QED
      BY <1>2, <1>4, <2>1, <2>2, StoppedApart DEF RemoveLine
  <1>5. ASSUME NEW d \in Lines, HoldForTest(d) \/ BeginReconnect(d)
        PROVE  NsProcesses(c) \subseteq NsProcesses(c)'
    <2>1. d # c
      <3>1. mem'[d] = Absent \/ Closed(mem'[d])
        BY <1>5, HoldForTestRecord, BeginReconnectRecord DEF TypeOK
      <3> QED
        BY <3>1 DEF Closed, Connected
    <2> QED
      BY <1>2, <1>5, <2>1, StoppedApart DEF HoldForTest, BeginReconnect
  <1>6. ASSUME NEW d \in Lines, PrepareNamespace(d) \/ CandidateFails(d) \/ GiveUp(d)
        PROVE  NsProcesses(c) \subseteq NsProcesses(c)'
    <2>1. cur = d
      BY <1>6 DEF PrepareNamespace, CandidateFails, GiveUp
    <2>2. /\ NsProcesses(c) \cap NsProcesses(d) = {}
          /\ NsProcesses(c) \cap {att.vpn} = {}
      BY <1>3, <2>1, StoppedApart
    <2> QED
      BY <1>2, <1>6, <2>2 DEF PrepareNamespace, CandidateFails, GiveUp
  <1>7. ASSUME NEW d \in Lines, StartTunnel(d) \/ StartProxy(d)
        PROVE  NsProcesses(c) \subseteq NsProcesses(c)'
    <2>1. d # c
      BY <1>3, <1>7 DEF StartTunnel, StartProxy
    <2>2. \E p \in FreshPids : proc' = [proc EXCEPT ![p] = NsOf[d]]
      BY <1>7 DEF StartTunnel, StartProxy
    <2> QED
      BY <2>1, <2>2, StartAddsNothing
  <1>8. CASE \E d \in Lines : KeepLine(d) \/ TolerateFailure(d) \/ NamespaceFails(d)
                               \/ Connect(d)
    BY <1>1, <1>8 DEF KeepLine, TolerateFailure, NamespaceFails, Connect
  <1>9. CASE LoadConfig \/ Probe \/ EndPass \/ Wake \/ Start
    BY <1>1, <1>9 DEF LoadConfig, Probe, EndPass, Wake, Start
  <1> QED
    BY <1>4, <1>5, <1>6, <1>7, <1>8, <1>9 DEF Daemon, HandleLine, ConnectLine

\* Isolation, for every number of lines with a namespace each, as long as no pid
\* is reused while a record names it: whatever the daemon does for one line leaves
\* the processes of the others alone.
THEOREM LinesIsolatedCorrect ==
    ASSUME OwnNamespace, ~PidReuse
    PROVE  Spec => LinesIsolated
  <1>1. TypeOK /\ IsolationInv /\ [Next]_vars =>
            [Daemon => \A c \in Lines :
               Connected(mem, c) /\ mem'[c] = mem[c]
                 => NsProcesses(c) \subseteq NsProcesses(c)']_vars
    BY DaemonIsolates
  <1> QED
    BY <1>1, TypeCorrect, IsolationInvariant, PTL DEF Spec, LinesIsolated

-----------------------------------------------------------------------------
(* The daemon implements LineService: every step of the daemon, of the       *)
(* dashboard and of the environment maps to a step of the service or to none. *)

\* The exit a line shows under the refinement mapping.
shown(c) == IF Serving(c) THEN mem[c].exit ELSE None

\* What a step shows of one line: nothing new, or less.
Fades(c) == /\ Serving(c)' => Serving(c) /\ mem'[c].exit = mem[c].exit
            /\ Attempted(c)' => Attempted(c)

LEMMA AttemptedIsIdle ==
    ASSUME CurIdle, NEW c \in Lines, Attempted(c)
    PROVE  ~Serving(c)
  BY DEF CurIdle, Attempted, Serving

LEMMA IdleSet ==
    \E S \in SUBSET Lines : \A c \in Lines : c \in S <=> Phase(c)' = "idle"
  <1> WITNESS {c \in Lines : Phase(c)' = "idle"} \in SUBSET Lines
  <1> QED
    OBVIOUS

\* A step under which every line fades is a Stop of the lines that became idle.
LEMMA FadeIsStop ==
    ASSUME CurIdle, CurIdle', \A c \in Lines : Fades(c)
    PROVE  Service!Next
  <1>0. PICK S \in SUBSET Lines : \A c \in Lines : c \in S <=> Phase(c)' = "idle"
    BY IdleSet
  <1>1. ASSUME NEW c \in Lines
        PROVE  /\ Phase(c)' = IF c \in S THEN "idle" ELSE Phase(c)
               /\ shown(c)' = IF c \in S THEN None ELSE shown(c)
    BY <1>0, <1>1, AttemptedIsIdle DEF Fades, Phase, shown
  <1>2. Service!Stop(S)
    BY <1>1 DEF Service!Stop, shown
  <1> QED
    BY <1>2 DEF Service!Next

\* A line whose record a step leaves alone, and to which it adds no process, fades
\* unless an attempt for it begins.
LEMMA QuietFades ==
    ASSUME NEW c \in Lines, mem'[c] = mem[c], NsProcesses(c)' \subseteq NsProcesses(c),
           Attempted(c)' => Attempted(c)
    PROVE  Fades(c)
  BY DEF Fades, Serving, Connected

LEMMA UnservedFades ==
    ASSUME NEW c \in Lines, ~Serving(c)', Attempted(c)' => Attempted(c)
    PROVE  Fades(c)
  BY DEF Fades

\* Steps that hold no new process and write at most a closed record.
LEMMA ClosingStep ==
    ASSUME TypeOK, CurIdle, CurIdle', NEW c \in Lines,
           RemoveLine(c) \/ HoldForTest(c) \/ BeginReconnect(c) \/ GiveUp(c)
    PROVE  Service!Next
  <1>1. \A d \in Lines : ~Attempted(d)'
    BY DEF RemoveLine, HoldForTest, BeginReconnect, GiveUp, Attempted
  <1>2. mem'[c] = Absent \/ Closed(mem'[c])
    BY HoldForTestRecord, BeginReconnectRecord, GiveUpRecord DEF RemoveLine, TypeOK
  <1>3. ~Serving(c)'
    BY <1>2 DEF Serving, Connected, Closed
  <1>4. ASSUME NEW d \in Lines, d # c PROVE Fades(d)
    <2>1. mem'[d] = mem[d]
      BY <1>4, HoldForTestRecord, BeginReconnectRecord, GiveUpRecord
      DEF RemoveLine, TypeOK
    <2>2. NsProcesses(d)' \subseteq NsProcesses(d)
      BY KillStops DEF RemoveLine, HoldForTest, BeginReconnect, GiveUp
    <2> QED
      BY <1>1, <2>1, <2>2, QuietFades
  <1> QED
    BY <1>1, <1>3, <1>4, UnservedFades, FadeIsStop

\* Steps that leave the records alone and start no process.
LEMMA QuietStep ==
    ASSUME CurIdle, CurIdle', mem' = mem,
           \A c \in Lines : NsProcesses(c)' \subseteq NsProcesses(c),
           \A c \in Lines : Attempted(c)' => Attempted(c)
    PROVE  Service!Next
  BY QuietFades, FadeIsStop

\* Every connected record that is kept up was connected before.
LEMMA KeptWasConnected ==
    ASSUME TypeOK, RecordsLocked, NEW c \in Lines, KeepLine(c) \/ TolerateFailure(c)
    PROVE  RuntimeOf(c) = mem[c] /\ Connected(mem, c)
  <1>1. RuntimeOf(c).vpn \in Pids
    BY DEF KeepLine, TolerateFailure, Fit, Alive, ProcessAlive
  <1>2. RuntimeOf(c) = mem[c] /\ mem[c] # Absent
    BY <1>1 DEF RuntimeOf, NewRuntime
  <1> QED
    BY <1>1, <1>2 DEF RecordsLocked, RecordLocked, Connected

LEMMA KeepStep ==
    ASSUME TypeOK, RecordsLocked, RecordsLocked', CurIdle, CurIdle', NEW c \in Lines,
           KeepLine(c) \/ TolerateFailure(c)
    PROVE  Service!Next
  <1>1. PICK new, ip : Kept(mem[c], new, ip) /\ mem' = [mem EXCEPT ![c] = new]
    BY KeptWasConnected, KeepLineRecord, TolerateFailureRecord
  <1>2. mem'[c] = new /\ Connected(mem, c) /\ Connected(mem, c)'
    BY <1>1, KeptWasConnected DEF Kept, Connected, TypeOK
  <1>3. /\ \A d \in Lines : NsProcesses(d)' = NsProcesses(d)
        /\ \A d \in Lines : ~Attempted(d) /\ ~Attempted(d)'
    BY DEF KeepLine, TolerateFailure, NsProcesses, Attempted
  <1>4. Serving(c)' <=> Serving(c)
    BY <1>1, <1>2, <1>3 DEF Serving, Kept
  <1>5. ASSUME NEW d \in Lines, d # c
        PROVE  mem'[d] = mem[d] /\ (Serving(d)' <=> Serving(d))
    BY <1>1, <1>3, <1>5 DEF Serving, Connected, TypeOK
  <1>6. mem'[c].exit \in LocalIPs
    BY <1>2 DEF RecordsLocked, RecordLocked, Connected
  <1>7. CASE Serving(c)
    <2>1. \A d \in Lines : Phase(d)' = Phase(d)
      BY <1>3, <1>4, <1>5 DEF Phase
    <2>2. Phase(c) = "serving"
      BY <1>7 DEF Phase
    <2>3. \A d \in Lines : shown(d)' = IF d = c THEN mem'[c].exit ELSE shown(d)
      BY <1>4, <1>5, <1>7 DEF shown
    <2>4. Service!Move(c)
      BY <1>6, <2>1, <2>2, <2>3 DEF Service!Move, shown
    <2> QED
      BY <2>4 DEF Service!Next
  <1>8. CASE ~Serving(c)
    <2>1. \A d \in Lines : Fades(d)
      BY <1>3, <1>4, <1>5, <1>8 DEF Fades
    <2> QED
      BY <2>1, FadeIsStop
  <1> QED
    BY <1>7, <1>8

LEMMA StartTunnelStep ==
    ASSUME OwnNamespace, TypeOK, CurIdle, NEW c \in Lines, StartTunnel(c)
    PROVE  Service!Next
  <1>1. /\ mem' = mem /\ cur = c /\ cur' = c /\ pc = "try" /\ pc' = "tunnel"
        /\ c # None
    BY DEF StartTunnel
  <1>2. /\ \A d \in Lines : ~Attempted(d)
        /\ \A d \in Lines : Attempted(d)' <=> d = c
    BY <1>1 DEF Attempted
  <1>3. ~Serving(c) /\ ~Serving(c)'
    BY <1>1 DEF CurIdle, Serving, Connected
  <1>4. ASSUME NEW d \in Lines, d # c
        PROVE  Serving(d)' <=> Serving(d)
    <2>1. \E p \in FreshPids : proc' = [proc EXCEPT ![p] = NsOf[c]]
      BY DEF StartTunnel
    <2>2. NsProcesses(d)' = NsProcesses(d)
      BY <1>4, <2>1, StartAddsNothing
    <2> QED
      BY <1>1, <2>2 DEF Serving, Connected
  <1>5. /\ \A d \in Lines : Phase(d) # "trying" /\ shown(d)' = shown(d)
        /\ \A d \in Lines : Phase(d)' = IF d = c THEN "trying" ELSE Phase(d)
        /\ Phase(c) = "idle"
    BY <1>1, <1>2, <1>3, <1>4 DEF Phase, shown
  <1>6. Service!Try(c)
    BY <1>5 DEF Service!Try, shown
  <1> QED
    BY <1>6 DEF Service!Next

LEMMA ConnectStep ==
    ASSUME TypeOK, CurIdle, CurIdle', NEW c \in Lines, Connect(c)
    PROVE  Service!Next
  <1>1. PICK ip \in LocalIPs : mem' = [mem EXCEPT ![c] = ConnectedRecord(c, ip)]
    BY ConnectRecord
  <1>2. /\ proc' = proc /\ cur = c /\ cur' = None /\ pc = "verify" /\ c # None
        /\ mem'[c].exit = ip
    BY <1>1 DEF Connect, ConnectedRecord, TypeOK
  <1>3. /\ \A d \in Lines : Attempted(d) <=> d = c
        /\ \A d \in Lines : ~Attempted(d)'
    BY <1>2 DEF Attempted
  <1>4. ~Serving(c)
    BY <1>2 DEF CurIdle, Serving
  <1>5. ASSUME NEW d \in Lines, d # c
        PROVE  mem'[d] = mem[d] /\ (Serving(d)' <=> Serving(d))
    BY <1>1, <1>2, <1>5 DEF Serving, Connected, NsProcesses, TypeOK
  <1>6. CASE Serving(c)'
    <2>1. /\ \A d \in Lines : Phase(d)' = IF d = c THEN "serving" ELSE Phase(d)
          /\ \A d \in Lines : shown(d)' = IF d = c THEN ip ELSE shown(d)
          /\ Phase(c) = "trying"
      BY <1>2, <1>3, <1>4, <1>5, <1>6 DEF Phase, shown
    <2>2. Service!Serve(c)
      BY <2>1 DEF Service!Serve, shown
    <2> QED
      BY <2>2 DEF Service!Next
  <1>7. CASE ~Serving(c)'
    <2>1. \A d \in Lines : Fades(d)
      BY <1>3, <1>5, <1>7 DEF Fades
    <2> QED
      BY <2>1, FadeIsStop
  <1> QED
    BY <1>6, <1>7

\* A process that starts for the line under attempt serves nobody yet.
LEMMA StartProxyStep ==
    ASSUME OwnNamespace, TypeOK, CurIdle, CurIdle', NEW c \in Lines, StartProxy(c)
    PROVE  Service!Next
  <1>1. mem' = mem /\ cur = c /\ cur' = c /\ pc = "tunnel" /\ c # None
    BY DEF StartProxy
  <1>2. ~Serving(c)' /\ (Attempted(c)' => Attempted(c))
    BY <1>1 DEF CurIdle, Serving, Connected, Attempted
  <1>3. ASSUME NEW d \in Lines, d # c
        PROVE  Fades(d)
    <2>1. \E p \in FreshPids : proc' = [proc EXCEPT ![p] = NsOf[c]]
      BY DEF StartProxy
    <2>2. NsProcesses(d)' = NsProcesses(d) /\ ~Attempted(d)'
      BY <1>1, <1>3, <2>1, StartAddsNothing DEF Attempted
    <2> QED
      BY <1>1, <2>2, QuietFades
  <1> QED
    BY <1>2, <1>3, UnservedFades, FadeIsStop

LEMMA StopsStep ==
    ASSUME TypeOK, CurIdle, CurIdle', Environment
    PROVE  Service!Next
  <1>1. CASE Crash \/ Reboot
    <2>1. ASSUME NEW c \in Lines PROVE NsProcesses(c)' = {}
      BY <1>1, <2>1, KillStops DEF Crash, Reboot, NsProcesses
    <2>2. ASSUME NEW c \in Lines PROVE ~Serving(c)' /\ ~Attempted(c)'
      BY <1>1, <2>1 DEF Crash, Reboot, LoseMemory, Serving, Attempted
    <2> QED
      BY <2>2, UnservedFades, FadeIsStop
  <1>2. ASSUME NEW p \in Pids, ProcessDies(p)
        PROVE  Service!Next
    BY <1>2, KillStops, QuietStep DEF ProcessDies, locals, Attempted
  <1> QED
    BY <1>1, <1>2 DEF Environment

LEMMA RefinementStep ==
    ASSUME OwnNamespace, TypeOK, RecordsLocked, RecordsLocked', CurIdle, CurIdle',
           [Next]_vars
    PROVE  Service!Next
  <1>1. ASSUME NEW c \in Lines, HandleLine(c) \/ RemoveLine(c)
        PROVE  Service!Next
    BY <1>1, ClosingStep, KeepStep DEF HandleLine
  <1>2. ASSUME NEW c \in Lines, ConnectLine(c)
        PROVE  Service!Next
    <2>1. CASE PrepareNamespace(c) \/ NamespaceFails(c) \/ CandidateFails(c)
      <3>1. mem' = mem /\ \A d \in Lines : Attempted(d)' => Attempted(d)
        BY <2>1 DEF PrepareNamespace, NamespaceFails, CandidateFails, Attempted
      <3>2. \A d \in Lines : NsProcesses(d)' \subseteq NsProcesses(d)
        BY <2>1, KillStops DEF PrepareNamespace, NamespaceFails, CandidateFails,
           NsProcesses
      <3> QED
        BY <3>1, <3>2, QuietStep
    <2> QED
      BY <1>2, <2>1, StartTunnelStep, StartProxyStep, ConnectStep, ClosingStep
      DEF ConnectLine
  <1>3. CASE LoadConfig \/ Probe \/ EndPass \/ Wake \/ Start
    BY <1>3, QuietStep DEF LoadConfig, Probe, EndPass, Wake, Start, locals,
       Attempted, NsProcesses
  <1>4. CASE Dashboard
    BY <1>4, QuietStep DEF Dashboard, CreateLine, EditLine, ReleaseLine,
       DeleteLine, Edit, locals, Attempted, NsProcesses
  <1>5. CASE UNCHANGED vars
    BY <1>5, QuietStep DEF vars, Attempted, NsProcesses
  <1> QED
    BY <1>1, <1>2, <1>3, <1>4, <1>5, StopsStep DEF Next, Daemon

\* The daemon implements the service: it serves no line without an attempt of its
\* own, attempts one line at a time, and shows only addresses of the country,
\* through every crash, reboot, process death and edit of the configuration.
THEOREM Refinement ==
    ASSUME OwnNamespace, ~PidReuse
    PROVE  Spec => ImplementsService
  <1>1. Init => Service!Init
    <2>1. Init => \A c \in Lines : ~Serving(c) /\ ~Attempted(c)
      BY DEF Init, Serving, Connected, Attempted
    <2> QED
      BY <2>1 DEF Service!Init, Phase
  <1>2. TypeOK /\ RecordsLocked /\ RecordsLocked' /\ CurIdle /\ CurIdle' /\ [Next]_vars
          => Service!Next
    BY RefinementStep
  <1>3. Spec => []RecordsLocked
    <2>1. Init => RecordsLocked
      BY DEF Init, RecordsLocked, RecordLocked
    <2> QED
      BY <2>1, RecordsLockedStep, TypeCorrect, PTL DEF Spec
  <1>4. IsolationInv => CurIdle
    BY DEF IsolationInv
  <1> QED
    BY <1>1, <1>2, <1>3, <1>4, TypeCorrect, IsolationInvariant, PTL
    DEF Spec, ImplementsService, Service!Spec
-----------------------------------------------------------------------------
(* What a pass leaves behind.                                                *)

\* The record of a line agrees with the configuration of the pass.
Settled(c) ==
    IF ~cfg[c].wanted THEN mem[c] = Absent
    ELSE /\ mem[c] # Absent
         /\ IF cfg[c].awaiting THEN mem[c].status = "testing"
            ELSE \/ mem[c].status = "failed"
                 \/ Connected(mem, c) /\ mem[c].sig = cfg[c].sig

\* The lines that a pass has handled are settled, those it has still to handle are
\* wanted, and the one it reconnects has been released.
PassInv ==
    /\ pc \in {"handle", "prepare", "try", "tunnel", "verify", "wait"} =>
         /\ \A c \in Lines \ (todo \cup {cur}) : Settled(c)
         /\ \A c \in todo : cfg[c].wanted
         /\ cur # None => cfg[cur].wanted /\ ~cfg[cur].awaiting
    /\ pc = "wait" => todo = {} /\ disk = mem

LEMMA SettledStays ==
    ASSUME NEW c \in Lines, cfg' = cfg, mem'[c] = mem[c], Settled(c)
    PROVE  Settled(c)'
  BY DEF Settled, Connected

\* A line is handled, and its record agrees with the configuration.
LEMMA HandledPass ==
    ASSUME PassInv, NEW c \in Lines, pc = "handle", pc' = "handle",
           cur = None, cur' = None, cfg' = cfg, todo' = todo \ {c},
           \A d \in Lines \ {c} : mem'[d] = mem[d], Settled(c)'
    PROVE  PassInv'
  <1>1. ASSUME NEW d \in Lines, d \notin todo', d # c PROVE Settled(d)'
    <2>1. d \notin todo /\ d # cur
      BY <1>1
    <2>2. Settled(d)
      BY <2>1 DEF PassInv
    <2> QED
      BY <1>1, <2>2, SettledStays
  <1>2. \A d \in todo' : cfg'[d].wanted
    BY DEF PassInv
  <1> QED
    BY <1>1, <1>2 DEF PassInv

\* An attempt ends, and the record of its line agrees with the configuration.
LEMMA ConnectedPass ==
    ASSUME PassInv, NEW c \in Lines, cur = c, cur' = None,
           pc \in {"try", "verify"}, pc' = "handle", cfg' = cfg, todo' = todo,
           \A d \in Lines \ {c} : mem'[d] = mem[d], Settled(c)'
    PROVE  PassInv'
  <1>1. ASSUME NEW d \in Lines \ todo PROVE Settled(d)'
    <2>1. CASE d = c
      BY <2>1
    <2>2. CASE d # c
      BY <1>1, <2>2, SettledStays DEF PassInv
    <2> QED
      BY <2>1, <2>2
  <1> QED
    BY <1>1 DEF PassInv

\* Steps that write no record and handle no line.
LEMMA QuietPass ==
    ASSUME PassInv, mem' = mem, cfg' = cfg, todo' = todo, cur' = cur,
           pc \in {"handle", "prepare", "try", "tunnel", "verify", "wait"} \/ pc' = pc,
           (pc' = pc /\ disk' = disk) \/ pc' \in {"prepare", "try", "tunnel", "verify"}
    PROVE  PassInv'
  <1>1. ASSUME NEW c \in Lines \ (todo \cup {cur}), Settled(c) PROVE Settled(c)'
    BY <1>1, SettledStays
  <1> QED
    BY <1>1 DEF PassInv

LEMMA HandleLinePass ==
    ASSUME TypeOK, CurIdle, PassInv, NEW c \in Lines, HandleLine(c)
    PROVE  PassInv'
  <1>1. /\ pc = "handle" /\ c \in todo /\ todo' = todo \ {c} /\ cfg' = cfg
        /\ cur = None /\ cfg[c].wanted
    BY DEF HandleLine, HoldForTest, KeepLine, TolerateFailure, BeginReconnect, CurIdle, PassInv
  <1>2. PICK r \in Runtime : r = RuntimeOf(c)
    BY RuntimeOfType
  <1>3. CASE HoldForTest(c)
    <2> DEFINE new == [r EXCEPT !.status = "testing", !.node = None, !.exit = None,
                                !.vpn = None, !.proxy = None]
    <2>1. mem' = [mem EXCEPT ![c] = new] /\ cfg[c].awaiting /\ pc' = pc /\ cur' = cur
      BY <1>2, <1>3 DEF HoldForTest
    <2>2. new \in Runtime /\ new.status = "testing"
      BY DEF Runtime, Status
    <2> HIDE DEF new
    <2>3. mem'[c] = new /\ \A d \in Lines \ {c} : mem'[d] = mem[d]
      BY <2>1 DEF TypeOK
    <2>4. Settled(c)'
      BY <1>1, <2>1, <2>2, <2>3 DEF Settled
    <2> QED
      BY <1>1, <2>1, <2>3, <2>4, HandledPass
  <1>4. CASE KeepLine(c) \/ TolerateFailure(c)
    <2>1. PICK ip, k : mem' = [mem EXCEPT ![c] = [r EXCEPT !.status = "connected",
                                                           !.exit = ip, !.fails = k]]
                       /\ ip \in IPs \cup {None} /\ k \in Nat
      <3>1. CASE KeepLine(c)
        <4>1. mem' = [mem EXCEPT ![c] = [r EXCEPT !.status = "connected",
                                                  !.exit = health[c], !.fails = 0]]
          BY <1>2, <3>1 DEF KeepLine
        <4>2. health[c] \in IPs \cup {None}
          BY DEF TypeOK
        <4> QED
          BY <4>1, <4>2
      <3>2. CASE TolerateFailure(c)
        <4>1. r.fails + 1 \in Nat /\ r.exit \in IPs \cup {None}
          BY DEF Runtime
        <4>2. mem' = [mem EXCEPT ![c] = [r EXCEPT !.status = "connected", !.fails = @ + 1]]
          BY <1>2, <3>2 DEF TolerateFailure
        <4>3. [r EXCEPT !.status = "connected", !.fails = @ + 1]
                = [r EXCEPT !.status = "connected", !.exit = r.exit, !.fails = r.fails + 1]
          BY DEF Runtime
        <4> QED
          BY <4>1, <4>2, <4>3
      <3> QED
        BY <1>4, <3>1, <3>2
    <2> DEFINE new == [r EXCEPT !.status = "connected", !.exit = ip, !.fails = k]
    <2>2. ~cfg[c].awaiting /\ r.sig = cfg[c].sig /\ pc' = pc /\ cur' = cur
      BY <1>2, <1>4 DEF KeepLine, TolerateFailure, Fit
    <2>3. new \in Runtime /\ new.status = "connected" /\ new.sig = r.sig
      BY <2>1 DEF Runtime, Status
    <2>4. mem' = [mem EXCEPT ![c] = new]
      BY <2>1
    <2> HIDE DEF new
    <2>5. mem'[c] = new /\ \A d \in Lines \ {c} : mem'[d] = mem[d]
      BY <2>4 DEF TypeOK
    <2>6. Settled(c)'
      BY <1>1, <2>2, <2>3, <2>5 DEF Settled, Connected
    <2> QED
      BY <1>1, <2>2, <2>5, <2>6, HandledPass
  <1>5. CASE BeginReconnect(c)
    <2>1. /\ cur' = c /\ pc' = "prepare" /\ ~cfg[c].awaiting
          /\ \A d \in Lines \ {c} : mem'[d] = mem[d]
      BY <1>5, BeginReconnectRecord DEF BeginReconnect, TypeOK
    <2>2. ASSUME NEW d \in Lines \ (todo' \cup {cur'}) PROVE Settled(d)'
      <3>1. d # cur /\ d \notin todo /\ d # c
        BY <1>1, <2>1
      <3> QED
        BY <1>1, <2>1, <3>1, SettledStays DEF PassInv
    <2> QED
      BY <1>1, <2>1, <2>2 DEF PassInv
  <1> QED
    BY <1>3, <1>4, <1>5 DEF HandleLine

LEMMA ConnectLinePass ==
    ASSUME TypeOK, CurIdle, PassInv, NEW c \in Lines, ConnectLine(c)
    PROVE  PassInv'
  <1>1. cur = c /\ cfg[c].wanted /\ ~cfg[c].awaiting
    BY DEF ConnectLine, PrepareNamespace, NamespaceFails, StartTunnel, StartProxy,
           CandidateFails, Connect, GiveUp, PassInv
  <1>2. CASE Connect(c)
    <2>1. /\ pc' = "handle" /\ cur' = None /\ cfg' = cfg /\ todo' = todo /\ pc = "verify"
      BY <1>2 DEF Connect
    <2>2. PICK ip \in LocalIPs : /\ ConnectedRecord(c, ip) \in Runtime
                                 /\ mem' = [mem EXCEPT ![c] = ConnectedRecord(c, ip)]
      BY <1>2, ConnectRecord
    <2>3. /\ mem'[c] = ConnectedRecord(c, ip) /\ mem'[c] # Absent
          /\ \A d \in Lines \ {c} : mem'[d] = mem[d]
      BY <2>2 DEF TypeOK
    <2>4. Settled(c)'
      BY <1>1, <2>1, <2>3 DEF Settled, Connected, ConnectedRecord
    <2> QED
      BY <1>1, <2>1, <2>3, <2>4, ConnectedPass
  <1>3. CASE GiveUp(c)
    <2>1. /\ pc' = "handle" /\ cur' = None /\ cfg' = cfg /\ todo' = todo /\ pc = "try"
      BY <1>3 DEF GiveUp
    <2>2. PICK r \in Runtime : r = RuntimeOf(c)
      BY RuntimeOfType
    <2> DEFINE new == [r EXCEPT !.status = "failed", !.exit = None, !.type = None,
                                !.node = None, !.vpn = None, !.proxy = None]
    <2>3. mem' = [mem EXCEPT ![c] = new]
      BY <1>3, <2>2 DEF GiveUp
    <2>4. new \in Runtime /\ new.status = "failed"
      BY DEF Runtime, Status
    <2> HIDE DEF new
    <2>5. mem'[c] = new /\ \A d \in Lines \ {c} : mem'[d] = mem[d]
      BY <2>3 DEF TypeOK
    <2>6. Settled(c)'
      BY <1>1, <2>1, <2>4, <2>5 DEF Settled
    <2> QED
      BY <1>1, <2>1, <2>5, <2>6, ConnectedPass
  <1>4. CASE PrepareNamespace(c) \/ NamespaceFails(c) \/ StartTunnel(c) \/ StartProxy(c)
               \/ CandidateFails(c)
    <2>1. /\ mem' = mem /\ cfg' = cfg /\ todo' = todo /\ cur' = cur
          /\ pc \in {"prepare", "try", "tunnel", "verify"} /\ pc' \in {"try", "tunnel", "verify"}
      BY <1>4 DEF PrepareNamespace, NamespaceFails, StartTunnel, StartProxy, CandidateFails, locals
    <2> QED
      BY <2>1, QuietPass
  <1> QED
    BY <1>2, <1>3, <1>4 DEF ConnectLine

LEMMA PassStep ==
    ASSUME TypeOK, CurIdle, PassInv, [Next]_vars
    PROVE  PassInv'
  <1>1. CASE pc' \in {"load", "remove", "down"}
    BY <1>1 DEF PassInv
  <1>2. CASE Probe
    <2>1. /\ pc = "remove" /\ pc' = "handle" /\ cfg' = cfg /\ mem' = mem /\ cur' = cur
          /\ todo' = {c \in Lines : cfg[c].wanted}
          /\ \A c \in Lines : mem[c] = Absent \/ cfg[c].wanted
      BY <1>2 DEF Probe
    <2>2. cur = None
      BY <2>1 DEF CurIdle
    <2>3. \A c \in Lines \ todo' : Settled(c)'
      BY <2>1 DEF Settled
    <2> QED
      BY <2>1, <2>2, <2>3 DEF PassInv
  <1>3. CASE EndPass
    <2>1. /\ pc = "handle" /\ pc' = "wait" /\ todo = {} /\ todo' = todo /\ disk' = mem
          /\ mem' = mem /\ cfg' = cfg /\ cur' = cur
      BY <1>3 DEF EndPass
    <2>2. \A c \in Lines \ (todo \cup {cur}) : Settled(c) => Settled(c)'
      BY <2>1, SettledStays
    <2> QED
      BY <2>1, <2>2 DEF PassInv
  <1>4. CASE Dashboard \/ (\E p \in Pids : ProcessDies(p)) \/ UNCHANGED vars
    <2>1. mem' = mem /\ cfg' = cfg /\ todo' = todo /\ cur' = cur /\ pc' = pc /\ disk' = disk
      BY <1>4 DEF Dashboard, CreateLine, EditLine, ReleaseLine, DeleteLine, Edit,
                  ProcessDies, vars, locals
    <2> QED
      BY <2>1, QuietPass
  <1>5. CASE LoadConfig \/ Wake \/ Start \/ Crash \/ Reboot \/ \E c \in Lines : RemoveLine(c)
    BY <1>1, <1>5 DEF LoadConfig, Wake, Start, Crash, Reboot, LoseMemory, RemoveLine
  <1> QED
    BY <1>2, <1>3, <1>4, <1>5, HandleLinePass, ConnectLinePass DEF Next, Daemon, Environment

LEMMA PassInvariant == Spec => [](TypeOK /\ CurIdle /\ PassInv)
  <1>1. Init => CurIdle /\ PassInv
    BY DEF Init, CurIdle, PassInv
  <1> QED
    BY <1>1, TypeCorrect, CurIdleStep, PassStep, PTL DEF Spec

\* What the fair daemon's progress rests on: when a pass is over, every line agrees
\* with the configuration that the pass has loaded, and the state file says so.  A
\* line that is not wanted has no record, one that waits is held, and one that was
\* released is connected under its present settings or published as failed.
PassSettles == pc = "wait" => disk = mem /\ \A c \in Lines : Settled(c)

THEOREM PassSettlesCorrect == Spec => []PassSettles
  <1>1. CurIdle /\ PassInv => PassSettles
    BY DEF CurIdle, PassInv, PassSettles
  <1> QED
    BY <1>1, PassInvariant, PTL

\* When a pass is over, nothing runs in the namespace of a line that the pass found
\* deleted, disabled or put back to its first test, if lines have their own.
THEOREM UnwantedSilent ==
    ASSUME OwnNamespace
    PROVE  Spec => [](pc = "wait" => \A c \in Lines :
                          ~cfg[c].wanted \/ cfg[c].awaiting => NsProcesses(c) = {})
  <1>1. FailClosed /\ PassSettles =>
            (pc = "wait" => \A c \in Lines :
                 ~cfg[c].wanted \/ cfg[c].awaiting => NsProcesses(c) = {})
    BY DEF FailClosed, PassSettles, Settled, Connected, Attempted
  <1> QED
    BY <1>1, FailClosedCorrect, PassSettlesCorrect, PTL
=============================================================================
