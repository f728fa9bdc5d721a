----------------------------- MODULE LineStore -----------------------------
(***************************************************************************)
(* The dashboard's requests on channels.json (vpngate_manager.py) and the   *)
(* provisioning of 3x-ui they start (xui_multi_provision.py).               *)
(*                                                                          *)
(* A request reads the whole file, changes its copy and writes the whole    *)
(* copy.  When the inbound of a line changes it then stops x-ui, runs the   *)
(* provisioning script on its database and starts x-ui again; if the script *)
(* fails, the file the request has read is written back.  Requests run in   *)
(* threads of their own.  Deleting a line and the background updates hold   *)
(* multi_config_lock; saving a line, switching its node, the direct         *)
(* protocol and the old batch interface do not.                             *)
(*                                                                          *)
(* A port stands for all that makes an inbound: its protocol and its SOCKS  *)
(* listener are changed, checked and provisioned together with it.  An      *)
(* inbound stands for its route.  Slots are in NetworkSlots.                *)
(***************************************************************************)
EXTENDS Naturals, FiniteSets

CONSTANTS
    Ids, Ports, Pins, Protocols,
    None,
    MaxLines, \* twelve
    Threads,  \* of the dashboard
    Requests, \* bound: how many requests there are
    Ops,      \* the requests that occur
    Faults    \* what may fail: "stop", "transaction", "result", "crash"

ASSUME StoreAssumption ==
    /\ MaxLines \in Nat /\ Requests \in Nat /\ IsFiniteSet(Ids)
    /\ None \notin Threads

VARIABLES
    file, \* channels.json
    db,   \* the database of 3x-ui: the inbound of each line, the direct protocol
    xui,  \* is x-ui running?
    jobs, \* the request each thread handles
    lock, \* the thread in multi_config_lock
    left  \* requests still to come

vars == <<file, db, xui, jobs, lock, left>>

Locked == {"delete", "ready", "wake"}

Line     == [port : Ports, pin : Pins \cup {None}, awaiting : BOOLEAN, enabled : BOOLEAN]
Config   == [lines : [Ids -> Line \cup {None}], direct : Protocols]
Database == [inbounds : [Ids -> Ports \cup {None}], direct : Protocols]
Job      == [op : Ops, id : Ids \cup {None},
             step : {"write", "stop", "copy", "commit", "undo", "start"},
             old : Config,  \* what it has read
             conf : Config, \* what it writes, then what the script has read
             provision : BOOLEAN, again : BOOLEAN,
             backup : Database \cup {None}]

\* Nothing is neither a line nor a request.
ASSUME NoneAssumption == None \notin Line /\ None \notin Job

Lines(f)   == {c \in Ids : f.lines[c] # None}
Enabled(f) == {c \in Lines(f) : f.lines[c].enabled}

\* Mutant of PortFree: the ports of the other lines are not looked at.
PortUnchecked(f, c, port) == TRUE
PortFree(f, c, port) == \A d \in Lines(f) \ {c} : f.lines[d].port # port

Sane(f) ==
    /\ \A c \in Lines(f) : PortFree(f, c, f.lines[c].port)
    /\ Cardinality(Lines(f)) <= MaxLines

----------------------------------------------------------------------------
(* Requests: what they read and what they are going to write.               *)

\* Mutant of Enter: the lock is not taken.
EnterFreely(t, op) == UNCHANGED lock

Enter(t, op) ==
    IF op \in Locked THEN lock = None /\ lock' = t ELSE UNCHANGED lock

Begin(t, op, id, new, provision) ==
    /\ jobs[t] = None /\ op \in Ops
    /\ left > 0 /\ left' = left - 1
    /\ Enter(t, op)
    /\ jobs' = [jobs EXCEPT ![t] =
            [op |-> op, id |-> id, step |-> "write", old |-> file, conf |-> new,
             provision |-> provision, again |-> FALSE, backup |-> None]]
    /\ UNCHANGED <<file, db, xui>>

\* A new line, or one whose country changes, waits for its first test.
Save(t, c, port, pin, fresh) ==
    LET old == file.lines[c] IN
    /\ PortFree(file, c, port)
    /\ old = None => fresh /\ Cardinality(Lines(file)) < MaxLines
    /\ Begin(t, "save", c,
             [file EXCEPT !.lines[c] =
                 [port |-> port, pin |-> pin, enabled |-> TRUE,
                  awaiting |-> fresh \/ old.awaiting]],
             fresh \/ old.port # port)

Delete(t, c) ==
    /\ c \in Lines(file)
    /\ Begin(t, "delete", c, [file EXCEPT !.lines[c] = None], TRUE)

Switch(t, c, pin) ==
    /\ c \in Lines(file)
    /\ Begin(t, "switch", c, [file EXCEPT !.lines[c].pin = pin], FALSE)

SaveDirect(t, protocol) ==
    Begin(t, "direct", None, [file EXCEPT !.direct = protocol], TRUE)

\* The batch interface; a line keeps what the page does not send.
SaveAll(t, ports, enabled, protocol) ==
    LET new == [c \in Ids |->
            IF ports[c] = None THEN None
            ELSE [port |-> ports[c], enabled |-> c \in enabled,
                  pin |-> IF c \in Lines(file) THEN file.lines[c].pin ELSE None,
                  awaiting |-> c \in Lines(file) /\ file.lines[c].awaiting]]
    IN  /\ Sane([lines |-> new, direct |-> protocol])
        /\ enabled \subseteq {c \in Ids : ports[c] # None}
        /\ Begin(t, "all", None, [lines |-> new, direct |-> protocol], TRUE)

\* mark_channel_ready
Ready(t, c) ==
    /\ c \in Lines(file) /\ file.lines[c].awaiting
    /\ Begin(t, "ready", c, [file EXCEPT !.lines[c].awaiting = FALSE], FALSE)

\* wake_channel_after_recovery, when the pinned node is not available
Unpin(t, c) ==
    /\ c \in Lines(file) /\ file.lines[c].pin # None
    /\ Begin(t, "wake", c, [file EXCEPT !.lines[c].pin = None], FALSE)

----------------------------------------------------------------------------
(* The script.                                                              *)

At(t, step) == jobs[t] # None /\ jobs[t].step = step

Deletes(j) == j.op = "delete" /\ ~j.again

\* It changes the inbound of one line, which must be in the file it has read.
OneLine(j) == j.op = "save" \/ j.again

\* The batch takes the lines in the order of the list, which is left open; the
\* inbounds of lines that are gone are deleted first.
SomeOrder(j) ==
    \E rank \in [Enabled(j.conf) -> 1..Cardinality(Enabled(j.conf))] :
        \A c, d \in Enabled(j.conf) : c # d =>
            /\ rank[c] # rank[d]
            /\ rank[c] < rank[d] => db.inbounds[d] # j.conf.lines[c].port

\* No inbound of another line has a port that is to be used.
Possible(j) ==
    /\ OneLine(j) => /\ j.id \in Enabled(j.conf)
                     /\ \A d \in Ids \ {j.id} : db.inbounds[d] # j.conf.lines[j.id].port
    /\ j.op = "all" => SomeOrder(j)

Inbounds(j) ==
    IF Deletes(j) THEN [db.inbounds EXCEPT ![j.id] = None]
    ELSE IF OneLine(j) THEN [db.inbounds EXCEPT ![j.id] = j.conf.lines[j.id].port]
    ELSE IF j.op = "all"
         THEN [c \in Ids |-> IF c \in Enabled(j.conf) THEN j.conf.lines[c].port ELSE None]
    ELSE db.inbounds

Applied(j) ==
    [inbounds |-> Inbounds(j),
     direct   |-> IF j.op \in {"direct", "all"} THEN j.conf.direct ELSE db.direct]

----------------------------------------------------------------------------
(* The steps of a request.                                                  *)

GoTo(t, step) == jobs' = [jobs EXCEPT ![t].step = step, ![t].backup = None]

Leave(t) ==
    /\ jobs' = [jobs EXCEPT ![t] = None]
    /\ lock' = IF lock = t THEN None ELSE lock

Write(t) ==
    /\ At(t, "write")
    /\ file' = jobs[t].conf
    /\ IF jobs[t].provision THEN GoTo(t, "stop") /\ UNCHANGED lock ELSE Leave(t)
    /\ UNCHANGED <<db, xui, left>>

Stop(t) ==
    /\ At(t, "stop")
    /\ xui' = FALSE
    /\ GoTo(t, "copy")
    /\ UNCHANGED <<file, db, lock, left>>

\* systemctl stop fails or times out, outside of the try.
StopFails(t) ==
    /\ At(t, "stop") /\ "stop" \in Faults
    /\ xui' \in {xui, FALSE}
    /\ Leave(t)
    /\ UNCHANGED <<file, db, left>>

\* Mutant of Copy: the database is not copied before it is changed.
CopyNothing(t) ==
    /\ At(t, "copy")
    /\ jobs' = [jobs EXCEPT ![t].step = "commit", ![t].conf = file]
    /\ UNCHANGED <<file, db, xui, lock, left>>

\* The script reads the file and copies the database.
Copy(t) ==
    /\ At(t, "copy")
    /\ Deletes(jobs[t]) \/ Enabled(file) # {}
    /\ jobs' = [jobs EXCEPT ![t].step = "commit", ![t].conf = file, ![t].backup = db]
    /\ UNCHANGED <<file, db, xui, lock, left>>

NothingEnabled(t) ==
    /\ At(t, "copy") /\ ~Deletes(jobs[t]) /\ Enabled(file) = {}
    /\ GoTo(t, "undo")
    /\ UNCHANGED <<file, db, xui, lock, left>>

Commit(t) ==
    /\ At(t, "commit") /\ Possible(jobs[t])
    /\ db' = Applied(jobs[t])
    /\ GoTo(t, "start")
    /\ UNCHANGED <<file, xui, lock, left>>

\* The result cannot be written after the commit: the script has failed.
CommitUnreported(t) ==
    /\ At(t, "commit") /\ "result" \in Faults /\ Possible(jobs[t])
    /\ db' = Applied(jobs[t])
    /\ GoTo(t, "undo")
    /\ UNCHANGED <<file, xui, lock, left>>

\* Mutant of Abort: what a failed script has changed stays.
AbortUnrestored(t) ==
    /\ At(t, "commit")
    /\ "transaction" \in Faults \/ ~Possible(jobs[t])
    /\ db' = IF Possible(jobs[t]) THEN Applied(jobs[t]) ELSE db
    /\ GoTo(t, "undo")
    /\ UNCHANGED <<file, xui, lock, left>>

\* The script fails in its transaction and copies the database back.
Abort(t) ==
    /\ At(t, "commit")
    /\ "transaction" \in Faults \/ ~Possible(jobs[t])
    /\ db' = jobs[t].backup
    /\ GoTo(t, "undo")
    /\ UNCHANGED <<file, xui, lock, left>>

\* Mutant of Undo: a failed deletion is not undone.
UndoSaves(t) ==
    /\ At(t, "undo")
    /\ file' = IF jobs[t].op \in {"save", "direct"} THEN jobs[t].old ELSE file
    /\ GoTo(t, "start")
    /\ UNCHANGED <<db, xui, lock, left>>

\* Mutant of Undo: x-ui is started only after success.
UndoAndLeave(t) ==
    /\ At(t, "undo")
    /\ file' = jobs[t].old
    /\ Leave(t)
    /\ UNCHANGED <<db, xui, left>>

\* The batch interface undoes nothing.  After a failed deletion the line is
\* provisioned again.
Undo(t) ==
    LET j == jobs[t]
        redo == Deletes(j)
    IN
    /\ At(t, "undo")
    /\ file' = IF j.op = "all" \/ j.again THEN file ELSE j.old
    /\ jobs' = [jobs EXCEPT ![t].step = IF redo THEN "copy" ELSE "start",
                            ![t].again = @ \/ redo]
    /\ UNCHANGED <<db, xui, lock, left>>

Start(t) ==
    /\ At(t, "start")
    /\ xui' = TRUE
    /\ Leave(t)
    /\ UNCHANGED <<file, db, left>>

\* The dashboard is killed, with the script, and started again.
Crash ==
    /\ "crash" \in Faults
    /\ \E t \in Threads : jobs[t] # None
    /\ jobs' = [t \in Threads |-> None]
    /\ lock' = None
    /\ UNCHANGED <<file, db, xui, left>>

----------------------------------------------------------------------------

Init ==
    /\ file \in Config /\ Sane(file) /\ Enabled(file) = Lines(file)
    /\ db = [inbounds |-> [c \in Ids |->
                 IF c \in Enabled(file) THEN file.lines[c].port ELSE None],
             direct   |-> file.direct]
    /\ xui = TRUE
    /\ jobs = [t \in Threads |-> None]
    /\ lock = None
    /\ left = Requests

Request(t) ==
    \/ \E c \in Ids, port \in Ports, pin \in Pins \cup {None}, fresh \in BOOLEAN :
           Save(t, c, port, pin, fresh)
    \/ \E c \in Ids : Delete(t, c) \/ Ready(t, c) \/ Unpin(t, c)
    \/ \E c \in Ids, pin \in Pins : Switch(t, c, pin)
    \/ \E protocol \in Protocols : SaveDirect(t, protocol)
    \/ \E ports \in [Ids -> Ports \cup {None}], enabled \in SUBSET Ids,
          protocol \in Protocols : SaveAll(t, ports, enabled, protocol)

Step(t) ==
    \/ Write(t) \/ Stop(t) \/ StopFails(t)
    \/ Copy(t) \/ NothingEnabled(t)
    \/ Commit(t) \/ CommitUnreported(t) \/ Abort(t)
    \/ Undo(t) \/ Start(t)

Next == (\E t \in Threads : Request(t) \/ Step(t)) \/ Crash

Spec == Init /\ [][Next]_vars

\* Every command of a request has a timeout.
FairSpec == Spec /\ \A t \in Threads : WF_vars(Step(t))

----------------------------------------------------------------------------
(* Properties.                                                              *)

TypeOK ==
    /\ file \in Config
    /\ db \in Database
    /\ xui \in BOOLEAN
    /\ jobs \in [Threads -> Job \cup {None}]
    /\ lock \in Threads \cup {None}
    /\ left \in 0..Requests

\* Whatever requests overlap or fail: no two lines of the file have the same
\* port, and there are not more lines than allowed.
FileSane ==
    /\ \A c, d \in Lines(file) : c # d => file.lines[c].port # file.lines[d].port
    /\ Cardinality(Lines(file)) <= MaxLines

\* "添加或删除国家线路时同步创建或删除对应3x-ui入站和路由" (creating or deleting a
\* line creates or deletes its inbound): when no request is under way, the
\* inbounds are those of the enabled lines in the file.
InSync ==
    (\A t \in Threads : jobs[t] = None) =>
        /\ \A c \in Ids : db.inbounds[c] =
               IF c \in Enabled(file) THEN file.lines[c].port ELSE None
        /\ db.direct = file.direct

\* A request that has not changed the database, and may still be taken back.
Open(t) == jobs[t] # None /\ jobs[t].step # "start" /\ ~jobs[t].again

\* What is in effect: the file, or what an open request has read.
Effective ==
    IF \E t \in Threads : Open(t) THEN jobs[CHOOSE t \in Threads : Open(t)].old ELSE file

Registry == INSTANCE LineRegistry WITH config <- Effective, served <- db

\* Every request is all or nothing: its change of the file and of 3x-ui takes effect
\* in one step, its commit (its write, when it provisions nothing), or never, and a
\* failed deletion leaves the line as it was.
AllOrNothing == Registry!Spec

\* "其他线路不受影响" (other lines are not affected): a line's record changes only in
\* a step of a request for that line, or of the batch.
OthersUntouched ==
    [][\A c \in Ids : file'.lines[c] # file.lines[c] =>
           \E t \in Threads : /\ jobs'[t] # jobs[t] /\ jobs[t] # None
                              /\ jobs[t].op = "all" \/ jobs[t].id = c]_vars

\* x-ui is down while its database changes.
ChangedWhileDown == [][db' # db => ~xui]_vars

\* x-ui is started again after every request that stopped it.
XuiBack == ~xui ~> xui
============================================================================
