--------------------------- MODULE NetworkSlots ---------------------------
(***************************************************************************)
(* Network slots (channel_network.py, migrate_network_slots.py).  Every     *)
(* country line owns a slot, a number that fixes the /30 subnet between     *)
(* its namespace and the host.  The slots live in channels.json, together   *)
(* with the next one to give; every writer of that file first runs          *)
(* ensure_network_slots over what it is about to write.                     *)
(*                                                                          *)
(* The file of an older release has missing, repeated or impossible slots.  *)
(* It is repaired once, by the migration or by the daemon's first load, and *)
(* then edited: lines are created and deleted, each edit is undone if       *)
(* 3x-ui cannot be provisioned, and the page can replace the whole list.    *)
(***************************************************************************)
EXTENDS Integers, Sequences, FiniteSets, FiniteSetsExt

CONSTANTS
    Ids,         \* the ids of the country lines
    None,        \* no slot; no edit under way
    MaxSlot,     \* MAX_NETWORK_SLOT
    LegacySlots, \* what an older file may hold as a slot
    LegacyNext   \* what it may hold as the next slot

ASSUME SlotAssumption ==
    /\ MaxSlot \in 1..3360
    /\ None \notin 0..3361
    /\ LegacySlots \subseteq 0..3361 \cup {None}
    /\ LegacyNext \subseteq 1..(MaxSlot + 1)
    /\ None \notin Ids

VARIABLES
    file,    \* channels.json: its lines in order, and the next slot
    pending, \* the file before the edit being provisioned, or None
    runtime, \* state.json: the slot of the address a connected line uses
    running, \* has the file of the older release been repaired?
    given    \* history: the line each slot was given to by a finished edit

vars == <<file, pending, runtime, running, given>>

Valid == 1..MaxSlot
Slots == 0..3361 \cup {None}

----------------------------------------------------------------------------
(* channel_network.py.                                                      *)

\* A line keeps a valid slot that no line before it has.
Keeps(s, i) ==
    /\ s[i].slot \in Valid
    /\ \A j \in 1..(i - 1) : s[j].slot # s[i].slot

Used(s)       == {s[i].slot : i \in DOMAIN s} \cap Valid
Missing(s, n) == {i \in 1..n : ~Keeps(s, i)}

\* Mutant of FirstFree: the counter stored in the file is not used.
FirstFreeUnstored(f) == Max({1} \cup {s + 1 : s \in Used(f.chans)})

\* The counter never goes below a slot that is in use.
FirstFree(f) == Max({f.next} \cup {s + 1 : s \in Used(f.chans)})

\* Mutant of SlotGiven: slots follow the order of the lines.
SlotByOrder(f, i) == i

SlotGiven(f, i) ==
    IF Keeps(f.chans, i) THEN f.chans[i].slot
    ELSE FirstFree(f) + Cardinality(Missing(f.chans, i - 1))

\* ensure_network_slots; it raises, and nothing is written, when the slots do
\* not suffice.
NextAfter(f) == FirstFree(f) + Cardinality(Missing(f.chans, Len(f.chans)))

\* Mutant of Exhausted: one slot past the limit is given.
ExhaustedLate(f) ==
    Missing(f.chans, Len(f.chans)) # {} /\ NextAfter(f) > MaxSlot + 2

Exhausted(f) == Missing(f.chans, Len(f.chans)) # {} /\ NextAfter(f) > MaxSlot + 1
Ensured(f) ==
    [chans |-> [i \in DOMAIN f.chans |-> [f.chans[i] EXCEPT !.slot = SlotGiven(f, i)]],
     next  |-> NextAfter(f)]

\* Mutant of Subnet: 61 blocks to a row, while the offset wraps at 60.
SubnetWide(slot) == 256 * (200 + (slot - 1) \div 61) + 4 * ((slot - 1) % 60)

\* channel_network: the first address of the slot's /30 inside 10.253.0.0/16.
\* The host has the next address, the namespace the one after.
Subnet(slot) == 256 * (200 + (slot - 1) \div 60) + 4 * ((slot - 1) % 60)
ProxyAddress(slot) == Subnet(slot) + 2

\* slot_from_proxy_address, for an address inside 10.253.0.0/16.
SlotOfAddress(a) ==
    LET third == a \div 256  fourth == a % 256 IN
    IF third \in 200..255 /\ fourth \in 2..238 /\ fourth % 4 = 2
    THEN (third - 200) * 60 + (fourth - 2) \div 4 + 1
    ELSE None

----------------------------------------------------------------------------
(* The repair of an older file.                                             *)

\* Mutant of Claims: no line claims the address it uses.
ClaimsNothing(s, i) == FALSE

\* allocate_legacy: a connected line without a valid slot claims the slot of
\* the address it uses, unless a line has it or an earlier one claimed it.
Claims(s, i) ==
    LET slot == runtime[s[i].id] IN
    /\ s[i].slot \notin Valid
    /\ slot # None /\ slot \notin Used(s)
    /\ \A j \in 1..(i - 1) : s[j].slot \notin Valid => runtime[s[j].id] # slot

Claimed(f) ==
    [f EXCEPT !.chans = [i \in DOMAIN f.chans |->
        IF Claims(f.chans, i) THEN [f.chans[i] EXCEPT !.slot = runtime[f.chans[i].id]]
        ELSE f.chans[i]]]

Settle(f) ==
    given' = [s \in Valid |->
        IF \E i \in DOMAIN f.chans : f.chans[i].slot = s
        THEN (CHOOSE c \in {f.chans[i] : i \in DOMAIN f.chans} : c.slot = s).id
        ELSE given[s]]

Repair(f) ==
    /\ ~running /\ ~Exhausted(f)
    /\ running' = TRUE
    /\ file' = Ensured(f)
    /\ Settle(file')
    /\ UNCHANGED <<pending, runtime>>

Migrate   == Repair(Claimed(file))
FirstLoad == Repair(file)

----------------------------------------------------------------------------
(* Edits of the repaired file.                                              *)

HasLine(f, id) == \E i \in DOMAIN f.chans : f.chans[i].id = id
SlotOf(f, id) ==
    IF HasLine(f, id)
    THEN f.chans[CHOOSE i \in DOMAIN f.chans : f.chans[i].id = id].slot
    ELSE None

\* One line is added or removed, and 3x-ui is provisioned for it.
Edit(chans) ==
    LET f == [file EXCEPT !.chans = chans] IN
    /\ running /\ pending = None
    /\ ~Exhausted(f)
    /\ pending' = file
    /\ file' = Ensured(f)
    /\ UNCHANGED <<runtime, running, given>>

Create(id) ==
    /\ ~HasLine(file, id)
    /\ Edit(Append(file.chans, [id |-> id, slot |-> None]))

Delete(i) ==
    /\ i \in DOMAIN file.chans
    /\ Edit([j \in 1..(Len(file.chans) - 1) |->
                 file.chans[IF j < i THEN j ELSE j + 1]])

Finish ==
    /\ pending # None
    /\ pending' = None
    /\ Settle(file)
    /\ UNCHANGED <<file, runtime, running>>

\* Provisioning failed: the file before the edit is written again.
RollBack ==
    /\ pending # None
    /\ file' = Ensured(pending)
    /\ pending' = None
    /\ UNCHANGED <<runtime, running, given>>

IdLists == {s \in UNION {[1..n -> Ids] : n \in 0..Cardinality(Ids)} :
               \A i, j \in DOMAIN s : s[i] = s[j] => i = j}

\* The page sends the whole list; a line keeps what the file has under its id.
\* What fails afterwards is not undone.
ReplaceAll(ids) ==
    LET f == [file EXCEPT !.chans = [i \in DOMAIN ids |->
                 [id |-> ids[i], slot |-> SlotOf(file, ids[i])]]] IN
    /\ running /\ pending = None
    /\ ~Exhausted(f)
    /\ file' = Ensured(f)
    /\ Settle(file')
    /\ UNCHANGED <<pending, runtime, running>>

----------------------------------------------------------------------------

Init ==
    /\ \E ids \in IdLists, slots \in [Ids -> LegacySlots], n \in LegacyNext :
         file = [chans |-> [i \in DOMAIN ids |-> [id |-> ids[i], slot |-> slots[ids[i]]]],
                 next |-> n]
    /\ pending = None
    /\ runtime \in [Ids -> LegacySlots \cap (Valid \cup {None})]
    /\ running = FALSE
    /\ given = [s \in Valid |-> None]

Next ==
    \/ Migrate \/ FirstLoad
    \/ \E id \in Ids : Create(id)
    \/ \E i \in DOMAIN file.chans : Delete(i)
    \/ Finish \/ RollBack
    \/ \E ids \in IdLists : ReplaceAll(ids)

Spec == Init /\ [][Next]_vars

----------------------------------------------------------------------------
(* Properties.                                                              *)

FileOK(f) ==
    /\ f \in [chans : Seq([id : Ids, slot : Slots]), next : 1..(MaxSlot + 1)]
    /\ \A i, j \in DOMAIN f.chans : f.chans[i].id = f.chans[j].id => i = j

TypeOK ==
    /\ FileOK(file)
    /\ pending = None \/ FileOK(pending)
    /\ runtime \in [Ids -> Valid \cup {None}]
    /\ running \in BOOLEAN
    /\ given \in [Valid -> Ids \cup {None}]

\* In a repaired file every line has a slot of its own within the limit, and
\* the slot to be given next is above all of them.
Repaired(f) ==
    /\ \A i \in DOMAIN f.chans : f.chans[i].slot \in 1..(f.next - 1)
    /\ \A i, j \in DOMAIN f.chans : f.chans[i].slot = f.chans[j].slot => i = j

\* The addresses of two lines lie in different /30 subnets of the range, and
\* an address leads back to its slot.
InRange(a) == a \in Nat /\ 51200 <= a /\ a <= 65532 /\ a % 4 = 0
AddressesApart ==
    running => \A i, j \in DOMAIN file.chans :
        LET s == file.chans[i].slot  t == file.chans[j].slot IN
        /\ InRange(Subnet(s))
        /\ SlotOfAddress(ProxyAddress(s)) = s
        /\ i # j => Subnet(s) # Subnet(t)

\* "Never renumber survivors": no edit, completed or undone, moves a line that
\* is in the file before and after it to another address.
AddressKept ==
    [][running => \A id \in Ids : HasLine(file, id) /\ HasLine(file', id)
                      => SlotOf(file', id) = SlotOf(file, id)]_vars

\* "Allocate once": a slot that a finished edit gave to a line is never found at
\* another line again, though lines are deleted and edits undone.
NeverReissued ==
    \A i \in DOMAIN file.chans :
        LET c == file.chans[i] IN
        running => given[c.slot] \in {None, c.id}

\* "Prefer each healthy channel's actual address": the migration leaves every
\* connected line of a file without slots at the address it uses, as long as
\* no other line uses the same.
HealthyStay ==
    [][Migrate /\ Used(file.chans) = {} =>
        \A i \in DOMAIN file.chans :
            LET id == file.chans[i].id IN
            /\ runtime[id] # None
            /\ \A j \in DOMAIN file.chans \ {i} : runtime[file.chans[j].id] # runtime[id]
            => SlotOf(file', id) = runtime[id]]_vars
===========================================================================
