------------------------ MODULE NetworkSlotsProofs ------------------------
(***************************************************************************)
(* Proofs about NetworkSlots for every limit, every set of lines and every  *)
(* file of an older release: the lines of a repaired file have slots of     *)
(* their own, which map to subnets of their own, and keep them.             *)
(***************************************************************************)
EXTENDS NetworkSlots, FiniteSetTheorems, SequenceTheorems,
        WellFoundedInduction, TLAPS

LEMMA LimitType == MaxSlot \in Nat /\ MaxSlot <= 3360
  BY SlotAssumption

Channel == [id : Ids, slot : Slots]

LEMMA SlotType ==
    ASSUME NEW x \in Nat, x <= 3361
    PROVE  x \in Slots
  <1> DEFINE S == 0..3361
  <1>1. x \in S
    OBVIOUS
  <1>2. Slots = S \cup {None}
    BY DEF Slots
  <1> HIDE DEF S
  <1> QED
    BY ONLY <1>1, <1>2

\* The slots that have an address.
Addressed == 1..3360

-----------------------------------------------------------------------------
(* Addresses.                                                                *)

\* The subnet of every slot is in the range, and slot_from_proxy_address inverts
\* channel_network.
LEMMA AddressOfSlot ==
    ASSUME NEW s \in Addressed
    PROVE  InRange(Subnet(s)) /\ SlotOfAddress(ProxyAddress(s)) = s
  <1> DEFINE o == s - 1
             q == o \div 60
             r == o % 60
             a == 256 * (200 + q) + 4 * r
             third == (a + 2) \div 256
             fourth == (a + 2) % 256
  <1>0. o \in Nat /\ o < 3360
    BY DEF Addressed
  <1>1. q \in 0..55 /\ r \in 0..59 /\ s - 1 = 60 * q + r
    <2> HIDE DEF o
    <2>1. q \in Int /\ r \in Int
      BY <1>0
    <2>2. o = 60 * q + r
      BY <1>0
    <2>3. 0 <= r /\ r < 60
      BY <1>0
    <2>4. 0 <= q /\ q <= 55
      <3> HIDE DEF q, r
      <3> QED
        BY <1>0, <2>1, <2>2, <2>3
    <2>5. s - 1 = 60 * q + r
      BY <2>2 DEF o
    <2> HIDE DEF q, r
    <2> QED
      BY ONLY <2>1, <2>3, <2>4, <2>5
  <1>2. Subnet(s) = a /\ ProxyAddress(s) = a + 2
    BY DEF Subnet, ProxyAddress
  <1> HIDE DEF o, q, r
  <1>3. a \in Nat /\ 51200 <= a /\ a <= 65532
    BY <1>1
  <1>4. a % 4 = 0
    BY <1>1
  <1>5. third = 200 + q /\ fourth = 4 * r + 2
    BY <1>1
  <1>6. third = (a + 2) \div 256 /\ fourth = (a + 2) % 256
    OBVIOUS
  <1> HIDE DEF a, third, fourth
  <1>7. third \in 200..255 /\ fourth \in 2..238 /\ fourth % 4 = 2
    BY <1>1, <1>5
  <1>8. (third - 200) * 60 + (fourth - 2) \div 4 + 1 = s
    BY <1>1, <1>5 DEF Addressed
  <1>9. SlotOfAddress(a + 2) = (third - 200) * 60 + (fourth - 2) \div 4 + 1
    BY <1>6, <1>7 DEF SlotOfAddress
  <1>10. SlotOfAddress(ProxyAddress(s)) = s
    <2>1. SlotOfAddress(a + 2) = s
      BY ONLY <1>8, <1>9
    <2> QED
      BY ONLY <2>1, <1>2
  <1>11. InRange(a)
    BY ONLY <1>3, <1>4 DEF InRange
  <1>12. InRange(Subnet(s))
    BY ONLY <1>2, <1>11
  <1> QED
    BY ONLY <1>10, <1>12

LEMMA SubnetInjective ==
    ASSUME NEW s \in Addressed, NEW t \in Addressed, Subnet(s) = Subnet(t)
    PROVE  s = t
  <1>1. SlotOfAddress(ProxyAddress(s)) = s /\ SlotOfAddress(ProxyAddress(t)) = t
    BY AddressOfSlot, Zenon
  <1>2. ProxyAddress(s) = ProxyAddress(t)
    BY DEF ProxyAddress
  <1> QED
    BY <1>1, <1>2

-----------------------------------------------------------------------------
(* The counter and the number of lines without a slot.                       *)

LEMMA MaxExists ==
    ASSUME NEW N \in Nat, NEW S, \A x \in S : x \in Nat /\ x <= N, S # {}
    PROVE  Max(S) \in S /\ \A y \in S : Max(S) >= y
  <1> DEFINE T == {N - x : x \in S}
  <1>1. T \in SUBSET Nat /\ T # {}
    <2>1. \A x \in S : N - x \in Nat
      OBVIOUS
    <2> QED
      BY <2>1
  <1>2. IsWellFoundedOn(OpToRel(<, Nat), Nat)
    BY NatLessThanWellFounded
  <1> HIDE DEF T
  <1>3. PICK m \in T : \A y \in T : <<y, m>> \notin OpToRel(<, Nat)
    BY <1>1, <1>2, WFMin
  <1>4. ASSUME NEW x \in Nat, NEW y \in Nat, y < x
        PROVE  <<y, x>> \in OpToRel(<, Nat)
    BY <1>4 DEF OpToRel
  <1>5. \A y \in T : ~(y < m)
    BY <1>1, <1>3, <1>4
  <1>6. PICK x \in S : m = N - x
    BY DEF T
  <1>7. \A y \in S : x >= y
    <2> TAKE y \in S
    <2>1. N - y \in T
      BY DEF T
    <2> QED
      BY <2>1, <1>5, <1>6
  <1> QED
    BY <1>7 DEF Max

LEMMA FirstFreeBound ==
    ASSUME NEW f, FileOK(f)
    PROVE  /\ FirstFree(f) \in 1..(MaxSlot + 1)
           /\ FirstFree(f) >= f.next
           /\ \A s \in Used(f.chans) : FirstFree(f) > s
  <1> DEFINE S == {f.next} \cup {s + 1 : s \in Used(f.chans)}
  <1>1. f.next \in 1..(MaxSlot + 1)
    BY DEF FileOK
  <1>2. Used(f.chans) \subseteq 1..MaxSlot
    BY DEF Used, Valid
  <1>0. MaxSlot + 1 \in Nat
    BY LimitType
  <1>3. (\A x \in S : x \in Nat /\ 1 <= x /\ x <= MaxSlot + 1) /\ S # {}
    BY <1>0, <1>1, <1>2, LimitType
  <1>4. Max(S) \in S /\ \A y \in S : Max(S) >= y
    <2> HIDE DEF S
    <2> QED
      BY <1>0, <1>3, MaxExists
  <1>5. FirstFree(f) = Max(S)
    BY DEF FirstFree
  <1>6. f.next \in S /\ \A s \in Used(f.chans) : s + 1 \in S
    OBVIOUS
  <1> HIDE DEF S
  <1> QED
    <2>1. \A s \in Used(f.chans) : s \in Nat
      BY <1>2
    <2>2. Max(S) \in Nat /\ 1 <= Max(S) /\ Max(S) <= MaxSlot + 1
      BY <1>3, <1>4
    <2>3. \A s \in Used(f.chans) : Max(S) >= s + 1
      BY <1>4, <1>6
    <2> HIDE DEF S
    <2> QED
      BY <1>0, <1>1, <1>4, <1>5, <1>6, <2>1, <2>2, <2>3

LEMMA FirstFreeReached ==
    ASSUME NEW f, FileOK(f)
    PROVE  FirstFree(f) \in {f.next} \cup {s + 1 : s \in Used(f.chans)}
  <1> DEFINE S == {f.next} \cup {s + 1 : s \in Used(f.chans)}
  <1>1. MaxSlot + 1 \in Nat /\ f.next \in 1..(MaxSlot + 1) /\ Used(f.chans) \subseteq 1..MaxSlot
    BY LimitType DEF FileOK, Used, Valid
  <1>2. (\A x \in S : x \in Nat /\ x <= MaxSlot + 1) /\ S # {}
    BY <1>1, LimitType
  <1>3. FirstFree(f) = Max(S)
    BY DEF FirstFree
  <1> HIDE DEF S
  <1>4. Max(S) \in S
    BY <1>1, <1>2, MaxExists
  <1> QED
    BY <1>3, <1>4 DEF S

LEMMA MissingCount ==
    ASSUME NEW s, NEW n \in Nat
    PROVE  IsFiniteSet(Missing(s, n)) /\ Cardinality(Missing(s, n)) \in Nat
  <1>1. IsFiniteSet(1..n)
    BY FS_Interval
  <1>2. Missing(s, n) \in SUBSET (1..n)
    BY DEF Missing
  <1>3. IsFiniteSet(Missing(s, n))
    BY <1>1, <1>2, FS_Subset
  <1> QED
    BY <1>3, FS_CardinalityType

LEMMA MissingGrows ==
    ASSUME NEW s, NEW m \in Nat, NEW n \in Nat, m < n, ~Keeps(s, m + 1)
    PROVE  Cardinality(Missing(s, m)) < Cardinality(Missing(s, n))
  <1> DEFINE M == Missing(s, m)
  <1>1. IsFiniteSet(M) /\ Cardinality(M) \in Nat
    BY MissingCount
  <1>2. IsFiniteSet(Missing(s, n)) /\ Cardinality(Missing(s, n)) \in Nat
    BY MissingCount
  <1>3. m + 1 \notin M
    BY DEF Missing
  <1>4. M \cup {m + 1} \in SUBSET Missing(s, n)
    BY DEF Missing
  <1>5. Cardinality(M \cup {m + 1}) = Cardinality(M) + 1
    BY <1>1, <1>3, FS_AddElement
  <1>6. Cardinality(M \cup {m + 1}) <= Cardinality(Missing(s, n))
    BY <1>2, <1>4, FS_Subset
  <1> QED
    BY <1>1, <1>2, <1>5, <1>6

-----------------------------------------------------------------------------
(* What ensure_network_slots returns.                                        *)

LEMMA ChansType ==
    ASSUME NEW f, FileOK(f)
    PROVE  /\ Len(f.chans) \in Nat
           /\ DOMAIN f.chans = 1..Len(f.chans)
           /\ \A i \in DOMAIN f.chans : f.chans[i] \in Channel
  <1>1. f.chans \in Seq(Channel)
    BY DEF FileOK, Channel
  <1> QED
    BY <1>1, LenProperties, ElementOfSeq

\* The slot of a line that keeps none lies between the counter before and after.
LEMMA NewSlot ==
    ASSUME NEW f, FileOK(f), ~Exhausted(f),
           NEW i \in DOMAIN f.chans, ~Keeps(f.chans, i)
    PROVE  /\ SlotGiven(f, i) = FirstFree(f) + Cardinality(Missing(f.chans, i - 1))
           /\ SlotGiven(f, i) \in FirstFree(f)..(NextAfter(f) - 1)
           /\ NextAfter(f) <= MaxSlot + 1
  <1>1. i \in 1..Len(f.chans) /\ Len(f.chans) \in Nat
    BY ChansType
  <1>2. /\ Cardinality(Missing(f.chans, i - 1)) \in Nat
        /\ Cardinality(Missing(f.chans, Len(f.chans))) \in Nat
    BY <1>1, MissingCount
  <1>3. Cardinality(Missing(f.chans, i - 1)) < Cardinality(Missing(f.chans, Len(f.chans)))
    BY <1>1, MissingGrows, i - 1 \in Nat, i - 1 < Len(f.chans), i - 1 + 1 = i
  <1>4. FirstFree(f) \in Nat
    BY FirstFreeBound
  <1>5. Missing(f.chans, Len(f.chans)) # {}
    BY <1>1 DEF Missing
  <1>6. NextAfter(f) \in Nat /\ NextAfter(f) <= MaxSlot + 1
    BY <1>2, <1>4, <1>5, LimitType DEF Exhausted, NextAfter
  <1> QED
    BY <1>2, <1>3, <1>4, <1>6 DEF SlotGiven, NextAfter

LEMMA NextAfterBound ==
    ASSUME NEW f, FileOK(f), ~Exhausted(f)
    PROVE  NextAfter(f) \in FirstFree(f)..(MaxSlot + 1)
  <1>1. FirstFree(f) \in 1..(MaxSlot + 1)
    BY FirstFreeBound
  <1>2. Cardinality(Missing(f.chans, Len(f.chans))) \in Nat
    BY ChansType, MissingCount
  <1>3. CASE Missing(f.chans, Len(f.chans)) = {}
    <2>1. NextAfter(f) = FirstFree(f)
      BY <1>1, <1>3, FS_EmptySet DEF NextAfter
    <2> QED
      BY <1>1, <2>1
  <1>4. CASE Missing(f.chans, Len(f.chans)) # {}
    BY <1>1, <1>2, <1>4, LimitType DEF NextAfter, Exhausted
  <1> QED
    BY <1>3, <1>4

LEMMA KeptSlot ==
    ASSUME NEW f, FileOK(f), ~Exhausted(f),
           NEW i \in DOMAIN f.chans, Keeps(f.chans, i)
    PROVE  /\ SlotGiven(f, i) = f.chans[i].slot
           /\ SlotGiven(f, i) \in 1..(FirstFree(f) - 1)
  <1>1. f.chans[i].slot \in Used(f.chans) /\ f.chans[i].slot \in 1..MaxSlot
    BY DEF Keeps, Used, Valid
  <1>2. FirstFree(f) \in Nat /\ FirstFree(f) > f.chans[i].slot
    BY <1>1, FirstFreeBound
  <1> QED
    BY <1>1, <1>2 DEF SlotGiven

\* A file that ensure_network_slots returns is repaired, has the same lines, and
\* differs only in the slots of those that could not keep theirs.
LEMMA EnsuredFile ==
    ASSUME NEW f, FileOK(f), ~Exhausted(f)
    PROVE  /\ FileOK(Ensured(f))
           /\ Repaired(Ensured(f))
           /\ Ensured(f).next >= f.next
           /\ DOMAIN Ensured(f).chans = DOMAIN f.chans
           /\ \A i \in DOMAIN f.chans :
                /\ Ensured(f).chans[i].id = f.chans[i].id
                /\ Keeps(f.chans, i) => Ensured(f).chans[i].slot = f.chans[i].slot
                /\ ~Keeps(f.chans, i) => Ensured(f).chans[i].slot >= f.next
  <1> DEFINE e == [i \in DOMAIN f.chans |-> [f.chans[i] EXCEPT !.slot = SlotGiven(f, i)]]
             n == NextAfter(f)
  <1>1. Len(f.chans) \in Nat /\ DOMAIN f.chans = 1..Len(f.chans)
    BY ChansType
  <1>2. \A i \in DOMAIN f.chans : f.chans[i] \in Channel
    BY ChansType
  <1>3. n \in FirstFree(f)..(MaxSlot + 1) /\ FirstFree(f) \in 1..(MaxSlot + 1)
    BY NextAfterBound, FirstFreeBound
  <1>4. FirstFree(f) >= f.next /\ f.next \in 1..(MaxSlot + 1)
    BY FirstFreeBound DEF FileOK
  <1>5. \A i \in DOMAIN f.chans : SlotGiven(f, i) \in 1..(n - 1)
    <2> TAKE i \in DOMAIN f.chans
    <2>1. CASE Keeps(f.chans, i)
      BY <2>1, <1>3, KeptSlot
    <2>2. CASE ~Keeps(f.chans, i)
      BY <2>2, <1>3, NewSlot
    <2> QED
      BY <2>1, <2>2
  <1>6. /\ DOMAIN e = DOMAIN f.chans
        /\ \A i \in DOMAIN f.chans :
              e[i] = [id |-> f.chans[i].id, slot |-> SlotGiven(f, i)]
    BY <1>2 DEF Channel
  <1>9. Ensured(f) = [chans |-> e, next |-> n]
    BY DEF Ensured
  <1> HIDE DEF e, n
  <1>14. \A i \in DOMAIN f.chans :
            e[i].id = f.chans[i].id /\ e[i].slot = SlotGiven(f, i)
    <2> TAKE i \in DOMAIN f.chans
    <2>1. e[i] = [id |-> f.chans[i].id, slot |-> SlotGiven(f, i)]
      BY <1>6
    <2> QED
      BY ONLY <2>1
  <1>7. \A i, j \in DOMAIN f.chans : i < j => SlotGiven(f, i) # SlotGiven(f, j)
    <2> SUFFICES ASSUME NEW i \in DOMAIN f.chans, NEW j \in DOMAIN f.chans, i < j
                 PROVE  SlotGiven(f, i) # SlotGiven(f, j)
      OBVIOUS
    <2>0. i \in 1..(j - 1) /\ i \in Nat /\ j \in Nat
      BY <1>1
    <2>1. CASE Keeps(f.chans, i) /\ Keeps(f.chans, j)
      BY <2>0, <2>1, KeptSlot DEF Keeps
    <2>2. CASE Keeps(f.chans, i) /\ ~Keeps(f.chans, j)
      BY <2>2, KeptSlot, NewSlot, <1>3
    <2>3. CASE ~Keeps(f.chans, i) /\ Keeps(f.chans, j)
      BY <2>3, KeptSlot, NewSlot, <1>3
    <2>4. CASE ~Keeps(f.chans, i) /\ ~Keeps(f.chans, j)
      <3>1. Cardinality(Missing(f.chans, i - 1)) < Cardinality(Missing(f.chans, j - 1))
        BY <2>0, <2>4, MissingGrows, i - 1 \in Nat, j - 1 \in Nat, i - 1 < j - 1,
           i - 1 + 1 = i
      <3>2. /\ Cardinality(Missing(f.chans, i - 1)) \in Nat
            /\ Cardinality(Missing(f.chans, j - 1)) \in Nat
        BY <2>0, MissingCount, i - 1 \in Nat, j - 1 \in Nat
      <3> QED
        BY <3>1, <3>2, <2>4, NewSlot, <1>3
    <2> QED
      BY <2>1, <2>2, <2>3, <2>4
  <1>8. e \in Seq(Channel)
    <2>1. ASSUME NEW i \in 1..Len(f.chans)
          PROVE  e[i] \in Channel
      <3>1. f.chans[i].id \in Ids
        BY <1>1, <1>2 DEF Channel
      <3>2. SlotGiven(f, i) \in 1..(n - 1) /\ n \in 1..(MaxSlot + 1)
        BY <1>1, <1>3, <1>5, LimitType
      <3>3. SlotGiven(f, i) \in Nat /\ SlotGiven(f, i) <= 3361
        BY <3>2, LimitType
      <3>4. SlotGiven(f, i) \in Slots
        BY ONLY <3>3, SlotType
      <3>5. e[i] = [id |-> f.chans[i].id, slot |-> SlotGiven(f, i)]
        BY <1>1, <1>6
      <3> QED
        BY ONLY <3>1, <3>4, <3>5 DEF Channel
    <2>2. e \in [1..Len(f.chans) -> Channel]
      <3>1. e = [i \in 1..Len(f.chans) |-> e[i]]
        BY <1>1 DEF e
      <3> QED
        BY <2>1, <3>1
    <2> QED
      BY <1>1, <2>2, SeqDef
  <1>10. FileOK(Ensured(f))
    <2>1. \A i, j \in DOMAIN e : e[i].id = e[j].id => i = j
      BY <1>6, <1>14 DEF FileOK
    <2> QED
      BY <2>1, <1>3, <1>8, <1>9 DEF FileOK, Channel
  <1>11. Repaired(Ensured(f))
    <2>1. \A i \in DOMAIN e : e[i].slot \in 1..(n - 1)
      BY <1>5, <1>6, <1>14
    <2>2. ASSUME NEW i \in DOMAIN e, NEW j \in DOMAIN e, e[i].slot = e[j].slot
          PROVE  i = j
      <3>1. SlotGiven(f, i) = SlotGiven(f, j)
        BY <2>2, <1>6, <1>14
      <3>2. i \in Int /\ j \in Int
        BY <1>1, <1>6
      <3> QED
        BY <3>1, <3>2, <1>6, <1>7
    <2> QED
      BY <2>1, <2>2, <1>9 DEF Repaired
  <1>12. ASSUME NEW i \in DOMAIN f.chans, ~Keeps(f.chans, i)
         PROVE  e[i].slot >= f.next
    <2>1. SlotGiven(f, i) \in FirstFree(f)..(n - 1)
      BY <1>12, NewSlot DEF n
    <2> QED
      BY <2>1, <1>3, <1>4, <1>14
  <1>13. ASSUME NEW i \in DOMAIN f.chans, Keeps(f.chans, i)
         PROVE  e[i].slot = f.chans[i].slot
    <2>1. SlotGiven(f, i) = f.chans[i].slot
      BY <1>13, KeptSlot
    <2> QED
      BY <2>1, <1>14
  <1>15. n >= f.next
    BY <1>3, <1>4, LimitType
  <1> QED
    BY <1>6, <1>14, <1>9, <1>10, <1>11, <1>12, <1>13, <1>15

-----------------------------------------------------------------------------
(* Edits.                                                                    *)

\* Each line of g is a line of f, or is new and has a slot f never gave.
Follows(f, g) ==
    /\ g.next >= f.next
    /\ \A i \in DOMAIN g.chans :
          \/ \E j \in DOMAIN f.chans : f.chans[j] = g.chans[i]
          \/ g.chans[i].slot >= f.next /\ ~HasLine(f, g.chans[i].id)

\* What an edit hands to ensure_network_slots.
Edited(f, h) ==
    /\ h.next = f.next
    /\ \A i \in DOMAIN h.chans :
          \/ \E j \in DOMAIN f.chans : f.chans[j] = h.chans[i]
          \/ h.chans[i].slot = None /\ ~HasLine(f, h.chans[i].id)

LEMMA RepairedSlots ==
    ASSUME NEW f, FileOK(f), Repaired(f)
    PROVE  \A i \in DOMAIN f.chans : f.chans[i].slot \in Valid /\ f.chans[i].slot < f.next
  <1>1. f.next \in 1..(MaxSlot + 1)
    BY DEF FileOK
  <1> QED
    BY <1>1, LimitType DEF Repaired, Valid

LEMMA NoneInvalid == None \notin Valid
  <1> DEFINE S == 0..3361
  <1>1. \A x \in Valid : x \in Nat /\ x <= 3361
    BY LimitType DEF Valid
  <1>2. \A x \in Nat : x <= 3361 => x \in S
    OBVIOUS
  <1>3. None \notin S
    BY SlotAssumption
  <1> HIDE DEF S
  <1> QED
    BY ONLY <1>1, <1>2, <1>3

\* A line taken over from a repaired file keeps its slot, a new one has none.
LEMMA EditedKeeps ==
    ASSUME NEW f, FileOK(f), Repaired(f), NEW h, FileOK(h), Edited(f, h),
           NEW i \in DOMAIN h.chans
    PROVE  Keeps(h.chans, i) <=> \E j \in DOMAIN f.chans : f.chans[j] = h.chans[i]
  <1>1. \A j \in DOMAIN f.chans : f.chans[j].slot \in Valid
    BY RepairedSlots
  <1>2. ASSUME ~\E j \in DOMAIN f.chans : f.chans[j] = h.chans[i]
        PROVE  ~Keeps(h.chans, i)
    BY <1>2, NoneInvalid DEF Edited, Keeps
  <1>3. ASSUME NEW j \in DOMAIN f.chans, f.chans[j] = h.chans[i]
        PROVE  Keeps(h.chans, i)
    <2>1. h.chans[i].slot \in Valid
      BY <1>1, <1>3
    <2>2. ASSUME NEW k \in 1..(i - 1), h.chans[k].slot = h.chans[i].slot
          PROVE  FALSE
      <3>1. k \in DOMAIN h.chans /\ k # i
        BY ChansType
      <3>2. h.chans[k].slot # None
        BY <2>1, <2>2, NoneInvalid
      <3>3. PICK m \in DOMAIN f.chans : f.chans[m] = h.chans[k]
        BY <3>1, <3>2 DEF Edited
      <3>4. m = j
        BY <1>3, <2>2, <3>3 DEF Repaired
      <3>5. h.chans[k].id = h.chans[i].id
        BY <1>3, <3>3, <3>4
      <3> QED
        BY <3>1, <3>5 DEF FileOK
    <2> QED
      BY <2>1, <2>2 DEF Keeps
  <1> QED
    BY <1>2, <1>3

LEMMA EditFollows ==
    ASSUME NEW f, FileOK(f), Repaired(f),
           NEW h, FileOK(h), Edited(f, h), ~Exhausted(h)
    PROVE  /\ FileOK(Ensured(h))
           /\ Repaired(Ensured(h))
           /\ Follows(f, Ensured(h))
  <1> DEFINE g == Ensured(h)
  <1>1. /\ FileOK(g) /\ Repaired(g) /\ g.next >= h.next
        /\ DOMAIN g.chans = DOMAIN h.chans
        /\ \A i \in DOMAIN h.chans :
             /\ g.chans[i].id = h.chans[i].id
             /\ Keeps(h.chans, i) => g.chans[i].slot = h.chans[i].slot
             /\ ~Keeps(h.chans, i) => g.chans[i].slot >= h.next
    BY EnsuredFile
  <1> HIDE DEF g
  <1>2. ASSUME NEW i \in DOMAIN g.chans
        PROVE  \/ \E j \in DOMAIN f.chans : f.chans[j] = g.chans[i]
               \/ g.chans[i].slot >= f.next /\ ~HasLine(f, g.chans[i].id)
    <2>1. CASE Keeps(h.chans, i)
      <3>1. PICK j \in DOMAIN f.chans : f.chans[j] = h.chans[i]
        BY <1>1, <2>1, EditedKeeps
      <3>2. g.chans[i] \in Channel /\ f.chans[j] \in Channel
        BY <1>1, ChansType
      <3>3. g.chans[i].id = f.chans[j].id /\ g.chans[i].slot = f.chans[j].slot
        BY <1>1, <2>1, <3>1
      <3>4. g.chans[i] = f.chans[j]
        BY ONLY <3>2, <3>3 DEF Channel
      <3> QED
        BY <3>4
    <2>2. CASE ~Keeps(h.chans, i)
      <3>1. ~HasLine(f, h.chans[i].id)
        BY <1>1, <2>2, EditedKeeps DEF Edited
      <3> QED
        BY <1>1, <2>2, <3>1 DEF Edited
    <2> QED
      BY <2>1, <2>2
  <1>3. g.next >= f.next
    BY <1>1 DEF Edited
  <1> QED
    BY <1>1, <1>2, <1>3 DEF Follows, g

LEMMA SlotOfLine ==
    ASSUME NEW f, FileOK(f), NEW i \in DOMAIN f.chans
    PROVE  SlotOf(f, f.chans[i].id) = f.chans[i].slot
  BY DEF SlotOf, HasLine, FileOK

\* A line of both files has the same slot in both.
LEMMA FollowsKeeps ==
    ASSUME NEW f, FileOK(f), NEW g, FileOK(g), Follows(f, g),
           NEW id \in Ids, HasLine(f, id), HasLine(g, id)
    PROVE  SlotOf(g, id) = SlotOf(f, id)
  <1>1. PICK i \in DOMAIN g.chans : g.chans[i].id = id
    BY DEF HasLine
  <1>2. PICK j \in DOMAIN f.chans : f.chans[j] = g.chans[i]
    BY <1>1 DEF Follows
  <1>3. SlotOf(g, id) = g.chans[i].slot
    BY <1>1, SlotOfLine
  <1>4. SlotOf(f, id) = f.chans[j].slot
    BY <1>1, <1>2, SlotOfLine
  <1> QED
    BY <1>2, <1>3, <1>4

-----------------------------------------------------------------------------
(* The history of the slots.                                                 *)

\* The history h agrees with the lines of f, and knows no slot f can still give.
Agrees(h, f) ==
    /\ \A i \in DOMAIN f.chans : h[f.chans[i].slot] \in {None, f.chans[i].id}
    /\ \A s \in Valid : h[s] # None => s < f.next

Settled(h, f) ==
    [s \in Valid |->
        IF \E i \in DOMAIN f.chans : f.chans[i].slot = s
        THEN (CHOOSE c \in {f.chans[i] : i \in DOMAIN f.chans} : c.slot = s).id
        ELSE h[s]]

LEMMA AgreesFollows ==
    ASSUME NEW f, FileOK(f), Repaired(f), NEW g, FileOK(g), Repaired(g),
           Follows(f, g), NEW h, Agrees(h, f)
    PROVE  Agrees(h, g)
  <1>1. f.next \in Nat /\ g.next \in Nat /\ g.next >= f.next
    BY LimitType DEF FileOK, Follows
  <1>2. ASSUME NEW i \in DOMAIN g.chans
        PROVE  h[g.chans[i].slot] \in {None, g.chans[i].id}
    <2>1. g.chans[i].slot \in Valid
      BY RepairedSlots
    <2>2. CASE \E j \in DOMAIN f.chans : f.chans[j] = g.chans[i]
      BY <2>2 DEF Agrees
    <2>3. CASE g.chans[i].slot >= f.next
      <3>1. ~(g.chans[i].slot < f.next)
        BY <1>1, <2>1, <2>3 DEF Valid
      <3> QED
        BY <2>1, <3>1 DEF Agrees
    <2> QED
      BY <2>2, <2>3 DEF Follows
  <1>3. ASSUME NEW s \in Valid, h[s] # None
        PROVE  s < g.next
    <2>1. s < f.next
      BY <1>3 DEF Agrees
    <2> QED
      BY <1>1, <2>1 DEF Valid
  <1> QED
    BY <1>2, <1>3 DEF Agrees

LEMMA AgreesSettled ==
    ASSUME NEW f, FileOK(f), Repaired(f), NEW h \in [Valid -> Ids \cup {None}],
           Agrees(h, f)
    PROVE  /\ Settled(h, f) \in [Valid -> Ids \cup {None}]
           /\ Agrees(Settled(h, f), f)
  <1> DEFINE k == Settled(h, f)
  <1>1. \A i \in DOMAIN f.chans :
            f.chans[i] \in Channel /\ f.chans[i].slot \in Valid /\ f.chans[i].slot < f.next
    BY ChansType, RepairedSlots
  <1>2. ASSUME NEW i \in DOMAIN f.chans
        PROVE  k[f.chans[i].slot] = f.chans[i].id
    <2> DEFINE c == CHOOSE c \in {f.chans[j] : j \in DOMAIN f.chans} :
                        c.slot = f.chans[i].slot
    <2>1. c \in {f.chans[j] : j \in DOMAIN f.chans} /\ c.slot = f.chans[i].slot
      OBVIOUS
    <2>2. k[f.chans[i].slot] = c.id
      BY <1>1 DEF Settled
    <2> HIDE DEF c
    <2>3. PICK j \in DOMAIN f.chans : c = f.chans[j]
      BY <2>1
    <2>4. j = i
      BY <2>1, <2>3 DEF Repaired
    <2> QED
      BY <2>2, <2>3, <2>4
  <1>3. ASSUME NEW s \in Valid, ~\E i \in DOMAIN f.chans : f.chans[i].slot = s
        PROVE  k[s] = h[s]
    BY <1>3 DEF Settled
  <1>4. ASSUME NEW s \in Valid
        PROVE  k[s] \in Ids \cup {None} /\ (k[s] # None => s < f.next)
    <2>1. CASE \E i \in DOMAIN f.chans : f.chans[i].slot = s
      <3>1. PICK i \in DOMAIN f.chans : f.chans[i].slot = s
        BY <2>1
      <3>2. k[s] = f.chans[i].id /\ f.chans[i].id \in Ids /\ s < f.next
        BY <1>1, <1>2, <3>1 DEF Channel
      <3> QED
        BY <3>2
    <2>2. CASE ~\E i \in DOMAIN f.chans : f.chans[i].slot = s
      BY <1>3, <2>2 DEF Agrees
    <2> QED
      BY <2>1, <2>2
  <1>5. k = [s \in Valid |-> k[s]]
    BY DEF Settled
  <1> HIDE DEF k
  <1>6. k \in [Valid -> Ids \cup {None}]
    BY <1>4, <1>5
  <1>7. Agrees(k, f)
    BY <1>2, <1>4 DEF Agrees
  <1> QED
    BY <1>6, <1>7 DEF k

-----------------------------------------------------------------------------
(* The lists the actions hand to ensure_network_slots.                       *)

DistinctIds(chans) ==
    \A i, j \in DOMAIN chans : chans[i].id = chans[j].id => i = j

LEMMA ReplacedFile ==
    ASSUME NEW f, FileOK(f), NEW chans \in Seq(Channel), DistinctIds(chans)
    PROVE  /\ FileOK([f EXCEPT !.chans = chans])
           /\ [f EXCEPT !.chans = chans].chans = chans
           /\ [f EXCEPT !.chans = chans].next = f.next
  <1>1. [f EXCEPT !.chans = chans] = [chans |-> chans, next |-> f.next]
    BY DEF FileOK
  <1>2. f.next \in 1..(MaxSlot + 1)
    BY DEF FileOK
  <1>3. FileOK([chans |-> chans, next |-> f.next])
    BY <1>2 DEF FileOK, Channel, DistinctIds
  <1> QED
    BY <1>1, <1>3

LEMMA NewChannel ==
    ASSUME NEW id \in Ids, NEW slot, slot \in Valid \/ slot = None
    PROVE  [id |-> id, slot |-> slot] \in Channel
  <1>1. CASE slot \in Valid
    <2>1. slot \in Nat /\ slot <= 3361
      BY <1>1, LimitType DEF Valid
    <2>2. slot \in Slots
      BY <2>1, SlotType
    <2> QED
      BY <2>2 DEF Channel
  <1>2. CASE slot = None
    BY <1>2 DEF Channel, Slots
  <1> QED
    BY <1>1, <1>2

LEMMA CreatedFile ==
    ASSUME NEW f, FileOK(f), NEW id \in Ids, ~HasLine(f, id)
    PROVE  LET h == [f EXCEPT !.chans = Append(f.chans, [id |-> id, slot |-> None])]
           IN  FileOK(h) /\ Edited(f, h)
  <1> DEFINE new == [id |-> id, slot |-> None]
             chans == Append(f.chans, new)
             h == [f EXCEPT !.chans = chans]
  <1>1. f.chans \in Seq(Channel) /\ new \in Channel
    BY NewChannel DEF FileOK, Channel
  <1>2. /\ chans \in Seq(Channel)
        /\ Len(f.chans) \in Nat /\ DOMAIN f.chans = 1..Len(f.chans)
        /\ DOMAIN chans = 1..(Len(f.chans) + 1)
        /\ \A i \in 1..Len(f.chans) : chans[i] = f.chans[i]
        /\ chans[Len(f.chans) + 1] = new
    BY <1>1, AppendProperties, LenProperties
  <1>3. new.id = id /\ new.slot = None
    OBVIOUS
  <1> HIDE DEF new, chans
  <1>4. \A i \in DOMAIN chans :
            \/ i \in DOMAIN f.chans /\ chans[i] = f.chans[i]
            \/ i = Len(f.chans) + 1 /\ chans[i] = new
    BY <1>2
  <1>5. DistinctIds(chans)
    BY <1>3, <1>4 DEF DistinctIds, FileOK, HasLine
  <1>6. FileOK(h) /\ h.chans = chans /\ h.next = f.next
    BY <1>2, <1>5, ReplacedFile
  <1> HIDE DEF h
  <1>7. Edited(f, h)
    BY <1>3, <1>4, <1>6 DEF Edited
  <1> QED
    BY <1>6, <1>7 DEF h, chans, new

LEMMA DeletedFile ==
    ASSUME NEW f, FileOK(f), NEW d \in DOMAIN f.chans
    PROVE  LET h == [f EXCEPT !.chans = [j \in 1..(Len(f.chans) - 1) |->
                                             f.chans[IF j < d THEN j ELSE j + 1]]]
           IN  FileOK(h) /\ Edited(f, h)
  <1> DEFINE from(j) == IF j < d THEN j ELSE j + 1
             chans == [j \in 1..(Len(f.chans) - 1) |-> f.chans[from(j)]]
             h == [f EXCEPT !.chans = chans]
  <1>1. /\ Len(f.chans) \in Nat /\ DOMAIN f.chans = 1..Len(f.chans)
        /\ \A i \in DOMAIN f.chans : f.chans[i] \in Channel
    BY ChansType
  <1>2. Len(f.chans) - 1 \in Nat /\ d \in 1..Len(f.chans)
    BY <1>1
  <1>3. \A j \in 1..(Len(f.chans) - 1) : from(j) \in DOMAIN f.chans
    BY <1>1, <1>2
  <1>4. \A i, j \in 1..(Len(f.chans) - 1) : from(i) = from(j) => i = j
    BY <1>1, <1>2
  <1> HIDE DEF from
  <1>5. /\ DOMAIN chans = 1..(Len(f.chans) - 1)
        /\ \A j \in DOMAIN chans : from(j) \in DOMAIN f.chans /\ chans[j] = f.chans[from(j)]
    BY <1>3
  <1>6. chans \in [1..(Len(f.chans) - 1) -> Channel]
    BY <1>1, <1>3
  <1>7. chans \in Seq(Channel)
    <2> HIDE DEF chans
    <2> QED
      BY <1>2, <1>6, SeqDef
  <1> HIDE DEF chans
  <1>8. DistinctIds(chans)
    BY <1>4, <1>5 DEF DistinctIds, FileOK
  <1>9. FileOK(h) /\ h.chans = chans /\ h.next = f.next
    BY <1>7, <1>8, ReplacedFile
  <1> HIDE DEF h
  <1>10. Edited(f, h)
    BY <1>5, <1>9 DEF Edited
  <1> QED
    BY <1>9, <1>10 DEF h, chans, from

LEMMA ReplacedList ==
    ASSUME NEW f, FileOK(f), Repaired(f), NEW ids \in IdLists
    PROVE  LET h == [f EXCEPT !.chans = [i \in DOMAIN ids |->
                        [id |-> ids[i], slot |-> SlotOf(f, ids[i])]]]
           IN  FileOK(h) /\ Edited(f, h)
  <1> DEFINE chans == [i \in DOMAIN ids |-> [id |-> ids[i], slot |-> SlotOf(f, ids[i])]]
             h == [f EXCEPT !.chans = chans]
  <1>1. PICK n \in Nat : DOMAIN ids = 1..n /\ ids \in [1..n -> Ids]
    BY DEF IdLists
  <1>2. \A i, j \in DOMAIN ids : ids[i] = ids[j] => i = j
    BY DEF IdLists
  <1>3. ASSUME NEW i \in DOMAIN ids
        PROVE  /\ chans[i] \in Channel
               /\ chans[i].id = ids[i]
               /\ \/ \E j \in DOMAIN f.chans : f.chans[j] = chans[i]
                  \/ chans[i].slot = None /\ ~HasLine(f, chans[i].id)
    <2>1. ids[i] \in Ids /\ chans[i] = [id |-> ids[i], slot |-> SlotOf(f, ids[i])]
      BY <1>1
    <2> HIDE DEF chans
    <2>2. chans[i].id = ids[i] /\ chans[i].slot = SlotOf(f, ids[i])
      BY <2>1
    <2>3. CASE HasLine(f, ids[i])
      <3>1. PICK j \in DOMAIN f.chans : f.chans[j].id = ids[i]
        BY <2>3 DEF HasLine
      <3>2. SlotOf(f, ids[i]) = f.chans[j].slot
        BY <3>1, SlotOfLine
      <3>3. f.chans[j] \in Channel
        BY ChansType
      <3>4. f.chans[j] = [id |-> ids[i], slot |-> SlotOf(f, ids[i])]
        BY <3>1, <3>2, <3>3 DEF Channel
      <3>5. f.chans[j] = chans[i]
        BY <2>1, <3>4
      <3> QED
        BY <2>2, <3>3, <3>5
    <2>4. CASE ~HasLine(f, ids[i])
      <3>1. SlotOf(f, ids[i]) = None
        BY <2>4 DEF SlotOf
      <3>2. chans[i] \in Channel
        BY <2>1, <3>1, NewChannel
      <3> QED
        BY <2>2, <2>4, <3>1, <3>2
    <2> QED
      BY <2>3, <2>4
  <1>4. DOMAIN chans = 1..n /\ chans = [i \in 1..n |-> chans[i]]
    BY <1>1
  <1> HIDE DEF chans
  <1>5. chans \in [1..n -> Channel]
    BY <1>1, <1>3, <1>4
  <1>6. chans \in Seq(Channel)
    BY <1>5, SeqDef
  <1>7. DistinctIds(chans)
    BY <1>1, <1>2, <1>3, <1>4 DEF DistinctIds
  <1>8. FileOK(h) /\ h.chans = chans /\ h.next = f.next
    BY <1>6, <1>7, ReplacedFile
  <1> HIDE DEF h
  <1>9. Edited(f, h)
    BY <1>1, <1>3, <1>4, <1>8 DEF Edited
  <1> QED
    BY <1>8, <1>9 DEF h, chans

\* A repaired file written again is not renumbered.
LEMMA RestoredFile ==
    ASSUME NEW f, FileOK(f), Repaired(f)
    PROVE  Edited(f, f) /\ ~Exhausted(f)
  <1>1. Edited(f, f)
    BY DEF Edited
  <1>2. \A i \in DOMAIN f.chans : Keeps(f.chans, i)
    BY <1>1, EditedKeeps
  <1>3. Missing(f.chans, Len(f.chans)) = {}
    BY <1>2, ChansType DEF Missing
  <1> QED
    BY <1>1, <1>3 DEF Exhausted

\* A repaired file is not changed by another allocation.
LEMMA UnmovedFile ==
    ASSUME NEW f, FileOK(f), Repaired(f)
    PROVE  ~Exhausted(f) /\ Ensured(f) = f
  <1>1. ~Exhausted(f) /\ \A i \in DOMAIN f.chans : Keeps(f.chans, i)
    BY RestoredFile, EditedKeeps
  <1>2. Missing(f.chans, Len(f.chans)) = {}
    BY <1>1, ChansType DEF Missing
  <1>3. f = [chans |-> f.chans, next |-> f.next] /\ f.chans \in Seq(Channel)
    BY DEF FileOK, Channel
  <1>4. FirstFree(f) = f.next
    <2>1. FirstFree(f) \in {f.next} \cup {s + 1 : s \in Used(f.chans)}
      BY FirstFreeReached
    <2>2. ASSUME NEW s \in Used(f.chans) PROVE s + 1 <= f.next /\ s \in Nat
      <3>1. PICK i \in DOMAIN f.chans : f.chans[i].slot = s
        BY DEF Used
      <3>2. s \in 1..MaxSlot /\ s < f.next /\ f.next \in 1..(MaxSlot + 1)
        BY <3>1, RepairedSlots DEF Valid, FileOK
      <3> QED
        BY <3>2, LimitType
    <2>3. FirstFree(f) >= f.next
      BY FirstFreeBound
    <2>4. f.next \in Nat
      BY LimitType DEF FileOK
    <2> QED
      BY <2>1, <2>2, <2>3, <2>4
  <1>5. NextAfter(f) = f.next
    <2>1. f.next \in Nat
      BY LimitType DEF FileOK
    <2> QED
      BY <1>2, <1>4, <2>1, FS_EmptySet DEF NextAfter
  <1>6. [i \in DOMAIN f.chans |-> [f.chans[i] EXCEPT !.slot = SlotGiven(f, i)]] = f.chans
    <2>1. ASSUME NEW i \in DOMAIN f.chans
          PROVE  [f.chans[i] EXCEPT !.slot = SlotGiven(f, i)] = f.chans[i]
      <3>1. SlotGiven(f, i) = f.chans[i].slot
        BY <1>1, <2>1 DEF SlotGiven
      <3>2. f.chans[i] \in Channel
        BY <2>1, ChansType
      <3> QED
        BY <3>1, <3>2 DEF Channel
    <2>2. f.chans = [i \in DOMAIN f.chans |-> f.chans[i]]
      BY <1>3
    <2> QED
      BY <2>1, <2>2
  <1> QED
    BY <1>1, <1>3, <1>5, <1>6 DEF Ensured

LEMMA ClaimedFile ==
    ASSUME NEW f, FileOK(f), runtime \in [Ids -> Valid \cup {None}]
    PROVE  FileOK(Claimed(f))
  <1> DEFINE chans == [i \in DOMAIN f.chans |->
                          IF Claims(f.chans, i)
                          THEN [f.chans[i] EXCEPT !.slot = runtime[f.chans[i].id]]
                          ELSE f.chans[i]]
  <1>1. Len(f.chans) \in Nat /\ DOMAIN f.chans = 1..Len(f.chans)
    BY ChansType
  <1>2. ASSUME NEW i \in DOMAIN f.chans
        PROVE  chans[i] \in Channel /\ chans[i].id = f.chans[i].id
    <2>1. f.chans[i] \in Channel
      BY ChansType
    <2>2. CASE Claims(f.chans, i)
      <3>1. chans[i] = [f.chans[i] EXCEPT !.slot = runtime[f.chans[i].id]]
        BY <2>2
      <3> HIDE DEF chans
      <3>2. chans[i] = [id |-> f.chans[i].id, slot |-> runtime[f.chans[i].id]]
        BY <2>1, <3>1 DEF Channel
      <3>3. f.chans[i].id \in Ids
        BY <2>1 DEF Channel
      <3>4. chans[i] \in Channel
        BY <3>2, <3>3, NewChannel
      <3> QED
        BY <3>2, <3>4
    <2>3. CASE ~Claims(f.chans, i)
      BY <2>1, <2>3
    <2> QED
      BY <2>2, <2>3
  <1>3. DOMAIN chans = DOMAIN f.chans /\ chans = [i \in 1..Len(f.chans) |-> chans[i]]
    BY <1>1
  <1>4. Claimed(f) = [f EXCEPT !.chans = chans]
    BY DEF Claimed
  <1> HIDE DEF chans
  <1>5. chans \in [1..Len(f.chans) -> Channel]
    BY <1>1, <1>2, <1>3
  <1>6. chans \in Seq(Channel)
    BY <1>1, <1>5, SeqDef
  <1>7. DistinctIds(chans)
    BY <1>2, <1>3 DEF DistinctIds, FileOK
  <1> QED
    BY <1>4, <1>6, <1>7, ReplacedFile

-----------------------------------------------------------------------------
(* The inductive invariant.                                                  *)

\* Before the repair nothing was given.
Untouched == ~running => pending = None /\ \A s \in Valid : given[s] = None

FileGood == running => Repaired(file) /\ Agrees(given, file)

\* The file before the edit is as good, and the edit kept its lines.
EditGood ==
    pending # None =>
        running /\ Repaired(pending) /\ Agrees(given, pending) /\ Follows(pending, file)

IInv == TypeOK /\ Untouched /\ FileGood /\ EditGood

LEMMA InitGood == Init => IInv
  <1> SUFFICES ASSUME Init PROVE IInv
    OBVIOUS
  <1>1. PICK ids \in IdLists, slots \in [Ids -> LegacySlots], n \in LegacyNext :
            file = [chans |-> [i \in DOMAIN ids |->
                                  [id |-> ids[i], slot |-> slots[ids[i]]]],
                    next |-> n]
    BY DEF Init
  <1>2. PICK m \in Nat : DOMAIN ids = 1..m /\ ids \in [1..m -> Ids]
    BY DEF IdLists
  <1> DEFINE chans == [i \in 1..m |-> [id |-> ids[i], slot |-> slots[ids[i]]]]
  <1>3. LegacySlots \subseteq Slots
    <2> DEFINE S == 0..3361
    <2>1. LegacySlots \subseteq S \cup {None} /\ Slots = S \cup {None}
      BY SlotAssumption DEF Slots
    <2> HIDE DEF S
    <2> QED
      BY ONLY <2>1
  <1>4. n \in 1..(MaxSlot + 1)
    BY SlotAssumption
  <1>5. \A i \in 1..m : chans[i] \in Channel
    <2> TAKE i \in 1..m
    <2>1. ids[i] \in Ids
      BY <1>2
    <2>2. slots[ids[i]] \in Slots
      BY <1>3, <2>1
    <2> QED
      BY <2>1, <2>2 DEF Channel
  <1>6. chans \in [1..m -> Channel]
    BY <1>5
  <1>7. DistinctIds(chans)
    BY <1>2 DEF DistinctIds, IdLists
  <1>8. file = [chans |-> chans, next |-> n]
    BY <1>1, <1>2
  <1> HIDE DEF chans
  <1>9. chans \in Seq(Channel)
    BY <1>6, SeqDef
  <1>10. FileOK(file)
    BY <1>4, <1>7, <1>8, <1>9 DEF FileOK, Channel, DistinctIds
  <1>11. pending = None /\ running = FALSE /\ given = [s \in Valid |-> None]
    BY DEF Init
  <1>12. given \in [Valid -> Ids \cup {None}] /\ \A s \in Valid : given[s] = None
    BY <1>11
  <1>13. runtime \in [Ids -> Valid \cup {None}]
    BY DEF Init
  <1> QED
    BY <1>10, <1>11, <1>12, <1>13 DEF IInv, TypeOK, Untouched, FileGood, EditGood

LEMMA RepairGood ==
    ASSUME IInv, NEW f, FileOK(f), Repair(f)
    PROVE  IInv'
  <1>1. /\ ~running /\ running' = TRUE /\ pending = None /\ pending' = None
        /\ file' = Ensured(f) /\ given' = Settled(given, file') /\ runtime' = runtime
        /\ ~Exhausted(f)
    BY DEF Repair, IInv, Untouched, Settle, Settled
  <1>2. FileOK(file') /\ Repaired(file')
    BY <1>1, EnsuredFile
  <1>3. given \in [Valid -> Ids \cup {None}] /\ \A s \in Valid : given[s] = None
    BY <1>1 DEF IInv, TypeOK, Untouched
  <1>4. Agrees(given, file')
    BY <1>2, <1>3, RepairedSlots DEF Agrees
  <1>5. given' \in [Valid -> Ids \cup {None}] /\ Agrees(given', file')
    BY <1>1, <1>2, <1>3, <1>4, AgreesSettled
  <1>6. TypeOK'
    BY <1>1, <1>2, <1>5 DEF TypeOK, IInv
  <1> QED
    BY <1>1, <1>2, <1>5, <1>6 DEF IInv, Untouched, FileGood, EditGood

\* The facts the edits share: h is what the edit hands to ensure_network_slots.
LEMMA EditedFile ==
    ASSUME IInv, running, NEW h, FileOK(h), Edited(file, h), ~Exhausted(h),
           file' = Ensured(h)
    PROVE  /\ FileOK(file') /\ Repaired(file') /\ Follows(file, file')
           /\ Agrees(given, file')
  <1>1. FileOK(file) /\ Repaired(file) /\ Agrees(given, file)
    BY DEF IInv, TypeOK, FileGood
  <1>2. FileOK(file') /\ Repaired(file') /\ Follows(file, file')
    BY <1>1, EditFollows
  <1> QED
    BY <1>1, <1>2, AgreesFollows

LEMMA EditIsGood ==
    ASSUME IInv, NEW chans, Edit(chans),
           FileOK([file EXCEPT !.chans = chans]), Edited(file, [file EXCEPT !.chans = chans])
    PROVE  IInv' /\ Follows(file, file')
  <1>1. /\ running /\ running' = running /\ pending = None /\ pending' = file
        /\ ~Exhausted([file EXCEPT !.chans = chans])
        /\ file' = Ensured([file EXCEPT !.chans = chans])
        /\ given' = given /\ runtime' = runtime
    BY DEF Edit
  <1>2. /\ FileOK(file') /\ Repaired(file') /\ Follows(file, file')
        /\ Agrees(given, file')
    BY <1>1, EditedFile
  <1>3. FileOK(file) /\ Repaired(file) /\ Agrees(given, file)
    BY <1>1 DEF IInv, TypeOK, FileGood
  <1>4. TypeOK'
    BY <1>1, <1>2, <1>3 DEF TypeOK, IInv
  <1> QED
    BY <1>1, <1>2, <1>3, <1>4 DEF IInv, Untouched, FileGood, EditGood

LEMMA CreateGood ==
    ASSUME IInv, NEW id \in Ids, Create(id)
    PROVE  IInv' /\ Follows(file, file')
  <1>1. ~HasLine(file, id) /\ Edit(Append(file.chans, [id |-> id, slot |-> None]))
    BY DEF Create
  <1>2. FileOK(file)
    BY DEF IInv, TypeOK
  <1> QED
    BY <1>1, <1>2, CreatedFile, EditIsGood

LEMMA DeleteGood ==
    ASSUME IInv, NEW i \in DOMAIN file.chans, Delete(i)
    PROVE  IInv' /\ Follows(file, file')
  <1>1. Edit([j \in 1..(Len(file.chans) - 1) |->
                 file.chans[IF j < i THEN j ELSE j + 1]])
    BY DEF Delete
  <1>2. FileOK(file)
    BY DEF IInv, TypeOK
  <1> QED
    BY <1>1, <1>2, DeletedFile, EditIsGood

LEMMA FinishGood ==
    ASSUME IInv, Finish
    PROVE  IInv' /\ file' = file
  <1>1. /\ running /\ running' = running /\ pending' = None /\ file' = file
        /\ given' = Settled(given, file) /\ runtime' = runtime
    BY DEF Finish, IInv, EditGood, Settle, Settled
  <1>2. /\ FileOK(file) /\ Repaired(file) /\ Agrees(given, file)
        /\ given \in [Valid -> Ids \cup {None}]
    BY <1>1 DEF IInv, TypeOK, FileGood
  <1>3. given' \in [Valid -> Ids \cup {None}] /\ Agrees(given', file)
    BY <1>1, <1>2, AgreesSettled
  <1>4. TypeOK'
    BY <1>1, <1>2, <1>3 DEF TypeOK, IInv
  <1> QED
    BY <1>1, <1>2, <1>3, <1>4 DEF IInv, Untouched, FileGood, EditGood

LEMMA RollBackGood ==
    ASSUME IInv, RollBack
    PROVE  /\ IInv'
           /\ FileOK(pending) /\ Follows(pending, file)
           /\ FileOK(file') /\ Follows(pending, file')
           /\ \A id : HasLine(file', id) => HasLine(pending, id)
  <1>1. /\ pending # None /\ running /\ running' = running /\ pending' = None
        /\ file' = Ensured(pending)
        /\ given' = given /\ runtime' = runtime
    BY DEF RollBack, IInv, EditGood
  <1>2. FileOK(pending) /\ Repaired(pending) /\ Agrees(given, pending)
        /\ Follows(pending, file)
    BY <1>1 DEF IInv, TypeOK, EditGood
  <1>3. Edited(pending, pending) /\ ~Exhausted(pending)
    BY <1>2, RestoredFile
  <1>4. FileOK(file') /\ Repaired(file') /\ Follows(pending, file')
    BY <1>1, <1>2, <1>3, EditFollows
  <1>5. Agrees(given, file')
    BY <1>2, <1>4, AgreesFollows
  <1>6. \A id : HasLine(file', id) => HasLine(pending, id)
    BY <1>1, <1>2, <1>3, EnsuredFile DEF HasLine
  <1>7. TypeOK'
    BY <1>1, <1>4 DEF TypeOK, IInv
  <1> QED
    BY <1>1, <1>2, <1>4, <1>5, <1>6, <1>7 DEF IInv, Untouched, FileGood, EditGood

LEMMA ReplaceGood ==
    ASSUME IInv, NEW ids \in IdLists, ReplaceAll(ids)
    PROVE  IInv' /\ Follows(file, file')
  <1> DEFINE h == [file EXCEPT !.chans = [i \in DOMAIN ids |->
                      [id |-> ids[i], slot |-> SlotOf(file, ids[i])]]]
  <1>1. /\ running /\ running' = running /\ pending = None /\ pending' = None
        /\ ~Exhausted(h) /\ file' = Ensured(h)
        /\ given' = Settled(given, file') /\ runtime' = runtime
    BY DEF ReplaceAll, Settle, Settled
  <1>2. /\ FileOK(file) /\ Repaired(file)
        /\ given \in [Valid -> Ids \cup {None}]
    BY <1>1 DEF IInv, TypeOK, FileGood
  <1>3. FileOK(h) /\ Edited(file, h)
    BY <1>2, ReplacedList
  <1> HIDE DEF h
  <1>4. /\ FileOK(file') /\ Repaired(file') /\ Follows(file, file')
        /\ Agrees(given, file')
    BY <1>1, <1>3, EditedFile
  <1>5. given' \in [Valid -> Ids \cup {None}] /\ Agrees(given', file')
    BY <1>1, <1>2, <1>4, AgreesSettled
  <1>6. TypeOK'
    BY <1>1, <1>4, <1>5 DEF TypeOK, IInv
  <1> QED
    BY <1>1, <1>4, <1>5, <1>6 DEF IInv, Untouched, FileGood, EditGood

LEMMA StepGood == IInv /\ [Next]_vars => IInv'
  <1> SUFFICES ASSUME IInv, [Next]_vars PROVE IInv'
    OBVIOUS
  <1>0. FileOK(file) /\ runtime \in [Ids -> Valid \cup {None}]
    BY DEF IInv, TypeOK
  <1>1. CASE Migrate
    BY <1>0, <1>1, ClaimedFile, RepairGood DEF Migrate
  <1>2. CASE FirstLoad
    BY <1>0, <1>2, RepairGood DEF FirstLoad
  <1>3. ASSUME NEW id \in Ids, Create(id) PROVE IInv'
    BY <1>3, CreateGood
  <1>4. ASSUME NEW i \in DOMAIN file.chans, Delete(i) PROVE IInv'
    BY <1>4, DeleteGood
  <1>5. CASE Finish
    BY <1>5, FinishGood
  <1>6. CASE RollBack
    BY <1>6, RollBackGood
  <1>7. ASSUME NEW ids \in IdLists, ReplaceAll(ids) PROVE IInv'
    BY <1>7, ReplaceGood
  <1>8. CASE UNCHANGED vars
    BY <1>8 DEF vars, IInv, TypeOK, Untouched, FileGood, EditGood
  <1> QED
    BY <1>1, <1>2, <1>3, <1>4, <1>5, <1>6, <1>7, <1>8 DEF Next

LEMMA InvariantHolds == Spec => []IInv
  BY InitGood, StepGood, PTL DEF Spec

-----------------------------------------------------------------------------
(* The properties.                                                           *)

\* Every reachable state has the types of TypeOK: load_config never finds a file
\* whose slots or counter are outside the limits of migrate_channel_config.
THEOREM TypeCorrect == Spec => []TypeOK
  <1>1. IInv => TypeOK
    BY DEF IInv
  <1> QED
    BY <1>1, InvariantHolds, PTL

\* The lines of the repaired file have valid slots of their own, all below the
\* next one: no two lines share a subnet, whatever ensure_network_slots repairs.
THEOREM DistinctSlots == Spec => [](running => Repaired(file))
  <1>1. IInv => (running => Repaired(file))
    BY DEF IInv, FileGood
  <1> QED
    BY <1>1, InvariantHolds, PTL

\* "Allocate once": a file that has been through the allocation is not changed by
\* another one, nor does that fail.  So the daemon and the provisioning script, which
\* allocate on every load and write the file if that changed it, leave it alone.
THEOREM AllocatedOnce ==
    ASSUME NEW f, FileOK(f), ~Exhausted(f)
    PROVE  ~Exhausted(Ensured(f)) /\ Ensured(Ensured(f)) = Ensured(f)
  <1> DEFINE g == Ensured(f)
  <1>1. FileOK(g) /\ Repaired(g)
    BY EnsuredFile
  <1> HIDE DEF g
  <1>2. ~Exhausted(g) /\ Ensured(g) = g
    BY <1>1, UnmovedFile
  <1> QED
    BY <1>2 DEF g

LEMMA ApartHere == IInv => AddressesApart
  <1> SUFFICES ASSUME IInv, running,
                      NEW i \in DOMAIN file.chans, NEW j \in DOMAIN file.chans
               PROVE  /\ InRange(Subnet(file.chans[i].slot))
                      /\ SlotOfAddress(ProxyAddress(file.chans[i].slot)) = file.chans[i].slot
                      /\ i # j => Subnet(file.chans[i].slot) # Subnet(file.chans[j].slot)
    BY DEF AddressesApart
  <1> DEFINE s == file.chans[i].slot
             t == file.chans[j].slot
  <1>1. FileOK(file) /\ Repaired(file)
    BY DEF IInv, TypeOK, FileGood
  <1>2. s \in Valid /\ t \in Valid /\ (s = t => i = j)
    BY <1>1, RepairedSlots DEF Repaired
  <1> HIDE DEF s, t
  <1>3. s \in Addressed /\ t \in Addressed
    BY <1>2, LimitType DEF Valid, Addressed
  <1>4. InRange(Subnet(s)) /\ SlotOfAddress(ProxyAddress(s)) = s
    BY <1>3, AddressOfSlot, Zenon
  <1>5. Subnet(s) = Subnet(t) => i = j
    BY <1>2, <1>3, SubnetInjective, Zenon
  <1> QED
    BY ONLY <1>4, <1>5 DEF s, t

\* channel_network gives the lines of the repaired file different /30 subnets in
\* 10.253.200.0 to 10.253.255.255, and slot_from_proxy_address undoes it.
THEOREM DistinctSubnets == Spec => []AddressesApart
  BY ApartHere, InvariantHolds, PTL

LEMMA KeptHere ==
    IInv /\ [Next]_vars =>
        [running => \A id \in Ids : HasLine(file, id) /\ HasLine(file', id)
                      => SlotOf(file', id) = SlotOf(file, id)]_vars
  <1> SUFFICES ASSUME IInv, Next, running,
                      NEW c \in Ids, HasLine(file, c), HasLine(file', c)
               PROVE  SlotOf(file', c) = SlotOf(file, c)
    OBVIOUS
  <1>1. FileOK(file)
    BY DEF IInv, TypeOK
  <1>2. ASSUME IInv', Follows(file, file')
        PROVE  SlotOf(file', c) = SlotOf(file, c)
    <2>1. FileOK(file')
      BY <1>2 DEF IInv, TypeOK
    <2> QED
      BY <1>1, <1>2, <2>1, FollowsKeeps
  <1>3. CASE Migrate \/ FirstLoad
    BY <1>3 DEF Migrate, FirstLoad, Repair
  <1>4. ASSUME NEW id \in Ids, Create(id) PROVE SlotOf(file', c) = SlotOf(file, c)
    BY <1>2, <1>4, CreateGood
  <1>5. ASSUME NEW i \in DOMAIN file.chans, Delete(i)
        PROVE  SlotOf(file', c) = SlotOf(file, c)
    BY <1>2, <1>5, DeleteGood
  <1>6. CASE Finish
    BY <1>6 DEF Finish
  <1>7. CASE RollBack
    <2>1. /\ FileOK(pending) /\ Follows(pending, file)
          /\ FileOK(file') /\ Follows(pending, file')
          /\ HasLine(pending, c)
      BY <1>7, RollBackGood
    <2>2. SlotOf(file, c) = SlotOf(pending, c)
      BY <1>1, <2>1, FollowsKeeps
    <2>3. SlotOf(file', c) = SlotOf(pending, c)
      BY <2>1, FollowsKeeps
    <2> QED
      BY <2>2, <2>3
  <1>8. ASSUME NEW ids \in IdLists, ReplaceAll(ids)
        PROVE  SlotOf(file', c) = SlotOf(file, c)
    BY <1>2, <1>8, ReplaceGood
  <1> QED
    BY <1>3, <1>4, <1>5, <1>6, <1>7, <1>8 DEF Next

\* No edit of the repaired file, finished or undone, renumbers a line that is
\* there before and after it.
THEOREM AddressesKept == Spec => AddressKept
  BY KeptHere, InvariantHolds, PTL DEF Spec, AddressKept

\* A slot that a finished edit gave to a line is never the slot of another one.
THEOREM SlotsNeverReissued == Spec => []NeverReissued
  <1>1. IInv => NeverReissued
    BY DEF IInv, FileGood, Agrees, NeverReissued
  <1> QED
    BY <1>1, InvariantHolds, PTL

\* Where a connected line may keep its address, the claim makes it keep it.
LEMMA ClaimedLine ==
    ASSUME IInv, Used(file.chans) = {}, NEW i \in DOMAIN file.chans,
           runtime[file.chans[i].id] # None,
           \A j \in DOMAIN file.chans \ {i} :
               runtime[file.chans[j].id] # runtime[file.chans[i].id]
    PROVE  /\ DOMAIN Claimed(file).chans = DOMAIN file.chans
           /\ Claimed(file).chans[i].id = file.chans[i].id
           /\ Claimed(file).chans[i].slot = runtime[file.chans[i].id]
           /\ Keeps(Claimed(file).chans, i)
  <1> DEFINE slot == runtime[file.chans[i].id]
             chans == [j \in DOMAIN file.chans |->
                          IF Claims(file.chans, j)
                          THEN [file.chans[j] EXCEPT !.slot = runtime[file.chans[j].id]]
                          ELSE file.chans[j]]
  <1>1. FileOK(file) /\ runtime \in [Ids -> Valid \cup {None}]
    BY DEF IInv, TypeOK
  <1>2. /\ Len(file.chans) \in Nat /\ DOMAIN file.chans = 1..Len(file.chans)
        /\ \A j \in DOMAIN file.chans : file.chans[j] \in Channel
    BY <1>1, ChansType
  <1>3. \A j \in DOMAIN file.chans : file.chans[j].slot \notin Valid
    BY DEF Used
  <1>4. slot \in Valid /\ slot # None
    BY <1>1, <1>2 DEF Channel
  <1>5. \A j \in 1..(i - 1) : j \in DOMAIN file.chans \ {i}
    BY <1>2
  <1>6. Claims(file.chans, i)
    BY <1>3, <1>4, <1>5 DEF Claims
  <1>7. Claimed(file).chans = chans
    <2>1. Claimed(file) = [file EXCEPT !.chans = chans]
      BY DEF Claimed
    <2>2. file \in [chans : Seq(Channel), next : 1..(MaxSlot + 1)]
      BY <1>1 DEF FileOK, Channel
    <2> HIDE DEF chans
    <2> QED
      BY <2>1, <2>2
  <1>8. \A j \in DOMAIN file.chans :
            /\ Claims(file.chans, j) => chans[j].slot = runtime[file.chans[j].id]
            /\ ~Claims(file.chans, j) => chans[j].slot = file.chans[j].slot
            /\ chans[j].id = file.chans[j].id
    BY <1>2 DEF Channel
  <1>9. DOMAIN chans = DOMAIN file.chans
    OBVIOUS
  <1> HIDE DEF chans, slot
  <1>10. chans[i].slot = slot /\ chans[i].id = file.chans[i].id
    BY <1>6, <1>8 DEF slot
  <1>11. \A j \in 1..(i - 1) : chans[j].slot # slot
    BY <1>3, <1>4, <1>5, <1>8 DEF slot
  <1>12. Keeps(chans, i)
    BY <1>4, <1>10, <1>11 DEF Keeps
  <1> QED
    BY <1>7, <1>9, <1>10, <1>12 DEF slot

LEMMA HealthyHere ==
    ASSUME IInv, Migrate, Used(file.chans) = {}, NEW i \in DOMAIN file.chans,
           runtime[file.chans[i].id] # None,
           \A j \in DOMAIN file.chans \ {i} :
               runtime[file.chans[j].id] # runtime[file.chans[i].id]
    PROVE  SlotOf(file', file.chans[i].id) = runtime[file.chans[i].id]
  <1> DEFINE g == Claimed(file)
  <1>1. FileOK(g) /\ ~Exhausted(g) /\ file' = Ensured(g)
    BY ClaimedFile DEF IInv, TypeOK, Migrate, Repair
  <1>2. /\ i \in DOMAIN g.chans /\ g.chans[i].id = file.chans[i].id
        /\ g.chans[i].slot = runtime[file.chans[i].id] /\ Keeps(g.chans, i)
    BY ClaimedLine
  <1> HIDE DEF g
  <1>3. /\ FileOK(file') /\ i \in DOMAIN file'.chans
        /\ file'.chans[i].id = file.chans[i].id
        /\ file'.chans[i].slot = runtime[file.chans[i].id]
    BY <1>1, <1>2, EnsuredFile
  <1> QED
    BY <1>3, SlotOfLine

\* The migration of a file without slots leaves every connected line at the
\* address it uses, unless another line uses the same.
THEOREM HealthyLinesStay == Spec => HealthyStay
  <1>1. IInv /\ [Next]_vars =>
            [Migrate /\ Used(file.chans) = {} =>
                \A i \in DOMAIN file.chans :
                    LET id == file.chans[i].id IN
                    /\ runtime[id] # None
                    /\ \A j \in DOMAIN file.chans \ {i} :
                           runtime[file.chans[j].id] # runtime[id]
                    => SlotOf(file', id) = runtime[id]]_vars
    BY HealthyHere
  <1> QED
    BY <1>1, InvariantHolds, PTL DEF Spec, HealthyStay
===========================================================================
