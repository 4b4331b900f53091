------------------------- MODULE SlabAllocatorProofs -------------------------
(***************************************************************************)
(* What holds of SlabAllocator, and of AllocStress, for every number of    *)
(* threads, object sizes, slab size, memory and requests.                  *)
(***************************************************************************)
EXTENDS AllocStress, Lemmas

-----------------------------------------------------------------------------
(* Slabs and the groups their lists stand for.                             *)

Slab == [cache : Caches, bitmap : SUBSET Nat, num_used : Nat]

\* The count agrees with the bitmap.
Counted(s) ==
  s.bitmap \subseteq Slots(s.cache) /\ s.num_used = Cardinality(s.bitmap)

FullOnes(c, sl)  == {s \in DOMAIN sl : sl[s].cache = c /\ IsFull(sl[s])}
EmptyOnes(c, sl) == {s \in DOMAIN sl : sl[s].cache = c /\ IsEmpty(sl[s])}
PartialOnes(c, sl) ==
  {s \in DOMAIN sl : sl[s].cache = c /\ ~IsFull(sl[s]) /\ ~IsEmpty(sl[s])}

LEMMA CachesType ==
  /\ Caches \subseteq Nat /\ SlabSize \in Nat \ {0}
  /\ \A c \in Caches : CacheSizes[c] \in Nat \ {0} /\ CacheSizes[c] <= SlabSize
<1>1. /\ Len(CacheSizes) \in Nat /\ Caches = 1 .. Len(CacheSizes)
      /\ \A c \in Caches : CacheSizes[c] \in Nat \ {0} /\ CacheSizes[c] <= SlabSize
  BY SlabAssumption DEF Caches
<1>2. 1 \in Caches
  BY <1>1, SlabAssumption DEF Caches
<1> QED
  BY <1>1, <1>2, SlabAssumption

\* A slab has a slot at least, and its slots fit in it.
LEMMA SlotsFit ==
  ASSUME NEW c \in Caches
  PROVE  /\ NumSlots(c) \in Nat \ {0}
         /\ NumSlots(c) * CacheSizes[c] <= SlabSize
         /\ NumSlots(c) <= SlabSize
<1>1. SlabSize \in Nat \ {0} /\ CacheSizes[c] \in Nat \ {0} /\ CacheSizes[c] <= SlabSize
  BY CachesType
<1>2. \A a, b \in Nat \ {0} : b <= a => /\ a \div b \in Nat \ {0}
                                         /\ (a \div b) * b <= a
                                         /\ a \div b <= a
  OBVIOUS
<1> QED
  BY <1>1, <1>2 DEF NumSlots

LEMMA SlotsFinite ==
  ASSUME NEW c \in Caches, NEW S \in SUBSET Slots(c)
  PROVE  IsFiniteSet(S) /\ Cardinality(S) \in Nat /\ S \subseteq 0 .. SlabSize
<1>1. NumSlots(c) \in Nat /\ NumSlots(c) <= SlabSize /\ SlabSize \in Nat
  BY SlotsFit, CachesType
<1>2. IsFiniteSet(Slots(c))
  BY <1>1, FS_Interval DEF Slots
<1>3. Slots(c) \subseteq 0 .. SlabSize
  BY <1>1 DEF Slots
<1> QED
  BY <1>2, <1>3, FS_Subset, FS_CardinalityType

LEMMA WithSlotCounted ==
  ASSUME NEW s \in Slab, Counted(s), NEW slot \in Slots(s.cache), slot \notin s.bitmap
  PROVE  /\ WithSlot(s, slot) \in Slab /\ Counted(WithSlot(s, slot))
         /\ WithSlot(s, slot).cache = s.cache
         /\ WithSlot(s, slot).bitmap = s.bitmap \cup {slot}
         /\ ~IsEmpty(WithSlot(s, slot))
<1> DEFINE n == WithSlot(s, slot)
<1>1. /\ s.cache \in Caches /\ s.bitmap \in SUBSET Nat /\ s.num_used \in Nat
      /\ slot \in Nat
  BY CachesType DEF Slab, Slots
<1>2. n = [cache |-> s.cache, bitmap |-> s.bitmap \cup {slot},
           num_used |-> s.num_used + 1]
  <2> DEFINE b == s.bitmap \cup {slot}
             m == s.num_used + 1
  <2>1. n = [s EXCEPT !.bitmap = b, !.num_used = m]
    BY DEF WithSlot
  <2> HIDE DEF b, m, n
  <2>2. n = [cache |-> s.cache, bitmap |-> b, num_used |-> m]
    BY <2>1 DEF Slab
  <2> QED
    BY <2>2 DEF b, m
<1>3. Cardinality(s.bitmap \cup {slot}) = s.num_used + 1
  BY <1>1, SlotsFinite, FS_AddElement DEF Counted
<1> HIDE DEF n
<1>4. n.cache = s.cache /\ n.bitmap = s.bitmap \cup {slot} /\ n.num_used = s.num_used + 1
  BY <1>2
<1>5. n \in Slab
  BY <1>1, <1>2 DEF Slab
<1>6. Counted(n)
  BY <1>3, <1>4 DEF Counted
<1>7. ~IsEmpty(n)
  BY <1>1, <1>4 DEF IsEmpty
<1> QED
  BY <1>4, <1>5, <1>6, <1>7 DEF n

LEMMA WithoutSlotCounted ==
  ASSUME NEW s \in Slab, Counted(s), NEW slot \in s.bitmap
  PROVE  /\ WithoutSlot(s, slot) \in Slab /\ Counted(WithoutSlot(s, slot))
         /\ WithoutSlot(s, slot).cache = s.cache
         /\ WithoutSlot(s, slot).bitmap = s.bitmap \ {slot}
         /\ ~IsFull(WithoutSlot(s, slot)) /\ ~IsEmpty(s)
<1> DEFINE n == WithoutSlot(s, slot)
<1>1. /\ s.cache \in Caches /\ s.bitmap \in SUBSET Nat /\ s.num_used \in Nat
  BY DEF Slab
<1>2. n = [cache |-> s.cache, bitmap |-> s.bitmap \ {slot},
           num_used |-> s.num_used - 1]
  BY DEF WithoutSlot, Slab
<1>3. IsFiniteSet(s.bitmap) /\ s.num_used = Cardinality(s.bitmap)
  BY <1>1, SlotsFinite DEF Counted
<1>4. Cardinality(s.bitmap \ {slot}) = s.num_used - 1
  BY <1>3, FS_RemoveElement
<1>5. IsFiniteSet(s.bitmap \ {slot}) /\ s.num_used - 1 \in Nat
  BY <1>3, <1>4, FS_RemoveElement, FS_CardinalityType
<1>6. s.num_used <= NumSlots(s.cache)
  <2>1. NumSlots(s.cache) \in Nat
    BY <1>1, SlotsFit
  <2>2. IsFiniteSet(Slots(s.cache)) /\ Cardinality(Slots(s.cache)) = NumSlots(s.cache)
    <3> DEFINE k == NumSlots(s.cache)
    <3>1. k \in Nat /\ Slots(s.cache) = 0 .. k - 1
      BY <2>1 DEF Slots
    <3> HIDE DEF k
    <3>2. IsFiniteSet(0 .. k - 1) /\ Cardinality(0 .. k - 1) = k
      BY <3>1, FS_Interval
    <3> QED
      BY <3>1, <3>2 DEF k
  <2> QED
    BY <1>3, <2>2, FS_Subset DEF Counted
<1> HIDE DEF n
<1>7. n.cache = s.cache /\ n.bitmap = s.bitmap \ {slot} /\ n.num_used = s.num_used - 1
  BY <1>2
<1>8. n \in Slab
  BY <1>1, <1>2, <1>5 DEF Slab
<1>9. Counted(n)
  BY <1>4, <1>7 DEF Counted
<1>10. ~IsFull(n) /\ ~IsEmpty(s)
  BY <1>1, <1>5, <1>6, <1>7, SlotsFit DEF IsFull, IsEmpty
<1> QED
  BY <1>7, <1>8, <1>9, <1>10 DEF n

\* Slab s, which may be new, changes and the others do not.
Updated(sl, nl, s, c) ==
  /\ DOMAIN nl = DOMAIN sl \cup {s}
  /\ nl[s].cache = c
  /\ s \in DOMAIN sl => sl[s].cache = c
  /\ \A x \in DOMAIN sl : x # s => nl[x] = sl[x]

LEMMA Regrouped ==
  ASSUME NEW sl, NEW nl, NEW s, NEW c, Updated(sl, nl, s, c), NEW d
  PROVE  /\ FullOnes(d, nl) = (FullOnes(d, sl) \ {s}) \cup
                 (IF d = c /\ IsFull(nl[s]) THEN {s} ELSE {})
         /\ EmptyOnes(d, nl) = (EmptyOnes(d, sl) \ {s}) \cup
                 (IF d = c /\ IsEmpty(nl[s]) THEN {s} ELSE {})
         /\ PartialOnes(d, nl) = (PartialOnes(d, sl) \ {s}) \cup
                 (IF d = c /\ ~IsFull(nl[s]) /\ ~IsEmpty(nl[s]) THEN {s} ELSE {})
<1>1. FullOnes(d, nl) = (FullOnes(d, sl) \ {s}) \cup
                 (IF d = c /\ IsFull(nl[s]) THEN {s} ELSE {})
  BY DEF Updated, FullOnes
<1>2. EmptyOnes(d, nl) = (EmptyOnes(d, sl) \ {s}) \cup
                 (IF d = c /\ IsEmpty(nl[s]) THEN {s} ELSE {})
  BY DEF Updated, EmptyOnes
<1>3. PartialOnes(d, nl) = (PartialOnes(d, sl) \ {s}) \cup
                 (IF d = c /\ ~IsFull(nl[s]) /\ ~IsEmpty(nl[s]) THEN {s} ELSE {})
  BY DEF Updated, PartialOnes
<1> QED
  BY <1>1, <1>2, <1>3

-----------------------------------------------------------------------------
(* The inductive invariant.  SlotsAccounted says of each slot how many owners *)
(* it has; to keep that true one needs to know that owners never share, that *)
(* they name existing slabs of their own cache, and that a used slot has one. *)

TypesInv ==
  /\ id_map \in [DOMAIN id_map -> Records]
  /\ DOMAIN id_map \subseteq 1 .. next_id - 1
  /\ total_size \in Nat /\ next_slab_address \in Nat /\ next_id \in Nat \ {0}
  /\ total_allocations \in [Caches -> Nat] /\ total_frees \in [Caches -> Nat]
  /\ cache_lock \in [Caches -> Threads \cup {NoThread}]
  /\ pc \in [Threads -> {"idle", "publish", "free"}]
  /\ job \in [Threads -> Records \cup {NoJob}]

SlabsInv ==
  /\ slabs \in [DOMAIN slabs -> Slab] /\ DOMAIN slabs \subseteq Nat
  /\ \A s \in DOMAIN slabs : Counted(slabs[s])

\* Slabs lie one behind the other in the memory given out so far.
PlacedInv ==
  /\ next_slab_address <= total_size
  /\ \A s \in DOMAIN slabs : s + SlabSize <= next_slab_address
  /\ \A s, r \in DOMAIN slabs : s # r => s + SlabSize <= r \/ r + SlabSize <= s

ListsInv ==
  /\ partial \in [Caches -> Seq(Nat)] /\ full \in [Caches -> Seq(Nat)]
  /\ empty \in [Caches -> Seq(Nat)]
  /\ \A c \in Caches : /\ Lists(partial[c], PartialOnes(c, slabs))
                       /\ Lists(full[c], FullOnes(c, slabs))
                       /\ Lists(empty[c], EmptyOnes(c, slabs))

At(r, s, slot) == r.slab = s /\ r.slot_index = slot
SameSlot(q, r) == q.slab = r.slab /\ q.slot_index = r.slot_index

\* r is the record of a used slot.
Holds(r) ==
  /\ r \in Records
  /\ r.slab \in DOMAIN slabs
  /\ slabs[r.slab].cache = r.cache_index
  /\ r.slot_index \in slabs[r.slab].bitmap

OwnersInv ==
  /\ \A i \in DOMAIN id_map : Holds(id_map[i])
  /\ \A t \in Busy : Holds(job[t])
  /\ \A i, j \in DOMAIN id_map : SameSlot(id_map[i], id_map[j]) => i = j
  /\ \A t, u \in Busy : SameSlot(job[t], job[u]) => t = u
  /\ \A i \in DOMAIN id_map, t \in Busy : ~SameSlot(id_map[i], job[t])
  /\ \A s \in DOMAIN slabs : \A slot \in slabs[s].bitmap :
       \/ \E i \in DOMAIN id_map : At(id_map[i], s, slot)
       \/ \E t \in Busy : At(job[t], s, slot)

IInv == TypesInv /\ SlabsInv /\ PlacedInv /\ ListsInv /\ OwnersInv

LEMMA NewSlabCounted ==
  ASSUME NEW c \in Caches
  PROVE  /\ NewSlab(c) \in Slab /\ Counted(NewSlab(c))
         /\ NewSlab(c).cache = c /\ NewSlab(c).bitmap = {}
<1>1. NewSlab(c).cache = c /\ NewSlab(c).bitmap = {} /\ NewSlab(c).num_used = 0
  BY DEF NewSlab
<1>2. NewSlab(c) \in Slab
  BY DEF NewSlab, Slab
<1>3. Counted(NewSlab(c))
  BY <1>1, FS_EmptySet DEF Counted
<1> QED
  BY <1>1, <1>2, <1>3

\* The empty allocator.
LEMMA NoSlabs ==
  ASSUME slabs = Nothing, id_map = Nothing, Busy = {},
         partial = [c \in Caches |-> <<>>], full = partial, empty = partial,
         next_slab_address = 0, total_size \in Nat
  PROVE  SlabsInv /\ PlacedInv /\ ListsInv /\ OwnersInv
<1>1. /\ DOMAIN slabs = {} /\ DOMAIN id_map = {}
      /\ slabs \in [DOMAIN slabs -> Slab]
  BY DEF Nothing
<1>2. \A c \in Caches : /\ PartialOnes(c, slabs) = {} /\ FullOnes(c, slabs) = {}
                        /\ EmptyOnes(c, slabs) = {}
  BY <1>1 DEF PartialOnes, FullOnes, EmptyOnes
<1>3. ListsInv
  <2>1. [c \in Caches |-> <<>>] \in [Caches -> Seq(Nat)]
    BY EmptyLists DEF Lists
  <2>2. \A c \in Caches : partial[c] = <<>> /\ full[c] = <<>> /\ empty[c] = <<>>
    OBVIOUS
  <2> QED
    BY <1>2, <2>1, <2>2, EmptyLists DEF ListsInv
<1>4. OwnersInv
  BY <1>1 DEF OwnersInv
<1> QED
  BY <1>1, <1>3, <1>4 DEF SlabsInv, PlacedInv

LEMMA InitInv == Init => IInv
<1> SUFFICES ASSUME Init PROVE IInv
  OBVIOUS
<1>1. TypesInv
  BY DEF Init, TypesInv, Nothing
<1>2. Busy = {}
  BY DEF Init, Busy
<1> QED
  BY <1>1, <1>2, NoSlabs DEF Init, IInv

LEMMA InitMemoryInv ==
  ASSUME IInv, NEW size \in MemSizes, InitMemory(size)
  PROVE  IInv'
<1>1. /\ \A t \in Threads : pc'[t] = "idle"
      /\ slabs' = Nothing /\ id_map' = Nothing
      /\ partial' = [c \in Caches |-> <<>>] /\ full' = partial' /\ empty' = partial'
      /\ next_slab_address' = 0 /\ total_size' \in Nat /\ next_id' = 1
      /\ total_allocations' \in [Caches -> Nat] /\ total_frees' \in [Caches -> Nat]
      /\ UNCHANGED <<cache_lock, pc, job>>
  BY SlabAssumption DEF InitMemory
<1>2. Busy' = {}
  BY <1>1 DEF Busy
<1>3. TypesInv'
  <2>1. DOMAIN id_map' = {} /\ id_map' \in [DOMAIN id_map' -> Records]
    BY <1>1 DEF Nothing
  <2> QED
    BY <1>1, <2>1 DEF IInv, TypesInv
<1>4. SlabsInv' /\ PlacedInv' /\ ListsInv' /\ OwnersInv'
  <2>1. /\ DOMAIN slabs' = {} /\ DOMAIN id_map' = {}
        /\ slabs' \in [DOMAIN slabs' -> Slab]
    BY <1>1 DEF Nothing
  <2>2. \A c \in Caches : /\ PartialOnes(c, slabs') = {} /\ FullOnes(c, slabs') = {}
                          /\ EmptyOnes(c, slabs') = {}
    BY <2>1 DEF PartialOnes, FullOnes, EmptyOnes
  <2>3. ListsInv'
    <3>1. [c \in Caches |-> <<>>] \in [Caches -> Seq(Nat)]
      BY EmptyLists DEF Lists
    <3>2. \A c \in Caches : partial'[c] = <<>> /\ full'[c] = <<>> /\ empty'[c] = <<>>
      BY <1>1
    <3> QED
      BY <1>1, <2>2, <3>1, <3>2, EmptyLists DEF ListsInv
  <2>4. OwnersInv'
    BY <1>2, <2>1 DEF OwnersInv
  <2> QED
    BY <1>1, <2>1, <2>3, <2>4 DEF SlabsInv, PlacedInv
<1> QED
  BY <1>3, <1>4 DEF IInv

-----------------------------------------------------------------------------
(* Allocation.                                                             *)

LEMMA SlotTaken ==
  ASSUME IInv, NEW t \in Threads, NEW c \in Caches, NEW s \in Nat,
         NEW old \in Slab, Counted(old), old.cache = c,
         s \in DOMAIN slabs => old = slabs[s],
         s \notin DOMAIN slabs => old.bitmap = {},
         pc[t] = "idle", pc' = [pc EXCEPT ![t] = "publish"], UNCHANGED id_map,
         TakeSlot(t, c, s, old)
  PROVE  /\ SlabsInv' /\ OwnersInv'
         /\ job' \in [Threads -> Records \cup {NoJob}]
         /\ Updated(slabs, slabs', s, c) /\ ~IsEmpty(slabs'[s])
<1>1. PICK slot \in Slots(c) :
        /\ slot \notin old.bitmap
        /\ slabs' = [x \in DOMAIN slabs \cup {s} |->
                       IF x = s THEN WithSlot(old, slot) ELSE slabs[x]]
        /\ job' = [job EXCEPT
                     ![t] = [cache_index |-> c, slab |-> s, slot_index |-> slot]]
  BY DEF TakeSlot, FirstFree
<1> DEFINE n == WithSlot(old, slot)
           r == [cache_index |-> c, slab |-> s, slot_index |-> slot]
<1>2. /\ n \in Slab /\ Counted(n) /\ n.cache = c
      /\ n.bitmap = old.bitmap \cup {slot} /\ ~IsEmpty(n)
  BY <1>1, WithSlotCounted
<1>3. /\ r.slab = s /\ r.slot_index = slot /\ r.cache_index = c /\ r \in Records
  <2>1. slot \in Nat
    BY DEF Slots
  <2> QED
    BY <2>1 DEF Records
<1> HIDE DEF n, r
<1>4. /\ TypesInv /\ SlabsInv /\ OwnersInv
  BY DEF IInv
<1>5. /\ DOMAIN slabs' = DOMAIN slabs \cup {s} /\ slabs'[s] = n
      /\ \A x \in DOMAIN slabs : x # s => slabs'[x] = slabs[x]
  BY <1>1 DEF n
<1>6. SlabsInv'
  <2>1. \A x \in DOMAIN slabs' : slabs'[x] \in Slab /\ Counted(slabs'[x])
    BY <1>2, <1>4, <1>5 DEF SlabsInv
  <2>2. slabs' = [x \in DOMAIN slabs' |-> slabs'[x]]
    BY <1>1
  <2> QED
    BY <1>4, <1>5, <2>1, <2>2 DEF SlabsInv
<1>7. Updated(slabs, slabs', s, c) /\ ~IsEmpty(slabs'[s])
  BY <1>2, <1>5 DEF Updated
<1>8. /\ job'[t] = r /\ job' \in [Threads -> Records \cup {NoJob}]
      /\ \A u \in Threads : u # t => job'[u] = job[u]
  BY <1>1, <1>3, <1>4 DEF TypesInv, r
<1>9. Busy' = Busy \cup {t} /\ t \notin Busy /\ Busy \subseteq Threads
  BY <1>4 DEF TypesInv, Busy
<1>10. ASSUME NEW q, Holds(q) PROVE Holds(q)' /\ ~SameSlot(q, r) /\ ~SameSlot(r, q)
  <2>1. q.slab = s => /\ slabs[q.slab] = old
                      /\ q.slot_index \in old.bitmap
    BY <1>10 DEF Holds
  <2>2. Holds(q)'
    BY <1>2, <1>5, <1>10, <2>1 DEF Holds
  <2> QED
    BY <1>1, <1>3, <2>1, <2>2 DEF SameSlot
<1>11. Holds(r)'
  BY <1>2, <1>3, <1>5 DEF Holds
<1>12. OwnersInv'
  <2>1. \A i \in DOMAIN id_map : Holds(id_map[i])' /\ ~SameSlot(id_map[i], r)
    BY <1>4, <1>10 DEF OwnersInv
  <2>2. \A u \in Busy : u # t /\ job'[u] = job[u] /\ Holds(job[u])'
                        /\ ~SameSlot(job[u], r) /\ ~SameSlot(r, job[u])
    BY <1>4, <1>8, <1>9, <1>10 DEF OwnersInv
  <2>3. \A u \in Busy' : Holds(job[u])'
    BY <1>8, <1>9, <1>11, <2>2 DEF Holds
  <2>4. \A u, v \in Busy' : SameSlot(job'[u], job'[v]) => u = v
    BY <1>4, <1>8, <1>9, <2>2 DEF OwnersInv
  <2>5. \A i \in DOMAIN id_map, u \in Busy' : ~SameSlot(id_map[i], job'[u])
    BY <1>4, <1>8, <1>9, <2>1, <2>2 DEF OwnersInv
  <2>6. ASSUME NEW x \in DOMAIN slabs', NEW y \in slabs'[x].bitmap
        PROVE  \/ \E i \in DOMAIN id_map : At(id_map[i], x, y)
               \/ \E u \in Busy' : At(job'[u], x, y)
    <3>1. CASE x = s /\ y = slot
      BY <1>3, <1>8, <1>9, <3>1 DEF At
    <3>2. CASE ~(x = s /\ y = slot)
      <4>1. x \in DOMAIN slabs /\ y \in slabs[x].bitmap
        BY <1>2, <1>5, <2>6, <3>2
      <4>2. \/ \E i \in DOMAIN id_map : At(id_map[i], x, y)
            \/ \E u \in Busy : At(job[u], x, y)
        BY <1>4, <4>1 DEF OwnersInv
      <4> QED
        BY <1>9, <2>2, <4>2
    <3> QED
      BY <3>1, <3>2
  <2>7. id_map' = id_map
    OBVIOUS
  <2>8. \A i \in DOMAIN id_map' : Holds(id_map[i])'
    BY <2>1, <2>7 DEF Holds
  <2>9. \A i, j \in DOMAIN id_map' : SameSlot(id_map'[i], id_map'[j]) => i = j
    BY <1>4, <2>7 DEF OwnersInv
  <2> QED
    BY <2>3, <2>4, <2>5, <2>6, <2>7, <2>8, <2>9 DEF OwnersInv
<1> QED
  BY <1>6, <1>7, <1>8, <1>12

LEMMA OtherCaches ==
  ASSUME NEW sl, NEW nl, NEW s, NEW c, Updated(sl, nl, s, c), NEW d, d # c
  PROVE  /\ FullOnes(d, nl) = FullOnes(d, sl)
         /\ EmptyOnes(d, nl) = EmptyOnes(d, sl)
         /\ PartialOnes(d, nl) = PartialOnes(d, sl)
<1>1. s \notin FullOnes(d, sl) /\ s \notin EmptyOnes(d, sl) /\ s \notin PartialOnes(d, sl)
  BY DEF Updated, FullOnes, EmptyOnes, PartialOnes
<1> QED
  BY <1>1, Regrouped

\* ListsInv follows from what happened to the lists of the one cache.
LEMMA RelistedInv ==
  ASSUME ListsInv, NEW s, NEW c \in Caches, Updated(slabs, slabs', s, c),
         NEW p, NEW f, NEW e,
         partial' = [partial EXCEPT ![c] = p], full' = [full EXCEPT ![c] = f],
         empty' = [empty EXCEPT ![c] = e],
         Lists(p, PartialOnes(c, slabs')), Lists(f, FullOnes(c, slabs')),
         Lists(e, EmptyOnes(c, slabs'))
  PROVE  ListsInv'
<1>1. p \in Seq(Nat) /\ f \in Seq(Nat) /\ e \in Seq(Nat)
  BY DEF Lists
<1>2. /\ partial' \in [Caches -> Seq(Nat)] /\ full' \in [Caches -> Seq(Nat)]
      /\ empty' \in [Caches -> Seq(Nat)]
  BY <1>1 DEF ListsInv
<1>3. partial'[c] = p /\ full'[c] = f /\ empty'[c] = e
  BY DEF ListsInv
<1>4. ASSUME NEW d \in Caches, d # c
      PROVE  /\ partial'[d] = partial[d] /\ full'[d] = full[d] /\ empty'[d] = empty[d]
             /\ Lists(partial'[d], PartialOnes(d, slabs'))
             /\ Lists(full'[d], FullOnes(d, slabs'))
             /\ Lists(empty'[d], EmptyOnes(d, slabs'))
  BY <1>4, OtherCaches DEF ListsInv
<1> QED
  BY <1>2, <1>3, <1>4 DEF ListsInv

LEMMA EnterTypes ==
  ASSUME TypesInv, NEW t \in Threads, NEW c \in Caches, Enter(t, c),
         job' \in [Threads -> Records \cup {NoJob}], next_slab_address' \in Nat,
         UNCHANGED <<id_map, total_size, next_id, total_allocations, total_frees>>
  PROVE  TypesInv'
BY DEF TypesInv, Enter

LEMMA AllocatePartialInv ==
  ASSUME IInv, NEW t \in Threads, NEW c \in Caches, AllocatePartial(t, c)
  PROVE  IInv'
<1> DEFINE s == Head(partial[c])
<1>1. /\ TypesInv /\ SlabsInv /\ PlacedInv /\ ListsInv
      /\ Enter(t, c) /\ pc[t] = "idle" /\ pc' = [pc EXCEPT ![t] = "publish"]
      /\ partial[c] # <<>> /\ TakeSlot(t, c, s, slabs[s])
      /\ UNCHANGED <<empty, id_map, total_size, next_slab_address, next_id,
                     total_allocations, total_frees>>
  BY DEF IInv, AllocatePartial, Enter
<1>2. /\ Lists(partial[c], PartialOnes(c, slabs)) /\ Lists(full[c], FullOnes(c, slabs))
      /\ Lists(empty[c], EmptyOnes(c, slabs))
      /\ partial \in [Caches -> Seq(Nat)] /\ full \in [Caches -> Seq(Nat)]
      /\ empty \in [Caches -> Seq(Nat)]
  BY <1>1 DEF ListsInv
<1>3. s \in PartialOnes(c, slabs) /\ Lists(Tail(partial[c]), PartialOnes(c, slabs) \ {s})
  BY <1>1, <1>2, TailLists
<1>4. IF IsFull(slabs'[s])
      THEN /\ partial' = [partial EXCEPT ![c] = Tail(partial[c])]
           /\ full' = [full EXCEPT ![c] = Append(full[c], s)]
      ELSE UNCHANGED <<partial, full>>
  BY DEF AllocatePartial
<1> HIDE DEF s
<1>5. /\ s \in DOMAIN slabs /\ s \in Nat /\ slabs[s] \in Slab /\ Counted(slabs[s])
      /\ slabs[s].cache = c
  BY <1>1, <1>3 DEF PartialOnes, SlabsInv
<1>6. /\ SlabsInv' /\ OwnersInv' /\ job' \in [Threads -> Records \cup {NoJob}]
      /\ Updated(slabs, slabs', s, c) /\ ~IsEmpty(slabs'[s])
  BY <1>1, <1>5, SlotTaken
<1>7. TypesInv'
  BY <1>1, <1>6, EnterTypes DEF TypesInv
<1>8. PlacedInv'
  <2>1. DOMAIN slabs' = DOMAIN slabs
    BY <1>5, <1>6 DEF Updated
  <2> QED
    BY <1>1, <2>1 DEF PlacedInv
<1>9. /\ s \notin FullOnes(c, slabs) /\ s \notin EmptyOnes(c, slabs)
  BY <1>3 DEF PartialOnes, FullOnes, EmptyOnes
<1>10. /\ FullOnes(c, slabs') = FullOnes(c, slabs) \cup
                                  (IF IsFull(slabs'[s]) THEN {s} ELSE {})
       /\ EmptyOnes(c, slabs') = EmptyOnes(c, slabs)
       /\ PartialOnes(c, slabs') = IF IsFull(slabs'[s])
                                     THEN PartialOnes(c, slabs) \ {s}
                                     ELSE PartialOnes(c, slabs)
  <2>1. /\ FullOnes(c, slabs') = (FullOnes(c, slabs) \ {s}) \cup
                                    (IF IsFull(slabs'[s]) THEN {s} ELSE {})
        /\ EmptyOnes(c, slabs') = (EmptyOnes(c, slabs) \ {s}) \cup {}
        /\ PartialOnes(c, slabs') = (PartialOnes(c, slabs) \ {s}) \cup
                                       (IF IsFull(slabs'[s]) THEN {} ELSE {s})
    BY <1>6, Regrouped
  <2>2. FullOnes(c, slabs) \ {s} = FullOnes(c, slabs)
    BY <1>9
  <2>3. (EmptyOnes(c, slabs) \ {s}) \cup {} = EmptyOnes(c, slabs)
    BY <1>9
  <2>4. (PartialOnes(c, slabs) \ {s}) \cup {s} = PartialOnes(c, slabs)
    BY <1>3
  <2>5. (PartialOnes(c, slabs) \ {s}) \cup {} = PartialOnes(c, slabs) \ {s}
    OBVIOUS
  <2> QED
    BY <2>1, <2>2, <2>3, <2>4, <2>5
<1>11. empty' = [empty EXCEPT ![c] = empty[c]]
  BY <1>1, <1>2
<1>12. ListsInv'
  <2>1. CASE IsFull(slabs'[s])
    <3>1. Lists(Append(full[c], s), FullOnes(c, slabs) \cup {s})
      BY <1>2, <1>5, <1>9, AppendLists
    <3>2. /\ Lists(Append(full[c], s), FullOnes(c, slabs'))
          /\ Lists(Tail(partial[c]), PartialOnes(c, slabs'))
          /\ Lists(empty[c], EmptyOnes(c, slabs'))
      BY <1>2, <1>3, <1>10, <2>1, <3>1
    <3> QED
      BY <1>1, <1>4, <1>6, <1>11, <2>1, <3>2, RelistedInv
  <2>2. CASE ~IsFull(slabs'[s])
    <3>1. /\ partial' = [partial EXCEPT ![c] = partial[c]]
          /\ full' = [full EXCEPT ![c] = full[c]]
      BY <1>2, <1>4, <2>2
    <3>2. /\ FullOnes(c, slabs') = FullOnes(c, slabs)
          /\ PartialOnes(c, slabs') = PartialOnes(c, slabs)
      BY <1>10, <2>2
    <3> QED
      BY <1>1, <1>2, <1>6, <1>10, <1>11, <3>1, <3>2, RelistedInv
  <2> QED
    BY <2>1, <2>2
<1> QED
  BY <1>6, <1>7, <1>8, <1>12 DEF IInv

\* A slab from no list of a cache, or taken from its empty list e.
LEMMA EnlistInv ==
  ASSUME ListsInv, NEW c \in Caches, NEW s \in Nat, Updated(slabs, slabs', s, c),
         ~IsEmpty(slabs'[s]), Enlist(c, s),
         s \notin FullOnes(c, slabs), s \notin PartialOnes(c, slabs),
         NEW e, empty' = [empty EXCEPT ![c] = e],
         Lists(e, EmptyOnes(c, slabs) \ {s})
  PROVE  ListsInv'
<1>1. /\ Lists(partial[c], PartialOnes(c, slabs)) /\ Lists(full[c], FullOnes(c, slabs))
      /\ partial \in [Caches -> Seq(Nat)] /\ full \in [Caches -> Seq(Nat)]
  BY DEF ListsInv
<1>2. /\ FullOnes(c, slabs') = FullOnes(c, slabs) \cup
                                 (IF IsFull(slabs'[s]) THEN {s} ELSE {})
      /\ EmptyOnes(c, slabs') = EmptyOnes(c, slabs) \ {s}
      /\ PartialOnes(c, slabs') = PartialOnes(c, slabs) \cup
                                    (IF IsFull(slabs'[s]) THEN {} ELSE {s})
  BY Regrouped
<1>3. CASE IsFull(slabs'[s])
  <2>1. /\ full' = [full EXCEPT ![c] = Append(full[c], s)]
        /\ partial' = [partial EXCEPT ![c] = partial[c]]
    BY <1>1, <1>3 DEF Enlist
  <2>2. Lists(Append(full[c], s), FullOnes(c, slabs'))
    BY <1>1, <1>2, <1>3, AppendLists
  <2>3. Lists(partial[c], PartialOnes(c, slabs')) /\ Lists(e, EmptyOnes(c, slabs'))
    BY <1>1, <1>2, <1>3
  <2> QED
    BY <2>1, <2>2, <2>3, RelistedInv
<1>4. CASE ~IsFull(slabs'[s])
  <2>1. /\ partial' = [partial EXCEPT ![c] = Append(partial[c], s)]
        /\ full' = [full EXCEPT ![c] = full[c]]
    BY <1>1, <1>4 DEF Enlist
  <2>2. Lists(Append(partial[c], s), PartialOnes(c, slabs'))
    BY <1>1, <1>2, <1>4, AppendLists
  <2>3. Lists(full[c], FullOnes(c, slabs')) /\ Lists(e, EmptyOnes(c, slabs'))
    BY <1>1, <1>2, <1>4
  <2> QED
    BY <2>1, <2>2, <2>3, RelistedInv
<1> QED
  BY <1>3, <1>4

\* An empty slab is not full: it has a slot.
LEMMA EmptyNotFull ==
  ASSUME NEW s \in Slab, IsEmpty(s)
  PROVE  ~IsFull(s)
<1>1. s.cache \in Caches
  BY DEF Slab
<1> QED
  BY <1>1, SlotsFit DEF IsEmpty, IsFull

LEMMA AllocateEmptyInv ==
  ASSUME IInv, NEW t \in Threads, NEW c \in Caches, AllocateEmpty(t, c)
  PROVE  IInv'
<1> DEFINE s == Head(empty[c])
<1>1. /\ TypesInv /\ SlabsInv /\ PlacedInv /\ ListsInv
      /\ Enter(t, c) /\ pc[t] = "idle" /\ pc' = [pc EXCEPT ![t] = "publish"]
      /\ empty[c] # <<>> /\ TakeSlot(t, c, s, slabs[s]) /\ Enlist(c, s)
      /\ empty' = [empty EXCEPT ![c] = Tail(empty[c])]
      /\ UNCHANGED <<id_map, total_size, next_slab_address, next_id,
                     total_allocations, total_frees>>
  BY DEF IInv, AllocateEmpty, Enter
<1>2. Lists(empty[c], EmptyOnes(c, slabs))
  BY <1>1 DEF ListsInv
<1>3. s \in EmptyOnes(c, slabs) /\ Lists(Tail(empty[c]), EmptyOnes(c, slabs) \ {s})
  BY <1>1, <1>2, TailLists
<1> HIDE DEF s
<1>4. /\ s \in DOMAIN slabs /\ s \in Nat /\ slabs[s] \in Slab /\ Counted(slabs[s])
      /\ slabs[s].cache = c /\ IsEmpty(slabs[s])
  BY <1>1, <1>3 DEF EmptyOnes, SlabsInv
<1>5. /\ SlabsInv' /\ OwnersInv' /\ job' \in [Threads -> Records \cup {NoJob}]
      /\ Updated(slabs, slabs', s, c) /\ ~IsEmpty(slabs'[s])
  BY <1>1, <1>4, SlotTaken
<1>6. TypesInv'
  BY <1>1, <1>5, EnterTypes DEF TypesInv
<1>7. PlacedInv'
  <2>1. DOMAIN slabs' = DOMAIN slabs
    BY <1>4, <1>5 DEF Updated
  <2> QED
    BY <1>1, <2>1 DEF PlacedInv
<1>8. s \notin FullOnes(c, slabs) /\ s \notin PartialOnes(c, slabs)
  BY <1>4, EmptyNotFull DEF PartialOnes, FullOnes
<1>9. ListsInv'
  BY <1>1, <1>3, <1>4, <1>5, <1>8, EnlistInv
<1> QED
  BY <1>5, <1>6, <1>7, <1>9 DEF IInv

LEMMA AllocateNewInv ==
  ASSUME IInv, NEW t \in Threads, NEW c \in Caches, AllocateNew(t, c)
  PROVE  IInv'
<1> DEFINE s == next_slab_address
<1>1. /\ TypesInv /\ SlabsInv /\ PlacedInv /\ ListsInv
      /\ Enter(t, c) /\ pc[t] = "idle" /\ pc' = [pc EXCEPT ![t] = "publish"]
      /\ TakeSlot(t, c, s, NewSlab(c)) /\ Enlist(c, s)
      /\ s + SlabSize <= total_size
      /\ next_slab_address' = s + SlabSize
      /\ UNCHANGED <<empty, id_map, total_size, next_id, total_allocations,
                     total_frees>>
  BY DEF IInv, AllocateNew, Enter, PoolHasSlab
<1>2. /\ s \in Nat /\ SlabSize \in Nat \ {0} /\ DOMAIN slabs \subseteq Nat
  BY <1>1, CachesType DEF TypesInv, SlabsInv
<1>3. s \notin DOMAIN slabs
  BY <1>1, <1>2 DEF PlacedInv
<1>4. /\ NewSlab(c) \in Slab /\ Counted(NewSlab(c)) /\ NewSlab(c).cache = c
      /\ NewSlab(c).bitmap = {}
  BY NewSlabCounted
<1>5. /\ SlabsInv' /\ OwnersInv' /\ job' \in [Threads -> Records \cup {NoJob}]
      /\ Updated(slabs, slabs', s, c) /\ ~IsEmpty(slabs'[s])
  <2> HIDE DEF s
  <2> QED
    BY <1>1, <1>2, <1>3, <1>4, SlotTaken
<1>6. TypesInv'
  BY <1>1, <1>2, <1>5, EnterTypes
<1>7. PlacedInv'
  <2>1. DOMAIN slabs' = DOMAIN slabs \cup {s} /\ total_size' = total_size
    BY <1>1, <1>5 DEF Updated
  <2>2. \A x \in DOMAIN slabs' : x + SlabSize <= next_slab_address'
    BY <1>1, <1>2, <2>1 DEF PlacedInv
  <2>3. \A x, y \in DOMAIN slabs' :
          x # y => x + SlabSize <= y \/ y + SlabSize <= x
    BY <1>1, <2>1 DEF PlacedInv
  <2> QED
    BY <1>1, <2>1, <2>2, <2>3 DEF PlacedInv
<1>8. /\ s \notin FullOnes(c, slabs) /\ s \notin PartialOnes(c, slabs)
      /\ s \notin EmptyOnes(c, slabs)
  BY <1>3 DEF PartialOnes, FullOnes, EmptyOnes
<1>9. /\ empty' = [empty EXCEPT ![c] = empty[c]]
      /\ Lists(empty[c], EmptyOnes(c, slabs) \ {s})
  BY <1>1, <1>8 DEF ListsInv
<1>10. ListsInv'
  <2> HIDE DEF s
  <2> QED
    BY <1>1, <1>2, <1>5, <1>8, <1>9, EnlistInv
<1> QED
  BY <1>5, <1>6, <1>7, <1>10 DEF IInv

\* A call that ends or begins holding the slot of record r.
LEMMA JobSet ==
  ASSUME TypesInv, NEW t \in Threads, NEW where \in {"idle", "publish", "free"},
         NEW r \in Records \cup {NoJob},
         pc' = [pc EXCEPT ![t] = where], job' = [job EXCEPT ![t] = r]
  PROVE  /\ pc' \in [Threads -> {"idle", "publish", "free"}]
         /\ job' \in [Threads -> Records \cup {NoJob}]
         /\ job'[t] = r /\ \A u \in Threads : u # t => job'[u] = job[u]
         /\ Busy \subseteq Threads
         /\ Busy' = (Busy \ {t}) \cup (IF where = "idle" THEN {} ELSE {t})
<1>1. /\ pc' \in [Threads -> {"idle", "publish", "free"}]
      /\ pc'[t] = where /\ \A u \in Threads : u # t => pc'[u] = pc[u]
  BY DEF TypesInv
<1>2. /\ job' \in [Threads -> Records \cup {NoJob}]
      /\ job'[t] = r /\ \A u \in Threads : u # t => job'[u] = job[u]
  BY DEF TypesInv
<1>3. Busy' = (Busy \ {t}) \cup (IF where = "idle" THEN {} ELSE {t})
  BY <1>1 DEF Busy
<1> QED
  BY <1>1, <1>2, <1>3 DEF Busy

LEMMA PublishInv ==
  ASSUME IInv, NEW t \in Threads, Publish(t)
  PROVE  IInv'
<1> DEFINE r == job[t]
           n == next_id
<1>1. /\ pc[t] = "publish"
      /\ id_map' = [i \in DOMAIN id_map \cup {n} |-> IF i = n THEN r ELSE id_map[i]]
      /\ next_id' = n + 1
      /\ total_allocations' = [total_allocations EXCEPT
                                 ![r.cache_index] = total_allocations[r.cache_index] + 1]
      /\ cache_lock' = [cache_lock EXCEPT ![r.cache_index] = NoThread]
      /\ pc' = [pc EXCEPT ![t] = "idle"]
      /\ job' = [job EXCEPT ![t] = NoJob]
      /\ UNCHANGED <<slabs, partial, full, empty, total_size, next_slab_address,
                     total_frees>>
  BY DEF Publish, lists
<1>2. TypesInv /\ SlabsInv /\ PlacedInv /\ ListsInv /\ OwnersInv
  BY DEF IInv
<1>3. t \in Busy /\ Holds(r) /\ r \in Records /\ r.cache_index \in Caches
  <2>1. t \in Busy
    BY <1>1 DEF Busy
  <2> QED
    BY <1>2, <2>1 DEF OwnersInv, Holds, Records
<1>4. /\ n \in Nat \ {0} /\ DOMAIN id_map \subseteq 1 .. n - 1 /\ n \notin DOMAIN id_map
  BY <1>2 DEF TypesInv
<1>5. /\ pc' \in [Threads -> {"idle", "publish", "free"}]
      /\ job' \in [Threads -> Records \cup {NoJob}]
      /\ \A u \in Threads : u # t => job'[u] = job[u]
      /\ Busy \subseteq Threads
      /\ Busy' = Busy \ {t}
  <2>1. NoJob \in Records \cup {NoJob} /\ "idle" \in {"idle", "publish", "free"}
    OBVIOUS
  <2>2. (Busy \ {t}) \cup (IF "idle" = "idle" THEN {} ELSE {t}) = Busy \ {t}
    OBVIOUS
  <2> QED
    BY <1>1, <1>2, <2>1, <2>2, JobSet
<1> HIDE DEF r, n
<1>6. /\ DOMAIN id_map' = DOMAIN id_map \cup {n} /\ id_map'[n] = r
      /\ \A i \in DOMAIN id_map : id_map'[i] = id_map[i]
  BY <1>1, <1>4
<1>7. TypesInv'
  <2>1. /\ total_allocations' \in [Caches -> Nat]
        /\ cache_lock' \in [Caches -> Threads \cup {NoThread}]
    BY <1>1, <1>2, <1>3 DEF TypesInv
  <2>2. DOMAIN id_map' \subseteq 1 .. next_id' - 1 /\ next_id' \in Nat \ {0}
    BY <1>1, <1>4, <1>6
  <2>3. id_map' \in [DOMAIN id_map' -> Records]
    BY <1>1, <1>2, <1>3, <1>6 DEF TypesInv
  <2> QED
    BY <1>1, <1>2, <1>5, <2>1, <2>2, <2>3 DEF TypesInv
<1>8. \A q : Holds(q)' <=> Holds(q)
  BY <1>1 DEF Holds
<1>9. OwnersInv'
  <2>1. \A i \in DOMAIN id_map' : Holds(id_map[i])'
    <3>1. \A i \in DOMAIN id_map' : Holds(id_map'[i])
      BY <1>2, <1>3, <1>6 DEF OwnersInv
    <3> QED
      BY <1>1, <3>1 DEF Holds
  <2>2. \A u \in Busy' : Holds(job[u])'
    <3>1. \A u \in Busy' : Holds(job'[u])
      BY <1>2, <1>5 DEF OwnersInv
    <3> QED
      BY <1>1, <3>1 DEF Holds
  <2>3. \A i \in DOMAIN id_map : ~SameSlot(id_map[i], r) /\ ~SameSlot(r, id_map[i])
    BY <1>2, <1>3 DEF OwnersInv, SameSlot, r
  <2>4. \A i, j \in DOMAIN id_map' : SameSlot(id_map'[i], id_map'[j]) => i = j
    BY <1>2, <1>6, <2>3 DEF OwnersInv
  <2>5. \A u, v \in Busy' : SameSlot(job'[u], job'[v]) => u = v
    BY <1>2, <1>5 DEF OwnersInv
  <2>6. \A u \in Busy' : u \in Busy /\ job'[u] = job[u] /\ ~SameSlot(r, job[u])
    BY <1>2, <1>3, <1>5 DEF OwnersInv, SameSlot, r
  <2>7. \A i \in DOMAIN id_map', u \in Busy' : ~SameSlot(id_map'[i], job'[u])
    BY <1>2, <1>6, <2>6 DEF OwnersInv
  <2>8. ASSUME NEW x \in DOMAIN slabs, NEW y \in slabs[x].bitmap
        PROVE  \/ \E i \in DOMAIN id_map' : At(id_map'[i], x, y)
               \/ \E u \in Busy' : At(job'[u], x, y)
    <3>1. CASE At(r, x, y)
      BY <1>6, <3>1
    <3>2. CASE ~At(r, x, y)
      <4>1. \/ \E i \in DOMAIN id_map : At(id_map[i], x, y)
            \/ \E u \in Busy : At(job[u], x, y)
        BY <1>2 DEF OwnersInv
      <4>2. \A u \in Busy : At(job[u], x, y) => u \in Busy' /\ job'[u] = job[u]
        BY <1>5, <3>2 DEF r
      <4> QED
        BY <1>6, <4>1, <4>2
    <3> QED
      BY <3>1, <3>2
  <2> QED
    BY <1>1, <2>1, <2>2, <2>4, <2>5, <2>7, <2>8 DEF OwnersInv
<1>10. SlabsInv' /\ PlacedInv'
  BY <1>1, <1>2 DEF SlabsInv, PlacedInv
<1>11. ListsInv'
  BY <1>1, <1>2 DEF ListsInv
<1> QED
  BY <1>7, <1>9, <1>10, <1>11 DEF IInv

-----------------------------------------------------------------------------
(* Deallocation.                                                           *)

LEMMA EraseInv ==
  ASSUME IInv, NEW t \in Threads, NEW id \in DOMAIN id_map, Erase(t, id)
  PROVE  IInv'
<1> DEFINE r == id_map[id]
<1>1. /\ pc[t] = "idle"
      /\ id_map' = [i \in DOMAIN id_map \ {id} |-> id_map[i]]
      /\ pc' = [pc EXCEPT ![t] = "free"]
      /\ job' = [job EXCEPT ![t] = r]
      /\ UNCHANGED <<slabs, partial, full, empty, total_size, next_slab_address,
                     next_id, total_allocations, total_frees, cache_lock>>
  BY DEF Erase, lists
<1>2. TypesInv /\ SlabsInv /\ PlacedInv /\ ListsInv /\ OwnersInv
  BY DEF IInv
<1>3. Holds(r) /\ r \in Records
  BY <1>2 DEF OwnersInv, Holds
<1>4. /\ pc' \in [Threads -> {"idle", "publish", "free"}]
      /\ job' \in [Threads -> Records \cup {NoJob}]
      /\ job'[t] = r /\ \A u \in Threads : u # t => job'[u] = job[u]
      /\ Busy \subseteq Threads
      /\ Busy' = Busy \cup {t} /\ t \notin Busy
  <2>1. r \in Records \cup {NoJob} /\ "free" \in {"idle", "publish", "free"}
    BY <1>3
  <2>2. t \notin Busy
    BY <1>1 DEF Busy
  <2>3. (Busy \ {t}) \cup (IF "free" = "idle" THEN {} ELSE {t}) = Busy \cup {t}
    BY <2>2
  <2> HIDE DEF r
  <2> QED
    BY <1>1, <1>2, <2>1, <2>2, <2>3, JobSet
<1>5. /\ DOMAIN id_map' = DOMAIN id_map \ {id}
      /\ \A i \in DOMAIN id_map' : i \in DOMAIN id_map /\ id_map'[i] = id_map[i]
  BY <1>1
<1> HIDE DEF r
<1>6. TypesInv'
  BY <1>1, <1>2, <1>4, <1>5 DEF TypesInv
<1>7. OwnersInv'
  <2>1. \A i \in DOMAIN id_map' : Holds(id_map[i])'
    <3>1. \A i \in DOMAIN id_map' : Holds(id_map'[i])
      BY <1>2, <1>5 DEF OwnersInv
    <3> QED
      BY <1>1, <3>1 DEF Holds
  <2>2. \A u \in Busy' : Holds(job[u])'
    <3>1. \A u \in Busy' : Holds(job'[u])
      BY <1>2, <1>3, <1>4 DEF OwnersInv
    <3> QED
      BY <1>1, <3>1 DEF Holds
  <2>3. \A u \in Busy : /\ u # t /\ job'[u] = job[u]
                        /\ ~SameSlot(r, job[u]) /\ ~SameSlot(job[u], r)
    BY <1>2, <1>4 DEF OwnersInv, SameSlot, r
  <2>4. \A i, j \in DOMAIN id_map' : SameSlot(id_map'[i], id_map'[j]) => i = j
    BY <1>2, <1>5 DEF OwnersInv
  <2>5. \A u, v \in Busy' : SameSlot(job'[u], job'[v]) => u = v
    BY <1>2, <1>4, <2>3 DEF OwnersInv
  <2>6. \A i \in DOMAIN id_map' : ~SameSlot(id_map'[i], r)
    BY <1>2, <1>5 DEF OwnersInv, r
  <2>7. \A i \in DOMAIN id_map', u \in Busy' : ~SameSlot(id_map'[i], job'[u])
    BY <1>2, <1>4, <1>5, <2>3, <2>6 DEF OwnersInv
  <2>8. ASSUME NEW x \in DOMAIN slabs, NEW y \in slabs[x].bitmap
        PROVE  \/ \E i \in DOMAIN id_map' : At(id_map'[i], x, y)
               \/ \E u \in Busy' : At(job'[u], x, y)
    <3>1. \/ \E i \in DOMAIN id_map : At(id_map[i], x, y)
          \/ \E u \in Busy : At(job[u], x, y)
      BY <1>2 DEF OwnersInv
    <3>2. \A i \in DOMAIN id_map :
            At(id_map[i], x, y) => \/ i \in DOMAIN id_map' /\ At(id_map'[i], x, y)
                                   \/ t \in Busy' /\ At(job'[t], x, y)
      BY <1>4, <1>5 DEF r
    <3> QED
      BY <1>4, <2>3, <3>1, <3>2
  <2> QED
    BY <1>1, <2>1, <2>2, <2>4, <2>5, <2>7, <2>8 DEF OwnersInv
<1>8. SlabsInv' /\ PlacedInv'
  BY <1>1, <1>2 DEF SlabsInv, PlacedInv
<1>9. ListsInv'
  BY <1>1, <1>2 DEF ListsInv
<1> QED
  BY <1>6, <1>7, <1>8, <1>9 DEF IInv

\* One slot of slab s is freed, and the lists follow.
LEMMA SlabRelisted ==
  ASSUME SlabsInv, ListsInv, NEW s \in DOMAIN slabs, NEW c \in Caches,
         NEW slot \in slabs[s].bitmap, slabs[s].cache = c,
         slabs' = [slabs EXCEPT ![s] = WithoutSlot(slabs[s], slot)],
         Relist(c, s)
  PROVE  /\ SlabsInv' /\ ListsInv'
         /\ DOMAIN slabs' = DOMAIN slabs
         /\ \A x \in DOMAIN slabs : /\ slabs'[x].cache = slabs[x].cache
                                    /\ x # s => slabs'[x] = slabs[x]
         /\ slabs'[s].bitmap = slabs[s].bitmap \ {slot}
<1> DEFINE n == WithoutSlot(slabs[s], slot)
<1>1. slabs[s] \in Slab /\ Counted(slabs[s]) /\ s \in Nat
  BY DEF SlabsInv
<1>2. /\ n \in Slab /\ Counted(n) /\ n.cache = c
      /\ n.bitmap = slabs[s].bitmap \ {slot}
      /\ ~IsFull(n) /\ ~IsEmpty(slabs[s])
  BY <1>1, WithoutSlotCounted
<1> HIDE DEF n
<1>3. /\ DOMAIN slabs' = DOMAIN slabs /\ slabs'[s] = n
      /\ \A x \in DOMAIN slabs : x # s => slabs'[x] = slabs[x]
  BY DEF n, SlabsInv
<1>4. SlabsInv'
  <2>1. \A x \in DOMAIN slabs : slabs'[x] \in Slab /\ Counted(slabs'[x])
    BY <1>2, <1>3 DEF SlabsInv
  <2>2. slabs' = [x \in DOMAIN slabs' |-> slabs'[x]]
    OBVIOUS
  <2> QED
    BY <1>3, <2>1, <2>2 DEF SlabsInv
<1>5. Updated(slabs, slabs', s, c)
  BY <1>2, <1>3 DEF Updated
<1>6. /\ Lists(partial[c], PartialOnes(c, slabs)) /\ Lists(full[c], FullOnes(c, slabs))
      /\ Lists(empty[c], EmptyOnes(c, slabs))
      /\ partial \in [Caches -> Seq(Nat)] /\ full \in [Caches -> Seq(Nat)]
      /\ empty \in [Caches -> Seq(Nat)]
  BY DEF ListsInv
<1>7. /\ s \notin EmptyOnes(c, slabs)
      /\ IsFull(slabs[s]) => s \in FullOnes(c, slabs) /\ s \notin PartialOnes(c, slabs)
      /\ ~IsFull(slabs[s]) => s \in PartialOnes(c, slabs) /\ s \notin FullOnes(c, slabs)
  BY <1>2 DEF EmptyOnes, FullOnes, PartialOnes
<1>8. /\ FullOnes(c, slabs') = FullOnes(c, slabs) \ {s}
      /\ EmptyOnes(c, slabs') = EmptyOnes(c, slabs) \cup
                                  (IF IsEmpty(n) THEN {s} ELSE {})
      /\ PartialOnes(c, slabs') = (PartialOnes(c, slabs) \ {s}) \cup
                                    (IF IsEmpty(n) THEN {} ELSE {s})
  <2>1. FullOnes(c, slabs') = FullOnes(c, slabs) \ {s}
    BY <1>2, <1>3, <1>5 DEF Updated, FullOnes
  <2>2. EmptyOnes(c, slabs') = EmptyOnes(c, slabs) \cup
                                 (IF IsEmpty(n) THEN {s} ELSE {})
    BY <1>2, <1>3, <1>5 DEF Updated, EmptyOnes
  <2>3. PartialOnes(c, slabs') = (PartialOnes(c, slabs) \ {s}) \cup
                                   (IF IsEmpty(n) THEN {} ELSE {s})
    BY <1>2, <1>3, <1>5 DEF Updated, PartialOnes
  <2> QED
    BY <2>1, <2>2, <2>3
<1>9. Lists(IF IsEmpty(n) THEN Append(empty[c], s) ELSE empty[c], EmptyOnes(c, slabs'))
  <2>1. Lists(Append(empty[c], s), EmptyOnes(c, slabs) \cup {s})
    BY <1>1, <1>6, <1>7, AppendLists
  <2>2. CASE IsEmpty(n)
    BY <1>8, <2>1, <2>2
  <2>3. CASE ~IsEmpty(n)
    <3>1. EmptyOnes(c, slabs') = EmptyOnes(c, slabs)
      BY <1>8, <2>3
    <3> QED
      BY <1>6, <2>3, <3>1
  <2> QED
    BY <2>2, <2>3
<1>10. ListsInv'
  <2>1. CASE IsFull(slabs[s]) /\ IsEmpty(n)
    <3>1. /\ full' = [full EXCEPT ![c] = Without(full[c], s)]
          /\ empty' = [empty EXCEPT ![c] = Append(empty[c], s)]
          /\ partial' = [partial EXCEPT ![c] = partial[c]]
      BY <1>3, <1>6, <2>1 DEF Relist
    <3>2. /\ Lists(Without(full[c], s), FullOnes(c, slabs'))
          /\ Lists(Append(empty[c], s), EmptyOnes(c, slabs'))
      <4>1. Lists(Without(full[c], s), FullOnes(c, slabs) \ {s})
        BY <1>6, <1>7, <2>1, WithoutLists
      <4> QED
        BY <1>8, <1>9, <2>1, <4>1
    <3>3. PartialOnes(c, slabs') = PartialOnes(c, slabs)
      <4>1. PartialOnes(c, slabs') = PartialOnes(c, slabs) \ {s}
        BY <1>8, <2>1
      <4>2. s \notin PartialOnes(c, slabs)
        BY <1>7, <2>1
      <4> QED
        BY <4>1, <4>2
    <3> QED
      BY <1>5, <1>6, <3>1, <3>2, <3>3, RelistedInv
  <2>2. CASE IsFull(slabs[s]) /\ ~IsEmpty(n)
    <3>1. /\ full' = [full EXCEPT ![c] = Without(full[c], s)]
          /\ empty' = [empty EXCEPT ![c] = empty[c]]
          /\ partial' = [partial EXCEPT ![c] = Append(partial[c], s)]
      BY <1>3, <1>6, <2>2 DEF Relist
    <3>2. Lists(Append(partial[c], s), PartialOnes(c, slabs) \cup {s})
      BY <1>1, <1>6, <1>7, <2>2, AppendLists
    <3>3. PartialOnes(c, slabs') = PartialOnes(c, slabs) \cup {s}
      BY <1>8, <2>2
    <3>4. /\ Lists(Without(full[c], s), FullOnes(c, slabs'))
          /\ Lists(empty[c], EmptyOnes(c, slabs'))
      <4>1. Lists(Without(full[c], s), FullOnes(c, slabs) \ {s})
        BY <1>6, <1>7, <2>2, WithoutLists
      <4> QED
        BY <1>8, <1>9, <2>2, <4>1
    <3> QED
      BY <1>5, <3>1, <3>2, <3>3, <3>4, RelistedInv
  <2>3. CASE ~IsFull(slabs[s]) /\ IsEmpty(n)
    <3>1. /\ full' = [full EXCEPT ![c] = full[c]]
          /\ empty' = [empty EXCEPT ![c] = Append(empty[c], s)]
          /\ partial' = [partial EXCEPT ![c] = Without(partial[c], s)]
      BY <1>3, <1>6, <2>3 DEF Relist
    <3>2. Lists(Without(partial[c], s), PartialOnes(c, slabs) \ {s})
      BY <1>6, <1>7, <2>3, WithoutLists
    <3>3. /\ PartialOnes(c, slabs') = PartialOnes(c, slabs) \ {s}
          /\ FullOnes(c, slabs') = FullOnes(c, slabs)
      <4>1. /\ PartialOnes(c, slabs') = PartialOnes(c, slabs) \ {s}
            /\ FullOnes(c, slabs') = FullOnes(c, slabs) \ {s}
        BY <1>8, <2>3
      <4>2. s \notin FullOnes(c, slabs)
        BY <1>7, <2>3
      <4> QED
        BY <4>1, <4>2
    <3>4. Lists(Append(empty[c], s), EmptyOnes(c, slabs'))
      BY <1>9, <2>3
    <3> QED
      BY <1>5, <1>6, <3>1, <3>2, <3>3, <3>4, RelistedInv
  <2>4. CASE ~IsFull(slabs[s]) /\ ~IsEmpty(n)
    <3>1. /\ full' = [full EXCEPT ![c] = full[c]]
          /\ empty' = [empty EXCEPT ![c] = empty[c]]
          /\ partial' = [partial EXCEPT ![c] = partial[c]]
      BY <1>3, <1>6, <2>4 DEF Relist, lists
    <3>2. /\ PartialOnes(c, slabs') = PartialOnes(c, slabs)
          /\ FullOnes(c, slabs') = FullOnes(c, slabs)
          /\ EmptyOnes(c, slabs') = EmptyOnes(c, slabs)
      <4>1. /\ PartialOnes(c, slabs') = (PartialOnes(c, slabs) \ {s}) \cup {s}
            /\ FullOnes(c, slabs') = FullOnes(c, slabs) \ {s}
            /\ EmptyOnes(c, slabs') = EmptyOnes(c, slabs)
        BY <1>8, <2>4
      <4>2. s \notin FullOnes(c, slabs) /\ s \in PartialOnes(c, slabs)
        BY <1>7, <2>4
      <4> QED
        BY <4>1, <4>2
    <3> QED
      BY <1>5, <1>6, <3>1, <3>2, RelistedInv
  <2> QED
    BY <2>1, <2>2, <2>3, <2>4
<1> QED
  BY <1>2, <1>3, <1>4, <1>10

LEMMA ReleaseInv ==
  ASSUME IInv, NEW t \in Threads, Release(t)
  PROVE  IInv'
<1> DEFINE r == job[t]
<1>1. /\ pc[t] = "free"
      /\ slabs' = [slabs EXCEPT ![r.slab] =
                                     WithoutSlot(slabs[r.slab], r.slot_index)]
      /\ Relist(r.cache_index, r.slab)
      /\ total_frees' = [total_frees EXCEPT
                           ![r.cache_index] = total_frees[r.cache_index] + 1]
      /\ pc' = [pc EXCEPT ![t] = "idle"]
      /\ job' = [job EXCEPT ![t] = NoJob]
      /\ UNCHANGED <<id_map, total_size, next_slab_address, next_id,
                     total_allocations, cache_lock>>
  BY DEF Release
<1>2. TypesInv /\ SlabsInv /\ PlacedInv /\ ListsInv /\ OwnersInv
  BY DEF IInv
<1>3. t \in Busy /\ Holds(r) /\ r \in Records /\ r.cache_index \in Caches
  <2>1. t \in Busy
    BY <1>1 DEF Busy
  <2> QED
    BY <1>2, <2>1 DEF OwnersInv, Holds, Records
<1>4. /\ pc' \in [Threads -> {"idle", "publish", "free"}]
      /\ job' \in [Threads -> Records \cup {NoJob}]
      /\ \A u \in Threads : u # t => job'[u] = job[u]
      /\ Busy \subseteq Threads
      /\ Busy' = Busy \ {t}
  <2>1. NoJob \in Records \cup {NoJob} /\ "idle" \in {"idle", "publish", "free"}
    OBVIOUS
  <2>2. (Busy \ {t}) \cup (IF "idle" = "idle" THEN {} ELSE {t}) = Busy \ {t}
    OBVIOUS
  <2> QED
    BY <1>1, <1>2, <2>1, <2>2, JobSet
<1> HIDE DEF r
<1>5. /\ r.slab \in DOMAIN slabs /\ slabs[r.slab].cache = r.cache_index
      /\ r.slot_index \in slabs[r.slab].bitmap
  BY <1>3 DEF Holds
<1>6. /\ SlabsInv' /\ ListsInv'
      /\ DOMAIN slabs' = DOMAIN slabs
      /\ \A x \in DOMAIN slabs : /\ slabs'[x].cache = slabs[x].cache
                                 /\ x # r.slab => slabs'[x] = slabs[x]
      /\ slabs'[r.slab].bitmap = slabs[r.slab].bitmap \ {r.slot_index}
  BY <1>1, <1>2, <1>3, <1>5, SlabRelisted
<1>7. TypesInv'
  <2>1. total_frees' \in [Caches -> Nat]
    BY <1>1, <1>2, <1>3 DEF TypesInv
  <2> QED
    BY <1>1, <1>2, <1>4, <2>1 DEF TypesInv
<1>8. PlacedInv'
  BY <1>1, <1>2, <1>6 DEF PlacedInv
<1>9. ASSUME NEW q, Holds(q), ~SameSlot(q, r) PROVE Holds(q)'
  BY <1>6, <1>9 DEF Holds, SameSlot
<1>10. OwnersInv'
  <2>1. \A i \in DOMAIN id_map : Holds(id_map[i])'
    <3>1. \A i \in DOMAIN id_map : Holds(id_map[i]) /\ ~SameSlot(id_map[i], r)
      BY <1>2, <1>3 DEF OwnersInv, r
    <3> QED
      BY <1>1, <1>9, <3>1 DEF Holds
  <2>2. \A u \in Busy' : /\ u \in Busy /\ job'[u] = job[u]
                         /\ Holds(job[u]) /\ ~SameSlot(job[u], r)
    BY <1>2, <1>3, <1>4 DEF OwnersInv, r
  <2>3. \A u \in Busy' : Holds(job[u])'
    BY <1>9, <2>2 DEF Holds
  <2>4. \A u, v \in Busy' : SameSlot(job'[u], job'[v]) => u = v
    BY <1>2, <2>2 DEF OwnersInv
  <2>5. \A i \in DOMAIN id_map, u \in Busy' : ~SameSlot(id_map[i], job'[u])
    BY <1>2, <2>2 DEF OwnersInv
  <2>6. ASSUME NEW x \in DOMAIN slabs', NEW y \in slabs'[x].bitmap
        PROVE  \/ \E i \in DOMAIN id_map : At(id_map[i], x, y)
               \/ \E u \in Busy' : At(job'[u], x, y)
    <3>1. x \in DOMAIN slabs /\ y \in slabs[x].bitmap /\ ~At(r, x, y)
      BY <1>6, <2>6 DEF At
    <3>2. \/ \E i \in DOMAIN id_map : At(id_map[i], x, y)
          \/ \E u \in Busy : At(job[u], x, y)
      BY <1>2, <3>1 DEF OwnersInv
    <3>3. \A u \in Busy : At(job[u], x, y) => u \in Busy' /\ job'[u] = job[u]
      BY <1>4, <3>1 DEF r
    <3> QED
      BY <3>2, <3>3
  <2>7. \A i, j \in DOMAIN id_map : SameSlot(id_map[i], id_map[j]) => i = j
    BY <1>2 DEF OwnersInv
  <2>8. id_map' = id_map
    BY <1>1
  <2> QED
    BY <2>1, <2>3, <2>4, <2>5, <2>6, <2>7, <2>8 DEF OwnersInv
<1> QED
  BY <1>6, <1>7, <1>8, <1>10 DEF IInv

LEMMA NextInv == IInv /\ [Next]_vars => IInv'
<1> SUFFICES ASSUME IInv, [Next]_vars PROVE IInv'
  OBVIOUS
<1>1. ASSUME NEW size \in MemSizes, InitMemory(size) PROVE IInv'
  BY <1>1, InitMemoryInv
<1>2. ASSUME NEW t \in Threads, NEW c \in Caches, Reserve(t, c) PROVE IInv'
  BY <1>2, AllocatePartialInv, AllocateEmptyInv, AllocateNewInv DEF Reserve
<1>3. ASSUME NEW t \in Threads, Publish(t) PROVE IInv'
  BY <1>3, PublishInv
<1>4. ASSUME NEW t \in Threads, NEW id \in DOMAIN id_map, Erase(t, id) PROVE IInv'
  BY <1>4, EraseInv
<1>5. ASSUME NEW t \in Threads, Release(t) PROVE IInv'
  BY <1>5, ReleaseInv
<1>6. CASE UNCHANGED vars
  BY <1>6 DEF vars, lists, IInv, TypesInv, SlabsInv, PlacedInv, ListsInv, OwnersInv,
              Holds, Busy
<1> QED
  BY <1>1, <1>2, <1>3, <1>4, <1>5, <1>6 DEF Next, AllocateFails

LEMMA Invariant == Spec => []IInv
BY InitInv, NextInv, PTL DEF Spec

\* Every variable keeps its type: in particular every slab a list names exists,
\* and every bitmap lies within its slab.
THEOREM TypeCorrect == Spec => []TypeOK
<1>1. ASSUME IInv PROVE TypeOK
  <2>1. TypesInv /\ SlabsInv /\ ListsInv
    BY <1>1 DEF IInv
  <2>2. /\ DOMAIN slabs \subseteq Nat
        /\ \A s \in DOMAIN slabs : /\ slabs[s].cache \in Caches
                                   /\ slabs[s].bitmap \subseteq Slots(slabs[s].cache)
                                   /\ slabs[s].num_used \in Nat
    BY <2>1 DEF SlabsInv, Slab, Counted
  <2>3. \A c \in Caches : {partial[c], full[c], empty[c]} \subseteq Seq(DOMAIN slabs)
    <3> TAKE c \in Caches
    <3>1. /\ PartialOnes(c, slabs) \subseteq DOMAIN slabs
          /\ FullOnes(c, slabs) \subseteq DOMAIN slabs
          /\ EmptyOnes(c, slabs) \subseteq DOMAIN slabs
      BY DEF PartialOnes, FullOnes, EmptyOnes
    <3> QED
      BY <2>1, <3>1, ListsIn DEF ListsInv
  <2>4. \A i \in DOMAIN id_map : i \in Nat /\ id_map[i] \in Records
    BY <2>1 DEF TypesInv
  <2> QED
    BY <2>1, <2>2, <2>3, <2>4 DEF TypesInv, TypeOK
<1> QED
  BY <1>1, Invariant, PTL

LEMMA InvLists == IInv => ListsMatchSlots
<1> SUFFICES ASSUME IInv, NEW c \in Caches
             PROVE  LET mine == {s \in DOMAIN slabs : slabs[s].cache = c} IN
                    /\ In(full[c]) = {s \in mine : IsFull(slabs[s])}
                    /\ In(empty[c]) = {s \in mine : IsEmpty(slabs[s])}
                    /\ In(partial[c]) = mine \ (In(full[c]) \cup In(empty[c]))
                    /\ NoRepeats(full[c]) /\ NoRepeats(empty[c])
                    /\ NoRepeats(partial[c])
                    /\ \A s \in mine : slabs[s].num_used = Cardinality(slabs[s].bitmap)
  BY DEF ListsMatchSlots
<1> DEFINE mine == {s \in DOMAIN slabs : slabs[s].cache = c}
<1>1. /\ Lists(partial[c], PartialOnes(c, slabs)) /\ Lists(full[c], FullOnes(c, slabs))
      /\ Lists(empty[c], EmptyOnes(c, slabs))
  BY DEF IInv, ListsInv
<1>2. In(full[c]) = {s \in mine : IsFull(slabs[s])}
  BY <1>1 DEF Lists, FullOnes
<1>3. In(empty[c]) = {s \in mine : IsEmpty(slabs[s])}
  BY <1>1 DEF Lists, EmptyOnes
<1>4. In(partial[c]) = mine \ (In(full[c]) \cup In(empty[c]))
  BY <1>1, <1>2, <1>3 DEF Lists, PartialOnes
<1>5. NoRepeats(full[c]) /\ NoRepeats(empty[c]) /\ NoRepeats(partial[c])
  BY <1>1 DEF Lists
<1>6. \A s \in mine : slabs[s].num_used = Cardinality(slabs[s].bitmap)
  BY DEF IInv, SlabsInv, Counted
<1> QED
  BY <1>2, <1>3, <1>4, <1>5, <1>6

\* Whatever the threads do, each slab is in exactly one list of its cache, the
\* one its bitmap calls for, and its count is that of the bitmap: list::remove
\* always finds the slab it is to move, and front() never hands out a full one.
THEOREM ListsMatch == Spec => []ListsMatchSlots
BY InvLists, Invariant, PTL

LEMMA InvOwners == IInv => SlotsAccounted
<1> SUFFICES ASSUME IInv, NEW s \in DOMAIN slabs, NEW slot \in 0 .. SlabSize
             PROVE  LET Owns(r) == r.slab = s /\ r.slot_index = slot IN
                    Cardinality({i \in DOMAIN id_map : Owns(id_map[i])})
                    + Cardinality({t \in Busy : Owns(job[t])})
                      = IF slot \in slabs[s].bitmap THEN 1 ELSE 0
  BY DEF SlotsAccounted
<1> DEFINE ids == {i \in DOMAIN id_map : At(id_map[i], s, slot)}
           calls == {t \in Busy : At(job[t], s, slot)}
<1>1. OwnersInv
  BY DEF IInv
<1>2. \A i, j \in ids : i = j
  BY <1>1 DEF OwnersInv, At, SameSlot
<1>3. \A t, u \in calls : t = u
  BY <1>1 DEF OwnersInv, At, SameSlot
<1>4. \A i \in ids, t \in calls : FALSE
  BY <1>1 DEF OwnersInv, At, SameSlot
<1>5. slot \notin slabs[s].bitmap => ids = {} /\ calls = {}
  BY <1>1 DEF OwnersInv, At, Holds
<1>6. slot \in slabs[s].bitmap => ids # {} \/ calls # {}
  BY <1>1 DEF OwnersInv
<1> HIDE DEF ids, calls
<1>7. Cardinality(ids) + Cardinality(calls) = IF slot \in slabs[s].bitmap THEN 1 ELSE 0
  <2>1. CASE ids = {} /\ calls = {}
    BY <1>6, <2>1, FS_EmptySet
  <2>2. CASE ids # {}
    <3>1. calls = {} /\ slot \in slabs[s].bitmap
      BY <1>4, <1>5, <2>2
    <3>2. Cardinality(ids) = 1 /\ Cardinality(calls) = 0
      BY <1>2, <2>2, <3>1, OneMember, FS_EmptySet
    <3> QED
      BY <3>1, <3>2
  <2>3. CASE calls # {}
    <3>1. ids = {} /\ slot \in slabs[s].bitmap
      BY <1>4, <1>5, <2>3
    <3>2. Cardinality(calls) = 1 /\ Cardinality(ids) = 0
      BY <1>3, <2>3, <3>1, OneMember, FS_EmptySet
    <3> QED
      BY <3>1, <3>2
  <2> QED
    BY <2>1, <2>2, <2>3
<1> QED
  BY <1>7 DEF ids, calls, At

\* Each used slot has exactly one owner, a live id or a call under way, and each
\* free one has none, at every step of every interleaving: no slot is given out
\* twice, none is lost between the erasing of an id and the release of its slot.
THEOREM SlotsOwnedOnce == Spec => []SlotsAccounted
BY InvOwners, Invariant, PTL

-----------------------------------------------------------------------------
(* The promise of the interface.                                           *)

\* The bytes of the slot of record r.
Block(r) == [addr |-> r.slab + r.slot_index * CacheSizes[r.cache_index],
             size |-> CacheSizes[r.cache_index]]

Live == [i \in DOMAIN id_map |-> Block(id_map[i])]

\* A block lies within its slab.
LEMMA BlockFits ==
  ASSUME IInv, NEW r, Holds(r)
  PROVE  /\ Block(r).addr \in Nat /\ Block(r).size \in Nat \ {0}
         /\ r.slab <= Block(r).addr
         /\ Block(r).addr + Block(r).size <= r.slab + SlabSize
<1> DEFINE c == r.cache_index
           k == CacheSizes[c]
<1>1. /\ c \in Caches /\ r.slab \in Nat /\ r.slot_index \in Nat
      /\ r.slot_index \in Slots(c)
  <2>1. r \in Records /\ r.slab \in DOMAIN slabs /\ slabs[r.slab].cache = c
        /\ r.slot_index \in slabs[r.slab].bitmap /\ Counted(slabs[r.slab])
    BY DEF IInv, SlabsInv, Holds
  <2> QED
    BY <2>1 DEF Records, Counted
<1>2. /\ k \in Nat \ {0} /\ NumSlots(c) \in Nat \ {0} /\ NumSlots(c) * k <= SlabSize
      /\ SlabSize \in Nat
  BY <1>1, SlotsFit, CachesType
<1> HIDE DEF k, c
<1>3. r.slot_index < NumSlots(c)
  BY <1>1, <1>2 DEF Slots
<1>4. /\ r.slot_index * k + k <= NumSlots(c) * k /\ r.slot_index * k \in Nat
      /\ NumSlots(c) * k \in Nat
  BY <1>1, <1>2, <1>3, Spaced
<1>5. Block(r).addr = r.slab + r.slot_index * k /\ Block(r).size = k
  BY DEF Block, k, c
<1> QED
  BY <1>1, <1>2, <1>4, <1>5

\* Two slots have no byte in common.
LEMMA BlocksApart ==
  ASSUME IInv, NEW q, NEW r, Holds(q), Holds(r), ~SameSlot(q, r)
  PROVE  Promise!Apart(Block(q), Block(r))
<1>1. /\ q.slab \in DOMAIN slabs /\ r.slab \in DOMAIN slabs
      /\ slabs[q.slab].cache = q.cache_index /\ slabs[r.slab].cache = r.cache_index
      /\ q.slab \in Nat /\ r.slab \in Nat /\ q.slot_index \in Nat /\ r.slot_index \in Nat
      /\ q.cache_index \in Caches /\ r.cache_index \in Caches
  BY DEF Holds, Records
<1>2. SlabSize \in Nat
  BY CachesType
<1>3. CASE q.slab # r.slab
  <2>1. q.slab + SlabSize <= r.slab \/ r.slab + SlabSize <= q.slab
    BY <1>1, <1>3 DEF IInv, PlacedInv
  <2>2. /\ Block(q).addr \in Nat /\ Block(q).size \in Nat /\ q.slab <= Block(q).addr
        /\ Block(q).addr + Block(q).size <= q.slab + SlabSize
    BY BlockFits
  <2>3. /\ Block(r).addr \in Nat /\ Block(r).size \in Nat /\ r.slab <= Block(r).addr
        /\ Block(r).addr + Block(r).size <= r.slab + SlabSize
    BY BlockFits
  <2> QED
    BY <1>1, <1>2, <2>1, <2>2, <2>3 DEF Promise!Apart
<1>4. CASE q.slab = r.slab
  <2> DEFINE k == CacheSizes[r.cache_index]
  <2>1. q.cache_index = r.cache_index /\ q.slot_index # r.slot_index /\ k \in Nat
    BY <1>1, <1>4, CachesType DEF SameSlot
  <2> HIDE DEF k
  <2>2. /\ Block(q).addr = r.slab + q.slot_index * k /\ Block(q).size = k
        /\ Block(r).addr = r.slab + r.slot_index * k /\ Block(r).size = k
    BY <1>4, <2>1 DEF Block, k
  <2>3. \/ q.slot_index * k + k <= r.slot_index * k
        \/ r.slot_index * k + k <= q.slot_index * k
    <3>1. q.slot_index < r.slot_index \/ r.slot_index < q.slot_index
      BY <1>1, <2>1
    <3> QED
      BY <1>1, <2>1, <3>1, Spaced
  <2>4. q.slot_index * k \in Nat /\ r.slot_index * k \in Nat
    BY <1>1, <2>1
  <2> QED
    BY <1>1, <2>1, <2>2, <2>3, <2>4 DEF Promise!Apart
<1> QED
  BY <1>3, <1>4

LEMMA LiveIs ==
  /\ Live = [i \in DOMAIN id_map |->
               LET r == id_map[i] IN
               [addr |-> r.slab + r.slot_index * CacheSizes[r.cache_index],
                size |-> CacheSizes[r.cache_index]]]
  /\ DOMAIN Live = DOMAIN id_map
  /\ \A i \in DOMAIN id_map : Live[i] = Block(id_map[i])
BY DEF Live, Block

LEMMA PublishKeepsPromise ==
  ASSUME IInv, NEW t \in Threads, Publish(t)
  PROVE  Promise!Allocate
<1> DEFINE b == Block(job[t])
<1>1. /\ pc[t] = "publish"
      /\ id_map' = [i \in DOMAIN id_map \cup {next_id} |->
                      IF i = next_id THEN job[t] ELSE id_map[i]]
      /\ next_id' = next_id + 1
      /\ total_size' = total_size
  BY DEF Publish
<1>2. t \in Busy /\ Holds(job[t])
  <2>1. t \in Busy
    BY <1>1 DEF Busy
  <2> QED
    BY <2>1 DEF IInv, OwnersInv
<1>3. next_id \in Nat \ {0} /\ DOMAIN id_map \subseteq 1 .. next_id - 1
  BY DEF IInv, TypesInv
<1>4. /\ DOMAIN id_map' = DOMAIN id_map \cup {next_id} /\ id_map'[next_id] = job[t]
      /\ \A i \in DOMAIN id_map : id_map'[i] = id_map[i]
  BY <1>1, <1>3
<1>5. /\ DOMAIN Live' = DOMAIN id_map \cup {next_id} /\ Live'[next_id] = b
      /\ \A i \in DOMAIN id_map : Live'[i] = Live[i]
  BY <1>4 DEF Live, Block
<1>6. Live' = [i \in DOMAIN Live \cup {next_id} |-> IF i = next_id THEN b ELSE Live[i]]
  <2>1. Live' = [i \in DOMAIN Live' |-> Live'[i]]
    BY DEF Live
  <2> QED
    BY <1>3, <1>5, <2>1, LiveIs
<1>7. (1 .. next_id - 1)' = (1 .. next_id - 1) \cup {next_id}
  BY <1>1, <1>3
<1>8. \A i \in DOMAIN Live : Promise!Apart(Live[i], b)
  <2>1. \A i \in DOMAIN id_map : Holds(id_map[i]) /\ ~SameSlot(id_map[i], job[t])
    BY <1>2 DEF IInv, OwnersInv
  <2>2. \A i \in DOMAIN id_map : Promise!Apart(Block(id_map[i]), Block(job[t]))
    BY <1>2, <2>1, BlocksApart
  <2> QED
    BY <2>2, LiveIs
<1>9. b.size > 0 /\ b.addr + b.size <= total_size
  <2>1. job[t].slab + SlabSize <= next_slab_address /\ next_slab_address <= total_size
    BY <1>2 DEF IInv, PlacedInv, Holds
  <2>2. /\ b.addr \in Nat /\ b.size \in Nat \ {0}
        /\ b.addr + b.size <= job[t].slab + SlabSize
    BY <1>2, BlockFits
  <2>3. /\ job[t].slab \in Nat /\ SlabSize \in Nat /\ next_slab_address \in Nat
        /\ total_size \in Nat
    BY <1>2, CachesType DEF Holds, Records, IInv, TypesInv
  <2> HIDE DEF b
  <2> QED
    BY <2>1, <2>2, <2>3
<1>10. next_id \in (DOMAIN Live)' \ (1 .. next_id - 1)
  BY <1>3, <1>5
<1> HIDE DEF b
<1>11. \E id \in (DOMAIN Live)' \ (1 .. next_id - 1) :
         /\ (1 .. next_id - 1)' = (1 .. next_id - 1) \cup {id}
         /\ Live' = [i \in DOMAIN Live \cup {id} |->
                      IF i = id THEN Live'[id] ELSE Live[i]]
         /\ Live'[id].size > 0
         /\ Live'[id].addr + Live'[id].size <= total_size
         /\ \A i \in DOMAIN Live : Promise!Apart(Live[i], Live'[id])
  <2>1. WITNESS next_id \in (DOMAIN Live)' \ (1 .. next_id - 1)
  <2> QED
    BY <1>5, <1>6, <1>7, <1>8, <1>9, <1>10
<1> QED
  BY <1>1, <1>11 DEF Promise!Allocate, Live, Block

LEMMA EraseKeepsPromise ==
  ASSUME NEW t \in Threads, NEW id \in DOMAIN id_map, Erase(t, id)
  PROVE  Promise!Free
<1>1. /\ id_map' = [i \in DOMAIN id_map \ {id} |-> id_map[i]]
      /\ next_id' = next_id /\ total_size' = total_size
  BY DEF Erase
<1>2. Live' = [i \in DOMAIN Live \ {id} |-> Live[i]]
  <2>1. Live' = [i \in DOMAIN Live' |-> Live'[i]]
    BY DEF Live
  <2>2. DOMAIN Live' = DOMAIN id_map \ {id}
    BY <1>1 DEF Live
  <2>3. \A i \in DOMAIN id_map \ {id} : Live'[i] = Live[i]
    BY <1>1 DEF Live, Block
  <2> QED
    BY <2>1, <2>2, <2>3, LiveIs
<1>3. id \in DOMAIN Live
  BY DEF Live
<1> QED
  BY <1>1, <1>2, <1>3 DEF Promise!Free, Live, Block

LEMMA InitMemoryResets ==
  ASSUME NEW size \in MemSizes, InitMemory(size)
  PROVE  Promise!Reset
<1>1. Live' = [i \in {} |-> 0]
  BY DEF InitMemory, Live, Nothing
<1>2. (1 .. next_id - 1)' = {}
  BY DEF InitMemory
<1>3. total_size' \in Nat
  BY SlabAssumption DEF InitMemory
<1> QED
  BY <1>1, <1>2, <1>3 DEF Promise!Reset, Live, Block

\* The slot that an allocation takes is in a slab of its cache.
LEMMA ReserveTakesEnough ==
  ASSUME IInv, NEW t \in Threads, NEW size \in Requests, NEW c \in Caches,
         CacheFor(size, c), Reserve(t, c)
  PROVE  CacheSizes[slabs'[job'[t].slab].cache] >= size
<1>1. OwnersInv'
  BY AllocatePartialInv, AllocateEmptyInv, AllocateNewInv DEF Reserve, IInv
<1>2. pc'[t] = "publish" /\ job'[t].cache_index = c
  <2>1. \E s, slot : job' = [job EXCEPT
          ![t] = [cache_index |-> c, slab |-> s, slot_index |-> slot]]
    BY DEF Reserve, AllocatePartial, AllocateEmpty, AllocateNew, TakeSlot
  <2>2. pc' = [pc EXCEPT ![t] = "publish"]
    BY DEF Reserve, AllocatePartial, AllocateEmpty, AllocateNew, Enter
  <2> QED
    BY <2>1, <2>2 DEF IInv, TypesInv
<1>3. slabs'[job'[t].slab].cache = c
  BY <1>1, <1>2 DEF OwnersInv, Holds, Busy
<1> QED
  BY <1>3 DEF CacheFor

\* It is still that slab's when the id is published.
LEMMA PublishGivesIt ==
  ASSUME IInv, NEW t \in Threads, Publish(t)
  PROVE  \E i \in DOMAIN id_map' \ DOMAIN id_map :
           /\ id_map'[i] = job[t]
           /\ slabs'[job[t].slab].cache = job[t].cache_index
<1>1. /\ pc[t] = "publish" /\ slabs' = slabs
      /\ id_map' = [i \in DOMAIN id_map \cup {next_id} |->
                      IF i = next_id THEN job[t] ELSE id_map[i]]
  BY DEF Publish
<1>2. slabs[job[t].slab].cache = job[t].cache_index
  BY <1>1 DEF IInv, OwnersInv, Holds, Busy
<1>3. next_id \notin DOMAIN id_map
  BY DEF IInv, TypesInv
<1> QED
  BY <1>1, <1>2, <1>3

\* However its callers interleave, the slab allocator does what Allocator.h
\* promises: an allocation ends with an id that is new since init() and with
\* as many bytes as were asked for, which no other live block has, a free takes
\* back its own block at the moment its id is erased, and neither the slots
\* reserved before nor those released after that disturb a block.
THEOREM ImplementsPromise == Spec => KeepsPromise
<1> DEFINE Enough ==
             \A t \in Threads :
               /\ \A size \in Requests, c \in Caches :
                    CacheFor(size, c) /\ Reserve(t, c) =>
                      CacheSizes[slabs'[job'[t].slab].cache] >= size
               /\ Publish(t) =>
                    \E i \in DOMAIN id_map' \ DOMAIN id_map :
                      /\ id_map'[i] = job[t]
                      /\ slabs'[job[t].slab].cache = job[t].cache_index
<1>1. Init => Promise!Init
  BY DEF Init, Promise!Init, Nothing
<1>2. IInv /\ [Next]_vars => [Promise!Next]_Promise!vars
  <2> SUFFICES ASSUME IInv, [Next]_vars
               PROVE  [Promise!Next]_Promise!vars
    OBVIOUS
  <2>1. ASSUME NEW size \in MemSizes, InitMemory(size) PROVE Promise!Next
    BY <2>1, InitMemoryResets DEF Promise!Next
  <2>2. ASSUME NEW t \in Threads, NEW c \in Caches, Reserve(t, c)
        PROVE  UNCHANGED Promise!vars
    BY <2>2 DEF Reserve, AllocatePartial, AllocateEmpty, AllocateNew, Promise!vars
  <2>3. ASSUME NEW t \in Threads, Publish(t) PROVE Promise!Next
    BY <2>3, PublishKeepsPromise DEF Promise!Next
  <2>4. ASSUME NEW t \in Threads, NEW id \in DOMAIN id_map, Erase(t, id)
        PROVE  Promise!Next
    BY <2>4, EraseKeepsPromise DEF Promise!Next
  <2>5. ASSUME NEW t \in Threads, Release(t) PROVE UNCHANGED Promise!vars
    BY <2>5 DEF Release, Promise!vars
  <2>6. CASE UNCHANGED vars
    BY <2>6 DEF vars, Promise!vars
  <2> QED
    BY <2>1, <2>2, <2>3, <2>4, <2>5, <2>6 DEF Next, AllocateFails
<1>3. IInv => [Enough]_vars
  BY ReserveTakesEnough, PublishGivesIt
<1> QED
  BY <1>1, <1>2, <1>3, Invariant, PTL
     DEF Spec, KeepsPromise, LargeEnough, Promise!Spec

-----------------------------------------------------------------------------
(* The benchmark.                                                          *)

\* By the way AllocStress is composed, its steps are calls of SlabAllocator, so
\* that the invariant above holds of every run of a benchmark.
LEMMA StressCalls == SSpec => Spec
<1>1. SInit => Init
  BY DEF SInit
<1>2. [SNext]_svars => [Next]_vars
  <2> SUFFICES ASSUME [SNext]_svars PROVE [Next]_vars
    OBVIOUS
  <2>0. Main \in Threads /\ Workers \subseteq Threads
    BY StressAssumption DEF Workers
  <2>1. ASSUME NEW size \in MemSizes, InitCommand(size) PROVE Next
    BY <2>1 DEF InitCommand, Next
  <2>2. ASSUME NEW size \in Requests, NEW c \in Caches, CacheFor(size, c),
               MallocCommand(c)
        PROVE  Next
    BY <2>0, <2>2 DEF MallocCommand, Next
  <2>3. ASSUME NEW id \in DOMAIN id_map, FreeCommand(id) PROVE Next
    BY <2>0, <2>3 DEF FreeCommand, Next
  <2>4. CASE CommandReturns
    BY <2>0, <2>4 DEF CommandReturns, Next
  <2>5. CASE Start
    BY <2>5 DEF Start
  <2>6. ASSUME NEW t \in Workers, Work(t) PROVE [Next]_vars
    <3>1. ASSUME NEW size \in Requests, NEW c \in Caches, CacheFor(size, c),
                 Malloc(t, c) \/ MallocFails(t, c)
          PROVE  [Next]_vars
      BY <2>0, <3>1 DEF Malloc, MallocFails, AllocateFails, Next
    <3>2. CASE MallocReturns(t)
      BY <2>0, <3>2 DEF MallocReturns, Next
    <3>3. ASSUME NEW id, FreeOwn(t, id) PROVE Next
      <4>1. id \in DOMAIN id_map /\ Erase(t, id)
        BY <3>3 DEF FreeOwn, Erase
      <4> QED
        BY <2>0, <4>1 DEF Next
    <3>4. CASE Skip(t)
      BY <3>4 DEF Skip
    <3>5. CASE FreeReturns(t)
      BY <2>0, <3>5 DEF FreeReturns, Next
    <3> QED
      BY <2>6, <3>1, <3>2, <3>3, <3>4, <3>5 DEF Work, Free, CleanUp
  <2>7. CASE Join
    BY <2>7 DEF Join
  <2>8. CASE UNCHANGED svars
    BY <2>8 DEF svars
  <2> QED
    BY <2>1, <2>2, <2>3, <2>4, <2>5, <2>6, <2>7, <2>8 DEF SNext
<1> QED
  BY <1>1, <1>2, PTL DEF SSpec, Spec

\* The inductive invariant of OwnBlocks: between benchmarks no worker has a
\* block or a call under way, during one the command line has no call under way.
WorkersInv ==
  /\ my_blocks \in [Workers -> SUBSET Nat]
  /\ phase = "workers" => pc[Main] = "idle"
  /\ phase # "workers" =>
       \A t \in Workers : my_blocks[t] = {} /\ pc[t] = "idle"

OwnInv == IInv /\ WorkersInv /\ OwnBlocks

LEMMA OwnInit == SInit => OwnInv
<1> SUFFICES ASSUME SInit PROVE OwnInv
  OBVIOUS
<1>1. IInv
  BY InitInv DEF SInit
<1>2. Main \in Threads /\ Workers \subseteq Threads
  BY StressAssumption DEF Workers
<1>3. WorkersInv /\ phase = "uninitialized"
  BY <1>2 DEF SInit, Init, WorkersInv
<1> QED
  BY <1>1, <1>3 DEF OwnInv, OwnBlocks

\* Steps that leave the workers' lists and the blocks alone.
LEMMA BlocksUntouched ==
  ASSUME OwnBlocks, UNCHANGED <<phase, my_blocks, before, id_map>>
  PROVE  OwnBlocks'
BY DEF OwnBlocks

LEMMA ReserveOnly ==
  ASSUME TypesInv, NEW t \in Threads, NEW c, Reserve(t, c)
  PROVE  /\ id_map' = id_map /\ pc[t] = "idle"
         /\ \A u \in Threads : u # t => pc'[u] = pc[u]
BY DEF Reserve, AllocatePartial, AllocateEmpty, AllocateNew, Enter, TypesInv

\* The commands.
LEMMA CommandOwn ==
  ASSUME OwnInv, Command, IInv', phase # "workers",
         \A u \in Workers : pc'[u] = pc[u]
  PROVE  OwnInv'
<1>1. WorkersInv'
  BY DEF OwnInv, WorkersInv, Command, locals
<1>2. OwnBlocks'
  BY DEF OwnBlocks, Command
<1> QED
  BY <1>1, <1>2 DEF OwnInv

LEMMA StartOwn ==
  ASSUME OwnInv, Start
  PROVE  OwnInv'
<1>1. /\ phase # "workers" /\ pc[Main] = "idle"
      /\ phase' = "workers" /\ before'.id_map = id_map
      /\ UNCHANGED <<vars, my_blocks, id_map, pc>>
  BY DEF Start, Prompt, vars, locals
<1>2. IInv'
  BY <1>1, NextInv DEF OwnInv
<1>3. \A t \in Workers : my_blocks'[t] = {}
  BY <1>1 DEF OwnInv, WorkersInv
<1>4. WorkersInv'
  BY <1>1 DEF OwnInv, WorkersInv
<1>5. OwnBlocks'
  <2>1. UNION {my_blocks'[t] : t \in Workers} = {}
    BY <1>3
  <2>2. DOMAIN id_map' \ DOMAIN before'.id_map = {}
    BY <1>1
  <2>3. \A t, u \in Workers : t # u => my_blocks'[t] \cap my_blocks'[u] = {}
    BY <1>3
  <2>4. \A id \in DOMAIN before'.id_map :
          id \in DOMAIN id_map' /\ id_map'[id] = before'.id_map[id]
    BY <1>1
  <2> QED
    BY <2>1, <2>2, <2>3, <2>4 DEF OwnBlocks
<1> QED
  BY <1>2, <1>4, <1>5 DEF OwnInv

\* A new id goes into the list of the worker that asked for it.
LEMMA MallocReturnsOwn ==
  ASSUME OwnInv, IInv', NEW t \in Workers, MallocReturns(t)
  PROVE  OwnInv'
<1>1. IInv /\ WorkersInv /\ OwnBlocks /\ t \in Threads /\ t # Main /\ Main \in Threads
  BY StressAssumption DEF OwnInv, Workers
<1>2. /\ pc[t] = "publish" /\ pc' = [pc EXCEPT ![t] = "idle"]
      /\ id_map' = [i \in DOMAIN id_map \cup {next_id} |->
                      IF i = next_id THEN job[t] ELSE id_map[i]]
      /\ my_blocks' = [my_blocks EXCEPT ![t] = my_blocks[t] \cup {next_id}]
      /\ UNCHANGED <<phase, before>>
  BY DEF MallocReturns, Publish
<1>3. phase = "workers"
  BY <1>1, <1>2 DEF WorkersInv
<1>4. next_id \in Nat /\ next_id \notin DOMAIN id_map
  BY <1>1 DEF IInv, TypesInv
<1>5. /\ DOMAIN id_map' = DOMAIN id_map \cup {next_id}
      /\ \A i \in DOMAIN id_map : id_map'[i] = id_map[i]
  BY <1>2, <1>4
<1>6. /\ \A u, v \in Workers : u # v => my_blocks[u] \cap my_blocks[v] = {}
      /\ DOMAIN id_map \ DOMAIN before.id_map = UNION {my_blocks[u] : u \in Workers}
      /\ \A id \in DOMAIN before.id_map :
           id \in DOMAIN id_map /\ id_map[id] = before.id_map[id]
  BY <1>1, <1>3 DEF OwnBlocks
<1>7. /\ my_blocks' \in [Workers -> SUBSET Nat]
      /\ my_blocks'[t] = my_blocks[t] \cup {next_id}
      /\ \A u \in Workers : u # t => my_blocks'[u] = my_blocks[u]
  BY <1>1, <1>2, <1>4 DEF WorkersInv
<1>8. WorkersInv'
  BY <1>1, <1>2, <1>3, <1>7 DEF WorkersInv
<1>9. OwnBlocks'
  <2>1. next_id \notin DOMAIN before.id_map /\ \A u \in Workers : next_id \notin my_blocks[u]
    BY <1>4, <1>6
  <2>2. \A u, v \in Workers : u # v => my_blocks'[u] \cap my_blocks'[v] = {}
    BY <1>6, <1>7, <2>1
  <2>3. DOMAIN id_map' \ DOMAIN before.id_map = UNION {my_blocks'[u] : u \in Workers}
    BY <1>5, <1>6, <1>7, <2>1
  <2>4. \A id \in DOMAIN before.id_map :
          id \in DOMAIN id_map' /\ id_map'[id] = before.id_map[id]
    BY <1>5, <1>6
  <2> QED
    BY <1>2, <2>2, <2>3, <2>4 DEF OwnBlocks
<1> QED
  BY <1>8, <1>9 DEF OwnInv

\* A worker frees a block of its list: nobody else has its id.
LEMMA FreeOwnOwn ==
  ASSUME OwnInv, IInv', phase = "workers",
         NEW t \in Workers, NEW id \in my_blocks[t], FreeOwn(t, id)
  PROVE  OwnInv'
<1>1. IInv /\ WorkersInv /\ OwnBlocks /\ t \in Threads /\ t # Main /\ Main \in Threads
  BY StressAssumption DEF OwnInv, Workers
<1>2. /\ pc' = [pc EXCEPT ![t] = "free"]
      /\ id_map' = [i \in DOMAIN id_map \ {id} |-> id_map[i]]
      /\ my_blocks' = [my_blocks EXCEPT ![t] = my_blocks[t] \ {id}]
      /\ UNCHANGED <<phase, before>>
  BY DEF FreeOwn, Erase
<1>3. /\ \A u, v \in Workers : u # v => my_blocks[u] \cap my_blocks[v] = {}
      /\ DOMAIN id_map \ DOMAIN before.id_map = UNION {my_blocks[u] : u \in Workers}
      /\ \A i \in DOMAIN before.id_map :
           i \in DOMAIN id_map /\ id_map[i] = before.id_map[i]
  BY <1>1 DEF OwnBlocks
<1>4. /\ my_blocks' \in [Workers -> SUBSET Nat]
      /\ my_blocks'[t] = my_blocks[t] \ {id}
      /\ \A u \in Workers : u # t => my_blocks'[u] = my_blocks[u]
  BY <1>1, <1>2 DEF WorkersInv
<1>5. /\ DOMAIN id_map' = DOMAIN id_map \ {id}
      /\ \A i \in DOMAIN id_map' : id_map'[i] = id_map[i]
  BY <1>2
<1>6. WorkersInv'
  BY <1>1, <1>2, <1>4 DEF WorkersInv
<1>7. OwnBlocks'
  <2>1. id \notin DOMAIN before.id_map /\ id \in DOMAIN id_map
    BY <1>3
  <2>2. \A u \in Workers : u # t => id \notin my_blocks[u]
    BY <1>3
  <2>3. \A u, v \in Workers : u # v => my_blocks'[u] \cap my_blocks'[v] = {}
    BY <1>3, <1>4
  <2>4. DOMAIN id_map' \ DOMAIN before.id_map = UNION {my_blocks'[u] : u \in Workers}
    BY <1>3, <1>4, <1>5, <2>2
  <2>5. \A i \in DOMAIN before.id_map :
          i \in DOMAIN id_map' /\ id_map'[i] = before.id_map[i]
    BY <1>3, <1>5, <2>1
  <2> QED
    BY <1>2, <2>3, <2>4, <2>5 DEF OwnBlocks
<1> QED
  BY <1>6, <1>7 DEF OwnInv

\* A worker's call, or its return, that changes neither blocks nor lists.
LEMMA WorkerOwn ==
  ASSUME OwnInv, IInv', phase = "workers", NEW t \in Workers,
         \A u \in Threads : u # t => pc'[u] = pc[u],
         UNCHANGED <<phase, my_blocks, before, id_map>>
  PROVE  OwnInv'
<1>1. Main \in Threads /\ Main # t
  BY StressAssumption DEF Workers
<1>2. WorkersInv'
  BY <1>1 DEF OwnInv, WorkersInv
<1> QED
  BY <1>2, BlocksUntouched DEF OwnInv

\* The block that a worker which cleans up frees next is in its list.
LEMMA FirstOfList ==
  ASSUME NEW blocks \in SUBSET Nat, blocks # {}
  PROVE  Min(blocks) \in blocks
<1>1. \E x \in blocks : \A y \in blocks : x <= y
  BY LeastNat
<1> QED
  BY <1>1 DEF Min

LEMMA WorkOwn ==
  ASSUME OwnInv, IInv', NEW t \in Workers, Work(t)
  PROVE  OwnInv'
<1>0. IInv /\ TypesInv /\ WorkersInv /\ OwnBlocks /\ t \in Threads
  BY DEF OwnInv, IInv, Workers
<1>1. ASSUME NEW size \in Requests, NEW c \in Caches, CacheFor(size, c),
             Malloc(t, c) \/ MallocFails(t, c)
      PROVE  OwnInv'
  <2>1. CASE Malloc(t, c)
    <3>1. phase = "workers" /\ Reserve(t, c) /\ UNCHANGED <<phase, my_blocks, before>>
      BY <2>1 DEF Malloc, Looping, locals
    <3>2. id_map' = id_map /\ \A u \in Threads : u # t => pc'[u] = pc[u]
      BY <1>0, <3>1, ReserveOnly
    <3> QED
      BY <3>1, <3>2, WorkerOwn
  <2>2. CASE MallocFails(t, c)
    <3>1. /\ phase = "workers"
          /\ UNCHANGED <<phase, my_blocks, before, id_map, pc>>
      BY <2>2 DEF MallocFails, AllocateFails, Looping, vars
    <3> QED
      BY <3>1, WorkerOwn
  <2> QED
    BY <1>1, <2>1, <2>2
<1>2. CASE MallocReturns(t)
  BY <1>2, MallocReturnsOwn
<1>3. CASE Free(t)
  <2>1. PICK id \in my_blocks[t] : FreeOwn(t, id)
    BY <1>3 DEF Free
  <2>2. phase = "workers"
    BY <1>3 DEF Free, Looping
  <2> QED
    BY <2>1, <2>2, FreeOwnOwn
<1>4. CASE Skip(t)
  <2>1. phase = "workers" /\ UNCHANGED <<phase, my_blocks, before, id_map, pc>>
    BY <1>4 DEF Skip, Looping, vars
  <2> QED
    BY <2>1, WorkerOwn
<1>5. CASE CleanUp(t)
  <2>1. phase = "workers" /\ my_blocks[t] # {} /\ FreeOwn(t, Min(my_blocks[t]))
    BY <1>5 DEF CleanUp
  <2>2. Min(my_blocks[t]) \in my_blocks[t]
    BY <1>0, <2>1, FirstOfList DEF WorkersInv
  <2> QED
    BY <2>1, <2>2, FreeOwnOwn
<1>6. CASE FreeReturns(t)
  <2>1. /\ pc[t] = "free" /\ pc' = [pc EXCEPT ![t] = "idle"]
        /\ UNCHANGED <<phase, my_blocks, before, id_map>>
    BY <1>6 DEF FreeReturns, Release
  <2>2. phase = "workers"
    BY <1>0, <2>1 DEF WorkersInv
  <2>3. \A u \in Threads : u # t => pc'[u] = pc[u]
    BY <1>0, <2>1 DEF TypesInv
  <2> QED
    BY <2>1, <2>2, <2>3, WorkerOwn
<1> QED
  BY <1>1, <1>2, <1>3, <1>4, <1>5, <1>6 DEF Work

LEMMA JoinOwn ==
  ASSUME OwnInv, IInv', Join
  PROVE  OwnInv'
<1>1. /\ \A t \in Workers : my_blocks[t] = {} /\ pc[t] = "idle"
      /\ phase' = "joined" /\ UNCHANGED <<my_blocks, pc>>
  BY DEF Join, Finished, vars
<1>2. WorkersInv'
  BY <1>1 DEF OwnInv, WorkersInv
<1> QED
  BY <1>1, <1>2 DEF OwnInv, OwnBlocks

LEMMA OwnNext == OwnInv /\ [SNext]_svars /\ IInv' => OwnInv'
<1> SUFFICES ASSUME OwnInv, [SNext]_svars, IInv' PROVE OwnInv'
  OBVIOUS
<1>0. /\ IInv /\ TypesInv /\ WorkersInv
      /\ Main \in Threads /\ Workers \subseteq Threads /\ Main \notin Workers
  BY StressAssumption DEF OwnInv, IInv, Workers
<1>1. ASSUME NEW size \in MemSizes, InitCommand(size) PROVE OwnInv'
  <2>1. phase # "workers" /\ Command /\ pc' = pc
    BY <1>1 DEF InitCommand, Prompt, InitMemory
  <2> QED
    BY <2>1, CommandOwn
<1>2. ASSUME NEW c \in Caches, MallocCommand(c) PROVE OwnInv'
  <2>1. phase # "workers" /\ Command /\ Reserve(Main, c)
    BY <1>2 DEF MallocCommand, Prompt
  <2>2. \A u \in Workers : pc'[u] = pc[u]
    BY <1>0, <2>1, ReserveOnly
  <2> QED
    BY <2>1, <2>2, CommandOwn
<1>3. ASSUME NEW id \in DOMAIN id_map, FreeCommand(id) PROVE OwnInv'
  <2>1. phase # "workers" /\ Command /\ pc' = [pc EXCEPT ![Main] = "free"]
    BY <1>3 DEF FreeCommand, Prompt, Erase
  <2>2. \A u \in Workers : pc'[u] = pc[u]
    BY <1>0, <2>1 DEF TypesInv
  <2> QED
    BY <2>1, <2>2, CommandOwn
<1>4. CASE CommandReturns
  <2>1. Command /\ pc[Main] # "idle" /\ pc' = [pc EXCEPT ![Main] = "idle"]
    BY <1>4 DEF CommandReturns, Publish, Release
  <2>2. phase # "workers"
    BY <1>0, <2>1 DEF WorkersInv
  <2>3. \A u \in Workers : pc'[u] = pc[u]
    BY <1>0, <2>1 DEF TypesInv
  <2> QED
    BY <2>1, <2>2, <2>3, CommandOwn
<1>5. CASE Start
  BY <1>5, StartOwn
<1>6. ASSUME NEW t \in Workers, Work(t) PROVE OwnInv'
  BY <1>6, WorkOwn
<1>7. CASE Join
  BY <1>7, JoinOwn
<1>8. CASE UNCHANGED svars
  <2>1. UNCHANGED <<phase, my_blocks, before, id_map, pc>>
    BY <1>8 DEF svars, vars, locals
  <2>2. WorkersInv'
    BY <1>0, <2>1 DEF WorkersInv
  <2> QED
    BY <2>1, <2>2, BlocksUntouched DEF OwnInv
<1> QED
  BY <1>1, <1>2, <1>3, <1>4, <1>5, <1>6, <1>7, <1>8 DEF SNext

\* While the workers of a benchmark run, every id that was not there before is
\* in the list of exactly one of them and every block of the user's stays what it
\* was: for any number of workers and operations no worker frees another's block,
\* the user's, or one twice.
THEOREM OwnBlocksKept == SSpec => []OwnBlocks
<1>1. OwnInv => OwnBlocks
  BY DEF OwnInv
<1>2. SSpec => []IInv
  BY StressCalls, Invariant, PTL
<1> QED
  BY <1>1, <1>2, OwnInit, OwnNext, PTL DEF SSpec

\* The first part of AllReturned, and what it rests on.
UserBlocksBack == phase = "joined" => id_map = before.id_map

ReturnInv ==
  /\ phase = "workers" =>
       before.id_map = [i \in DOMAIN before.id_map |-> before.id_map[i]]
  /\ UserBlocksBack

LEMMA ReturnNext == OwnInv /\ ReturnInv /\ [SNext]_svars => ReturnInv'
<1> SUFFICES ASSUME OwnInv, ReturnInv, [SNext]_svars PROVE ReturnInv'
  OBVIOUS
<1>0. /\ TypesInv /\ WorkersInv /\ OwnBlocks /\ Workers \subseteq Threads
      /\ id_map = [i \in DOMAIN id_map |-> id_map[i]]
  BY DEF OwnInv, IInv, TypesInv, Workers
<1>1. CASE Command
  BY <1>1 DEF Command, ReturnInv, UserBlocksBack
<1>2. CASE Start
  <2>1. phase' = "workers" /\ before'.id_map = id_map
    BY <1>2 DEF Start
  <2> QED
    BY <1>0, <2>1 DEF ReturnInv, UserBlocksBack
<1>3. ASSUME NEW t \in Workers, Work(t) PROVE ReturnInv'
  <2>1. phase = "workers"
    BY <1>0, <1>3 DEF Work, Malloc, MallocFails, MallocReturns, Publish, Free, Skip,
                      CleanUp, FreeReturns, Release, Looping, WorkersInv
  <2>2. phase' = phase /\ before' = before
    BY <1>3 DEF Work, Malloc, MallocFails, MallocReturns, Free, Skip, CleanUp,
                FreeOwn, FreeReturns
  <2> QED
    BY <2>1, <2>2 DEF ReturnInv, UserBlocksBack
<1>4. CASE Join /\ Workers # {}
  <2>1. /\ phase = "workers" /\ \A t \in Workers : my_blocks[t] = {}
        /\ id_map' = id_map /\ before' = before /\ phase' = "joined"
    BY <1>4 DEF Join, Finished, vars
  <2>2. DOMAIN id_map \ DOMAIN before.id_map = {}
    BY <1>0, <2>1 DEF OwnBlocks
  <2>3. \A i \in DOMAIN before.id_map :
          i \in DOMAIN id_map /\ id_map[i] = before.id_map[i]
    BY <1>0, <2>1 DEF OwnBlocks
  <2>4. DOMAIN id_map = DOMAIN before.id_map
    BY <2>2, <2>3
  <2>5. before.id_map = [i \in DOMAIN before.id_map |-> before.id_map[i]]
    BY <2>1 DEF ReturnInv
  <2>6. id_map = before.id_map
    BY <1>0, <2>3, <2>4, <2>5
  <2> QED
    BY <2>1, <2>6 DEF ReturnInv, UserBlocksBack
<1>5. CASE UNCHANGED svars
  BY <1>5 DEF svars, vars, ReturnInv, UserBlocksBack
<1> QED
  BY <1>1, <1>2, <1>3, <1>4, <1>5, StressAssumption
     DEF SNext, InitCommand, MallocCommand, FreeCommand, CommandReturns

\* When a benchmark has been joined the blocks that the user had before it are
\* all there is, each at its old place, however the workers' calls interleaved.
THEOREM UserBlocksReturned == SSpec => []UserBlocksBack
<1>1. SInit => ReturnInv
  BY DEF SInit, ReturnInv, UserBlocksBack
<1>2. SSpec => []OwnInv
  <2>1. SSpec => []IInv
    BY StressCalls, Invariant, PTL
  <2> QED
    BY <2>1, OwnInit, OwnNext, PTL DEF SSpec
<1>3. ReturnInv => UserBlocksBack
  BY DEF ReturnInv
<1> QED
  BY <1>1, <1>2, <1>3, ReturnNext, PTL DEF SSpec

-----------------------------------------------------------------------------
(* What the benchmark counts.                                              *)

Stats == [allocs : Nat, alloc_fails : Nat, frees : Nat, total_ops : Nat]

\* The counts st of a worker that has these blocks and is in state p of a call:
\* every allocation failed, was freed, is being freed or is still in the list.
Balanced(st, blocks, p) ==
  /\ IsFiniteSet(blocks)
  /\ st.allocs = st.alloc_fails + st.frees + Cardinality(blocks)
                 + (IF p = "free" THEN 1 ELSE 0)
  /\ st.total_ops <= OpsPerThread
  /\ p = "publish" => st.total_ops < OpsPerThread

Sum(f) == Total([t \in Workers |-> stats[t][f]])

\* The inductive invariant of AllReturned: the caches' counts have grown since
\* the benchmark began by what the workers have counted.
TallyInv ==
  /\ stats \in [Workers -> Stats]
  /\ \A t \in Workers : Balanced(stats[t], my_blocks[t], pc[t])
  /\ phase # "workers" => stats = [t \in Workers |-> NoStats]
  /\ before.allocated \in Nat /\ before.freed \in Nat
  /\ phase = "workers" =>
       /\ Allocated + Sum("alloc_fails") = before.allocated + Sum("allocs")
       /\ Freed = before.freed + Sum("frees")

\* The counts of the caches and their sums.
LEMMA FiniteCaches == IsFiniteSet(Caches)
<1>1. Len(CacheSizes) \in Nat /\ Caches = 1 .. Len(CacheSizes)
  BY SlabAssumption DEF Caches
<1> QED
  BY <1>1, FS_Interval

LEMMA CountsType ==
  ASSUME TypesInv
  PROVE  Allocated \in Nat /\ Freed \in Nat
BY FiniteCaches, UnitsAre DEF TypesInv, Allocated, Freed

\* A count of one cache goes up, and the sum with it.
LEMMA CountUp ==
  ASSUME NEW f \in [Caches -> Nat], NEW g, NEW c \in Caches,
         g = [f EXCEPT ![c] = f[c] + 1]
  PROVE  Total(g) = Total(f) + 1
<1> DEFINE h == [f EXCEPT ![c] = f[c] + 1]
<1>1. h \in [Caches -> Nat] /\ h[c] = f[c] + 1 /\ \A d \in Caches \ {c} : f[d] = h[d]
  OBVIOUS
<1>2. g = h
  OBVIOUS
<1> HIDE DEF h
<1>3. Total(f) \in Nat /\ Total(h) \in Nat /\ Total(f) + h[c] = Total(h) + f[c]
  BY ONLY f \in [Caches -> Nat], c \in Caches, <1>1, FiniteCaches, TotalDiffers
<1>4. f[c] \in Nat
  OBVIOUS
<1>5. Total(h) = Total(f) + 1
  BY <1>1, <1>3, <1>4
<1> QED
  BY <1>2, <1>5

\* The records of counts that the steps make.
LEMMA StatsExcept ==
  ASSUME NEW st \in Stats, NEW n \in Nat
  PROVE  /\ LET s == [st EXCEPT !.allocs = n] IN
            /\ s \in Stats /\ s.allocs = n /\ s.alloc_fails = st.alloc_fails
            /\ s.frees = st.frees /\ s.total_ops = st.total_ops
         /\ LET s == [st EXCEPT !.alloc_fails = n] IN
            /\ s \in Stats /\ s.allocs = st.allocs /\ s.alloc_fails = n
            /\ s.frees = st.frees /\ s.total_ops = st.total_ops
         /\ LET s == [st EXCEPT !.frees = n] IN
            /\ s \in Stats /\ s.allocs = st.allocs /\ s.alloc_fails = st.alloc_fails
            /\ s.frees = n /\ s.total_ops = st.total_ops
         /\ LET s == [st EXCEPT !.total_ops = n] IN
            /\ s \in Stats /\ s.allocs = st.allocs /\ s.alloc_fails = st.alloc_fails
            /\ s.frees = st.frees /\ s.total_ops = n
BY DEF Stats

\* A worker that has not begun.
LEMMA InitialStats ==
  /\ NoStats \in Stats
  /\ Balanced(NoStats, {}, "idle")
  /\ \A st \in [Workers -> Stats] : st = [t \in Workers |-> NoStats] =>
       \A f \in {"allocs", "alloc_fails", "frees"} :
         Total([t \in Workers |-> st[t][f]]) = 0
<1>1. NoStats \in Stats
  BY DEF NoStats, Stats
<1>2. Balanced(NoStats, {}, "idle")
  BY FS_EmptySet, StressAssumption DEF Balanced, NoStats
<1>3. ASSUME NEW st \in [Workers -> Stats], st = [t \in Workers |-> NoStats],
             NEW f \in {"allocs", "alloc_fails", "frees"}
      PROVE  Total([t \in Workers |-> st[t][f]]) = 0
  <2>1. [t \in Workers |-> st[t][f]] = [t \in Workers |-> 0]
    BY <1>3 DEF NoStats
  <2>2. Total([t \in Workers |-> 0]) = Cardinality(Workers) * 0
    BY StressAssumption, TotalConstant
  <2>3. Cardinality(Workers) \in Nat
    BY StressAssumption, FS_CardinalityType
  <2> QED
    BY <2>1, <2>2, <2>3
<1> QED
  BY <1>1, <1>2, <1>3

\* A step of a worker that changes its own counts, and the caches', alike.
LEMMA TallyStep ==
  ASSUME OwnInv, OwnInv', TallyInv, phase = "workers", NEW t \in Workers,
         UNCHANGED <<phase, before>>,
         NEW st \in Stats, stats' = [stats EXCEPT ![t] = st],
         \A u \in Workers \ {t} : pc'[u] = pc[u] /\ my_blocks'[u] = my_blocks[u],
         Balanced(st, my_blocks'[t], pc'[t]),
         Allocated' + st.alloc_fails + stats[t].allocs
           = Allocated + stats[t].alloc_fails + st.allocs,
         Freed' + stats[t].frees = Freed + st.frees
  PROVE  TallyInv'
<1> DEFINE Of(ss, f) == [u \in Workers |-> ss[u][f]]
           fs == {"allocs", "alloc_fails", "frees"}
<1>1. /\ stats \in [Workers -> Stats] /\ stats' \in [Workers -> Stats]
      /\ stats'[t] = st /\ \A u \in Workers \ {t} : stats'[u] = stats[u]
      /\ stats[t] \in Stats
  BY DEF TallyInv
<1>2. \A u \in Workers : Balanced(stats'[u], my_blocks'[u], pc'[u])
  BY <1>1 DEF TallyInv
<1>3. ASSUME NEW f \in fs
      PROVE  /\ Total(Of(stats, f)) \in Nat /\ Total(Of(stats', f)) \in Nat
             /\ Total(Of(stats, f)) + st[f] = Total(Of(stats', f)) + stats[t][f]
  <2> DEFINE g == Of(stats, f)
             h == Of(stats', f)
  <2>1. g \in [Workers -> Nat] /\ h \in [Workers -> Nat]
    BY <1>1 DEF Stats
  <2>2. /\ g[t] = stats[t][f] /\ h[t] = st[f]
        /\ \A u \in Workers \ {t} : g[u] = h[u]
    BY <1>1
  <2> HIDE DEF g, h
  <2>3. Total(g) \in Nat /\ Total(h) \in Nat /\ Total(g) + h[t] = Total(h) + g[t]
    BY <2>1, <2>2, StressAssumption, TotalDiffers
  <2> QED
    BY <2>2, <2>3 DEF g, h
<1>4. \A f \in fs : Sum(f) = Total(Of(stats, f)) /\ Sum(f)' = Total(Of(stats', f))
  BY DEF Sum
<1>5. \A f \in fs : /\ Sum(f) \in Nat /\ Sum(f)' \in Nat
                    /\ Sum(f) + st[f] = Sum(f)' + stats[t][f]
  BY <1>3, <1>4
<1>6. /\ Sum("allocs") \in Nat /\ Sum("allocs")' \in Nat
      /\ Sum("alloc_fails") \in Nat /\ Sum("alloc_fails")' \in Nat
      /\ Sum("frees") \in Nat /\ Sum("frees")' \in Nat
      /\ Sum("allocs") + st.allocs = Sum("allocs")' + stats[t].allocs
      /\ Sum("alloc_fails") + st.alloc_fails = Sum("alloc_fails")' + stats[t].alloc_fails
      /\ Sum("frees") + st.frees = Sum("frees")' + stats[t].frees
  BY <1>5
<1>7. /\ Allocated \in Nat /\ Allocated' \in Nat /\ Freed \in Nat /\ Freed' \in Nat
      /\ before.allocated \in Nat /\ before.freed \in Nat
  <2>1. TypesInv /\ TypesInv'
    BY DEF OwnInv, IInv
  <2> QED
    BY <2>1, FiniteCaches, UnitsAre DEF TypesInv, Allocated, Freed, TallyInv
<1>8. /\ st.allocs \in Nat /\ st.alloc_fails \in Nat /\ st.frees \in Nat
      /\ stats[t].allocs \in Nat /\ stats[t].alloc_fails \in Nat /\ stats[t].frees \in Nat
  BY <1>1 DEF Stats
<1>9. /\ Allocated + Sum("alloc_fails") = before.allocated + Sum("allocs")
      /\ Freed = before.freed + Sum("frees")
  BY DEF TallyInv
<1>10. /\ Allocated' + Sum("alloc_fails")' = before.allocated + Sum("allocs")'
       /\ Freed' = before.freed + Sum("frees")'
  <2> DEFINE a == Allocated       an == Allocated'       b == before.allocated
             x == Sum("alloc_fails")   xn == Sum("alloc_fails")'
             x0 == stats[t].alloc_fails  x1 == st.alloc_fails
             y == Sum("allocs")   yn == Sum("allocs")'
             y0 == stats[t].allocs   y1 == st.allocs
             c == Freed   cn == Freed'   d == before.freed
             z == Sum("frees")   zn == Sum("frees")'
             z0 == stats[t].frees   z1 == st.frees
  <2>1. /\ a + x = b + y /\ x + x1 = xn + x0 /\ y + y1 = yn + y0
        /\ an + x1 + y0 = a + x0 + y1
        /\ c = d + z /\ z + z1 = zn + z0 /\ cn + z0 = c + z1
    BY <1>6, <1>9
  <2>2. /\ a \in Nat /\ an \in Nat /\ b \in Nat /\ x \in Nat /\ xn \in Nat
        /\ x0 \in Nat /\ x1 \in Nat /\ y \in Nat /\ yn \in Nat /\ y0 \in Nat
        /\ y1 \in Nat
        /\ c \in Nat /\ cn \in Nat /\ d \in Nat /\ z \in Nat /\ zn \in Nat
        /\ z0 \in Nat /\ z1 \in Nat
    BY <1>6, <1>7, <1>8
  <2> HIDE DEF a, an, b, x, xn, x0, x1, y, yn, y0, y1, c, cn, d, z, zn, z0, z1
  <2>3. an + xn = b + yn
    BY ONLY <2>1, <2>2
  <2>4. cn = d + zn
    BY ONLY <2>1, <2>2
  <2> QED
    BY <2>3, <2>4 DEF an, xn, b, yn, cn, d, zn
<1> QED
  BY <1>1, <1>2, <1>7, <1>10 DEF TallyInv

\* A step after which only the blocks or the call of a worker are others.
LEMMA TallyKeeps ==
  ASSUME OwnInv, OwnInv', TallyInv, phase = "workers", NEW t \in Workers,
         UNCHANGED <<phase, before, stats, total_allocations, total_frees>>,
         \A u \in Workers \ {t} : pc'[u] = pc[u] /\ my_blocks'[u] = my_blocks[u],
         Balanced(stats[t], my_blocks'[t], pc'[t])
  PROVE  TallyInv'
<1>1. stats[t] \in Stats /\ stats' = [stats EXCEPT ![t] = stats[t]]
  BY DEF TallyInv
<1>2. Allocated' = Allocated /\ Freed' = Freed /\ Allocated \in Nat /\ Freed \in Nat
  BY CountsType DEF Allocated, Freed, OwnInv, IInv
<1>3. stats[t].allocs \in Nat /\ stats[t].alloc_fails \in Nat /\ stats[t].frees \in Nat
  BY <1>1 DEF Stats
<1>4. Allocated' + stats[t].alloc_fails + stats[t].allocs
        = Allocated + stats[t].alloc_fails + stats[t].allocs
  BY <1>2
<1>5. Freed' + stats[t].frees = Freed + stats[t].frees
  BY <1>2
<1> QED
  BY <1>1, <1>4, <1>5, TallyStep

LEMMA WorkTally ==
  ASSUME OwnInv, OwnInv', TallyInv, NEW t \in Workers, Work(t)
  PROVE  TallyInv'
<1>0. /\ TypesInv /\ OwnersInv /\ WorkersInv /\ OwnBlocks /\ t \in Threads /\ Workers \subseteq Threads
      /\ my_blocks \in [Workers -> SUBSET Nat]
      /\ OpsPerThread \in Nat
  BY StressAssumption DEF OwnInv, IInv, Workers, WorkersInv
<1>1. /\ stats[t] \in Stats /\ Balanced(stats[t], my_blocks[t], pc[t])
      /\ stats \in [Workers -> Stats]
  BY DEF TallyInv
<1>2. /\ stats[t].allocs \in Nat /\ stats[t].alloc_fails \in Nat
      /\ stats[t].frees \in Nat /\ stats[t].total_ops \in Nat
      /\ IsFiniteSet(my_blocks[t]) /\ Cardinality(my_blocks[t]) \in Nat
  BY <1>1, FS_CardinalityType DEF Stats, Balanced
<1>3. Allocated \in Nat /\ Freed \in Nat
  BY <1>0, CountsType
<1>4. ASSUME NEW c \in Caches, Malloc(t, c) PROVE TallyInv'
  <2>1. /\ Looping(t) /\ Reserve(t, c)
        /\ UNCHANGED <<phase, my_blocks, stats, before>>
    BY <1>4 DEF Malloc, locals
  <2>2. /\ pc[t] = "idle" /\ pc' = [pc EXCEPT ![t] = "publish"]
        /\ UNCHANGED <<total_allocations, total_frees>>
    BY <2>1 DEF Reserve, AllocatePartial, AllocateEmpty, AllocateNew, Enter
  <2>3. pc'[t] = "publish" /\ \A u \in Workers \ {t} : pc'[u] = pc[u]
    BY <1>0, <2>2 DEF TypesInv
  <2>4. Balanced(stats[t], my_blocks'[t], pc'[t])
    BY <1>1, <1>2, <2>1, <2>2, <2>3 DEF Balanced, Looping
  <2> QED
    BY <2>1, <2>2, <2>3, <2>4, TallyKeeps DEF Looping
<1>5. ASSUME NEW c \in Caches, MallocFails(t, c) PROVE TallyInv'
  <2> DEFINE st == [stats[t] EXCEPT !.allocs = stats[t].allocs + 1,
                                    !.alloc_fails = stats[t].alloc_fails + 1,
                                    !.total_ops = stats[t].total_ops + 1]
  <2>1. /\ Looping(t) /\ pc[t] = "idle"
        /\ stats' = [stats EXCEPT ![t] = st]
        /\ UNCHANGED <<phase, my_blocks, before, pc, total_allocations, total_frees>>
    BY <1>5, <1>1 DEF MallocFails, AllocateFails, vars
  <2>2. /\ st \in Stats /\ st.allocs = stats[t].allocs + 1
        /\ st.alloc_fails = stats[t].alloc_fails + 1 /\ st.frees = stats[t].frees
        /\ st.total_ops = stats[t].total_ops + 1
    <3> DEFINE a == [stats[t] EXCEPT !.allocs = stats[t].allocs + 1]
               b == [a EXCEPT !.alloc_fails = stats[t].alloc_fails + 1]
               d == [b EXCEPT !.total_ops = stats[t].total_ops + 1]
    <3>1. /\ stats[t].allocs + 1 \in Nat /\ stats[t].total_ops + 1 \in Nat
          /\ stats[t].alloc_fails + 1 \in Nat
      BY <1>2
    <3>2. st = d
      OBVIOUS
    <3>3. /\ a \in Stats /\ a.allocs = stats[t].allocs + 1
          /\ a.alloc_fails = stats[t].alloc_fails /\ a.frees = stats[t].frees
          /\ a.total_ops = stats[t].total_ops
      BY <1>1, <3>1, StatsExcept
    <3> HIDE DEF a, st
    <3>4. /\ b \in Stats /\ b.allocs = a.allocs
          /\ b.alloc_fails = stats[t].alloc_fails + 1 /\ b.frees = a.frees
      BY <3>1, <3>3, StatsExcept
    <3> HIDE DEF b
    <3>5. /\ d \in Stats /\ d.allocs = b.allocs /\ d.alloc_fails = b.alloc_fails
          /\ d.frees = b.frees /\ d.total_ops = stats[t].total_ops + 1
      BY <3>1, <3>4, StatsExcept
    <3> HIDE DEF d
    <3> QED
      BY <3>2, <3>3, <3>4, <3>5
  <2> HIDE DEF st
  <2>3. Balanced(st, my_blocks'[t], pc'[t])
    BY <1>0, <1>1, <1>2, <2>1, <2>2 DEF Balanced, Looping
  <2>4. Allocated' = Allocated /\ Freed' = Freed
    BY <2>1 DEF Allocated, Freed
  <2>5. /\ Allocated' + st.alloc_fails + stats[t].allocs
             = Allocated + stats[t].alloc_fails + st.allocs
        /\ Freed' + stats[t].frees = Freed + st.frees
    BY <1>2, <1>3, <2>2, <2>4
  <2> QED
    BY <2>1, <2>2, <2>3, <2>5, TallyStep DEF Looping
<1>6. CASE MallocReturns(t)
  <2> DEFINE st == [stats[t] EXCEPT !.allocs = stats[t].allocs + 1,
                                    !.total_ops = stats[t].total_ops + 1]
  <2>1. /\ pc[t] = "publish" /\ pc' = [pc EXCEPT ![t] = "idle"]
        /\ my_blocks' = [my_blocks EXCEPT ![t] = my_blocks[t] \cup {next_id}]
        /\ stats' = [stats EXCEPT ![t] = st]
        /\ total_allocations' = [total_allocations EXCEPT
             ![job[t].cache_index] = total_allocations[job[t].cache_index] + 1]
        /\ UNCHANGED <<phase, before, total_frees>>
    BY <1>6, <1>1 DEF MallocReturns, Publish
  <2>2. phase = "workers"
    BY <1>0, <2>1 DEF WorkersInv
  <2>3. /\ st \in Stats /\ st.allocs = stats[t].allocs + 1
        /\ st.alloc_fails = stats[t].alloc_fails /\ st.frees = stats[t].frees
        /\ st.total_ops = stats[t].total_ops + 1
    <3> DEFINE a == [stats[t] EXCEPT !.allocs = stats[t].allocs + 1]
               c == [a EXCEPT !.total_ops = stats[t].total_ops + 1]
    <3>1. stats[t].allocs + 1 \in Nat /\ stats[t].total_ops + 1 \in Nat
      BY <1>2
    <3>2. st = c
      OBVIOUS
    <3>3. /\ a \in Stats /\ a.allocs = stats[t].allocs + 1
          /\ a.alloc_fails = stats[t].alloc_fails /\ a.frees = stats[t].frees
          /\ a.total_ops = stats[t].total_ops
      BY <1>1, <3>1, StatsExcept
    <3> HIDE DEF a, st
    <3>4. /\ c \in Stats /\ c.allocs = a.allocs /\ c.alloc_fails = a.alloc_fails
          /\ c.frees = a.frees /\ c.total_ops = stats[t].total_ops + 1
      BY <3>1, <3>3, StatsExcept
    <3> HIDE DEF c
    <3> QED
      BY <3>2, <3>3, <3>4
  <2> HIDE DEF st
  <2>4. /\ pc'[t] = "idle" /\ my_blocks'[t] = my_blocks[t] \cup {next_id}
        /\ \A u \in Workers \ {t} : pc'[u] = pc[u] /\ my_blocks'[u] = my_blocks[u]
    BY <1>0, <2>1 DEF TypesInv
  <2>5. next_id \notin my_blocks[t]
    BY <1>0, <2>2 DEF OwnBlocks, TypesInv
  <2>6. /\ IsFiniteSet(my_blocks'[t])
        /\ Cardinality(my_blocks'[t]) = Cardinality(my_blocks[t]) + 1
    <3>1. /\ IsFiniteSet(my_blocks[t] \cup {next_id})
          /\ Cardinality(my_blocks[t] \cup {next_id}) = Cardinality(my_blocks[t]) + 1
      BY <1>2, <2>5, FS_AddElement
    <3> QED
      BY <2>4, <3>1
  <2>7. Balanced(st, my_blocks'[t], pc'[t])
    BY <1>0, <1>1, <1>2, <2>1, <2>3, <2>4, <2>6 DEF Balanced
  <2>8. job[t].cache_index \in Caches
    BY <1>0, <2>1 DEF OwnersInv, Busy, Holds, Records
  <2>9. Allocated' = Allocated + 1 /\ Freed' = Freed
    BY <1>0, <2>1, <2>8, CountUp DEF Allocated, Freed, TypesInv
  <2>10. /\ Allocated' + st.alloc_fails + stats[t].allocs
              = Allocated + stats[t].alloc_fails + st.allocs
         /\ Freed' + stats[t].frees = Freed + st.frees
    BY <1>2, <1>3, <2>3, <2>9
  <2> QED
    BY <2>1, <2>2, <2>3, <2>4, <2>7, <2>10, TallyStep
<1>7. ASSUME NEW id \in my_blocks[t], FreeOwn(t, id), phase = "workers" PROVE TallyInv'
  <2>1. /\ pc[t] = "idle" /\ pc' = [pc EXCEPT ![t] = "free"]
        /\ my_blocks' = [my_blocks EXCEPT ![t] = my_blocks[t] \ {id}]
        /\ UNCHANGED <<phase, stats, before, total_allocations, total_frees>>
    BY <1>7 DEF FreeOwn, Erase
  <2>2. /\ pc'[t] = "free" /\ my_blocks'[t] = my_blocks[t] \ {id}
        /\ \A u \in Workers \ {t} : pc'[u] = pc[u] /\ my_blocks'[u] = my_blocks[u]
    BY <1>0, <2>1 DEF TypesInv
  <2>3. /\ IsFiniteSet(my_blocks'[t])
        /\ Cardinality(my_blocks'[t]) = Cardinality(my_blocks[t]) - 1
    BY <1>2, <2>2, <1>7, FS_RemoveElement
  <2>4. Balanced(stats[t], my_blocks'[t], pc'[t])
    BY <1>1, <1>2, <2>1, <2>2, <2>3 DEF Balanced
  <2> QED
    BY <1>7, <2>1, <2>2, <2>4, TallyKeeps
<1>8. CASE Free(t)
  BY <1>7, <1>8 DEF Free, Looping
<1>9. CASE Skip(t)
  <2> DEFINE st == [stats[t] EXCEPT !.total_ops = stats[t].total_ops + 1]
  <2>1. /\ Looping(t) /\ pc[t] = "idle"
        /\ stats' = [stats EXCEPT ![t] = st]
        /\ UNCHANGED <<phase, my_blocks, before, pc, total_allocations, total_frees>>
    BY <1>9, <1>1 DEF Skip, vars
  <2>2. /\ st \in Stats /\ st.allocs = stats[t].allocs
        /\ st.alloc_fails = stats[t].alloc_fails /\ st.frees = stats[t].frees
        /\ st.total_ops = stats[t].total_ops + 1
    BY <1>1, <1>2 DEF Stats
  <2> HIDE DEF st
  <2>3. Balanced(st, my_blocks'[t], pc'[t])
    BY <1>0, <1>1, <1>2, <2>1, <2>2 DEF Balanced, Looping
  <2>4. Allocated' = Allocated /\ Freed' = Freed
    BY <2>1 DEF Allocated, Freed
  <2>5. /\ Allocated' + st.alloc_fails + stats[t].allocs
             = Allocated + stats[t].alloc_fails + st.allocs
        /\ Freed' + stats[t].frees = Freed + st.frees
    BY <1>2, <1>3, <2>2, <2>4
  <2> QED
    BY <2>1, <2>2, <2>3, <2>5, TallyStep DEF Looping
<1>10. CASE CleanUp(t)
  <2>1. phase = "workers" /\ my_blocks[t] # {} /\ FreeOwn(t, Min(my_blocks[t]))
    BY <1>10 DEF CleanUp
  <2>2. Min(my_blocks[t]) \in my_blocks[t]
    BY <1>0, <2>1, FirstOfList
  <2> QED
    BY <2>1, <2>2, <1>7
<1>11. CASE FreeReturns(t)
  <2> DEFINE ops == IF Looping(t) THEN stats[t].total_ops + 1 ELSE stats[t].total_ops
             st == [stats[t] EXCEPT !.frees = stats[t].frees + 1, !.total_ops = ops]
  <2>1. /\ pc[t] = "free" /\ pc' = [pc EXCEPT ![t] = "idle"]
        /\ stats' = [stats EXCEPT ![t] = st]
        /\ total_frees' = [total_frees EXCEPT
             ![job[t].cache_index] = total_frees[job[t].cache_index] + 1]
        /\ UNCHANGED <<phase, my_blocks, before, total_allocations>>
    BY <1>11, <1>1 DEF FreeReturns, Release
  <2>2. phase = "workers"
    BY <1>0, <2>1 DEF WorkersInv
  <2>3. ops \in Nat /\ ops <= OpsPerThread
    BY <1>0, <1>1, <1>2 DEF Looping, Balanced
  <2> HIDE DEF ops
  <2>4. /\ st \in Stats /\ st.allocs = stats[t].allocs
        /\ st.alloc_fails = stats[t].alloc_fails /\ st.frees = stats[t].frees + 1
        /\ st.total_ops = ops
    <3> DEFINE a == [stats[t] EXCEPT !.frees = stats[t].frees + 1]
               c == [a EXCEPT !.total_ops = ops]
    <3>1. stats[t].frees + 1 \in Nat
      BY <1>2
    <3>2. st = c
      OBVIOUS
    <3>3. /\ a \in Stats /\ a.allocs = stats[t].allocs
          /\ a.alloc_fails = stats[t].alloc_fails /\ a.frees = stats[t].frees + 1
          /\ a.total_ops = stats[t].total_ops
      BY <1>1, <3>1, StatsExcept
    <3> HIDE DEF a, st
    <3>4. /\ c \in Stats /\ c.allocs = a.allocs /\ c.alloc_fails = a.alloc_fails
          /\ c.frees = a.frees /\ c.total_ops = ops
      BY <2>3, <3>3, StatsExcept
    <3> HIDE DEF c
    <3> QED
      BY <3>2, <3>3, <3>4
  <2> HIDE DEF st
  <2>5. pc'[t] = "idle" /\ \A u \in Workers \ {t} : pc'[u] = pc[u]
    BY <1>0, <2>1 DEF TypesInv
  <2>6. Balanced(st, my_blocks'[t], pc'[t])
    BY <1>1, <1>2, <2>1, <2>3, <2>4, <2>5 DEF Balanced
  <2>7. job[t].cache_index \in Caches
    BY <1>0, <2>1 DEF OwnersInv, Busy, Holds, Records
  <2>8. Freed' = Freed + 1 /\ Allocated' = Allocated
    BY <1>0, <2>1, <2>7, CountUp DEF Allocated, Freed, TypesInv
  <2>9. /\ Allocated' + st.alloc_fails + stats[t].allocs
             = Allocated + stats[t].alloc_fails + st.allocs
        /\ Freed' + stats[t].frees = Freed + st.frees
    BY <1>2, <1>3, <2>4, <2>8
  <2> QED
    BY <2>1, <2>2, <2>4, <2>5, <2>6, <2>9, TallyStep
<1> QED
  BY <1>4, <1>5, <1>6, <1>8, <1>9, <1>10, <1>11 DEF Work

LEMMA TallyInit == SInit => TallyInv
<1> SUFFICES ASSUME SInit PROVE TallyInv
  OBVIOUS
<1>1. /\ phase = "uninitialized" /\ before.allocated = 0 /\ before.freed = 0
      /\ stats = [t \in Workers |-> NoStats]
      /\ \A t \in Workers : my_blocks[t] = {} /\ pc[t] = "idle"
  BY DEF SInit, Init, NothingFound, Workers
<1> QED
  BY <1>1, InitialStats DEF TallyInv

LEMMA TallyNext == OwnInv /\ OwnInv' /\ TallyInv /\ [SNext]_svars => TallyInv'
<1> SUFFICES ASSUME OwnInv, OwnInv', TallyInv, [SNext]_svars PROVE TallyInv'
  OBVIOUS
<1>0. WorkersInv /\ WorkersInv' /\ TypesInv /\ Workers \subseteq Threads /\ Main \in Threads
      /\ Main \notin Workers
  BY StressAssumption DEF OwnInv, IInv, Workers
<1>1. ASSUME phase' # "workers", stats' = [t \in Workers |-> NoStats],
             before'.allocated \in Nat, before'.freed \in Nat
      PROVE  TallyInv'
  <2>1. \A t \in Workers : my_blocks'[t] = {} /\ pc'[t] = "idle" /\ stats'[t] = NoStats
    BY <1>0, <1>1 DEF WorkersInv
  <2> QED
    BY <1>1, <2>1, InitialStats DEF TallyInv
<1>2. CASE Command /\ phase # "workers"
  BY <1>1, <1>2 DEF Command, locals, NothingFound, TallyInv
<1>3. CASE Start
  <2>1. /\ phase # "workers" /\ phase' = "workers" /\ UNCHANGED <<stats, my_blocks, pc>>
        /\ Allocated' = Allocated /\ Freed' = Freed
        /\ before'.allocated = Allocated /\ before'.freed = Freed
    BY <1>3 DEF Start, Prompt, vars, locals, Allocated, Freed
  <2>2. stats \in [Workers -> Stats] /\ stats = [t \in Workers |-> NoStats]
    BY <2>1 DEF TallyInv
  <2>3. \A f \in {"allocs", "alloc_fails", "frees"} :
          Total([t \in Workers |-> stats'[t][f]]) = 0
    BY <2>1, <2>2, InitialStats
  <2>4. Sum("allocs")' = 0 /\ Sum("alloc_fails")' = 0 /\ Sum("frees")' = 0
    BY <2>3 DEF Sum
  <2>5. Allocated \in Nat /\ Freed \in Nat
    BY <1>0, CountsType
  <2>6. /\ Allocated' + Sum("alloc_fails")' = before'.allocated + Sum("allocs")'
        /\ Freed' = before'.freed + Sum("frees")'
    BY <2>1, <2>4, <2>5
  <2>7. \A t \in Workers : Balanced(stats'[t], my_blocks'[t], pc'[t])
    BY <2>1 DEF TallyInv
  <2> QED
    BY <2>1, <2>2, <2>5, <2>6, <2>7 DEF TallyInv
<1>4. ASSUME NEW t \in Workers, Work(t) PROVE TallyInv'
  BY <1>4, WorkTally
<1>5. CASE Join
  <2>1. /\ phase' # "workers" /\ stats' = [t \in Workers |-> NoStats]
        /\ before' = before
    BY <1>5 DEF Join
  <2> QED
    BY <1>1, <2>1 DEF TallyInv
<1>6. CASE UNCHANGED svars
  <2>1. /\ UNCHANGED <<phase, my_blocks, stats, before, pc>>
        /\ Allocated' = Allocated /\ Freed' = Freed
        /\ \A f : Sum(f)' = Sum(f)
    BY <1>6 DEF svars, vars, locals, Allocated, Freed, Sum
  <2> QED
    BY <2>1 DEF TallyInv
<1>7. CASE CommandReturns
  <2>1. Command /\ pc[Main] # "idle"
    BY <1>7 DEF CommandReturns, Publish, Release
  <2>2. phase # "workers"
    BY <1>0, <2>1 DEF WorkersInv
  <2> QED
    BY <1>2, <2>1, <2>2
<1> QED
  BY <1>2, <1>3, <1>4, <1>5, <1>6, <1>7
     DEF SNext, InitCommand, MallocCommand, FreeCommand, Prompt

\* When nobody calls, a slot is used for each id and for nothing else.
LEMMA SlotPerId ==
  ASSUME IInv, \A t \in Threads : pc[t] = "idle"
  PROVE  Total([s \in DOMAIN slabs |-> slabs[s].num_used]) = Cardinality(DOMAIN id_map)
<1> DEFINE Ids == [s \in DOMAIN slabs |-> {i \in DOMAIN id_map : id_map[i].slab = s}]
           used == [s \in DOMAIN slabs |-> slabs[s].num_used]
<1>0. TypesInv /\ SlabsInv /\ PlacedInv /\ OwnersInv /\ Busy = {}
  BY DEF IInv, Busy
<1>1. IsFiniteSet(DOMAIN slabs)
  <2>1. \A s \in DOMAIN slabs : s \in Nat /\ s + SlabSize <= next_slab_address
    BY <1>0 DEF PlacedInv, SlabsInv
  <2>2. next_slab_address \in Nat /\ SlabSize \in Nat
    BY <1>0, SlabAssumption DEF TypesInv
  <2>3. \A s \in DOMAIN slabs : s <= next_slab_address
    BY <2>1, <2>2
  <2> QED
    BY <1>0, <2>2, <2>3, FS_BoundedSetOfNaturals DEF SlabsInv
<1>2. used \in [DOMAIN slabs -> Nat]
  BY <1>0 DEF SlabsInv, Slab
<1>3. ASSUME NEW s \in DOMAIN slabs
      PROVE  IsFiniteSet(Ids[s]) /\ Cardinality(Ids[s]) = used[s]
  <2> DEFINE B == slabs[s].bitmap
             I == {i \in DOMAIN id_map : id_map[i].slab = s}
             b == [i \in I |-> id_map[i].slot_index]
  <2>1. /\ IsFiniteSet(B) /\ Cardinality(B) = slabs[s].num_used
    BY <1>0, SlotsFinite DEF SlabsInv, Slab, Counted
  <2>2. \A i \in I : b[i] \in B
    BY <1>0 DEF OwnersInv, Holds
  <2>3. \A i, j \in I : b[i] = b[j] => i = j
    BY <1>0 DEF OwnersInv, SameSlot
  <2>4. \A slot \in B : \E i \in I : b[i] = slot
    BY <1>0 DEF OwnersInv, At
  <2>5. b \in [I -> B]
    BY <2>2
  <2>6. Ids[s] = I /\ used[s] = slabs[s].num_used
    OBVIOUS
  <2> HIDE DEF B, I, b, Ids, used
  <2>7. b \in Bijection(I, B)
    BY <2>3, <2>4, <2>5 DEF Bijection, Injection, Surjection, IsInjective
  <2>8. ExistsBijection(B, I)
    BY <2>7, Fun_ExistsBijSymmetric DEF ExistsBijection
  <2> QED
    BY <2>1, <2>6, <2>8, FS_Bijection
<1>4. \A s, r \in DOMAIN slabs : s # r => Ids[s] \cap Ids[r] = {}
  OBVIOUS
<1>5. \A i : i \in DOMAIN id_map <=> \E s \in DOMAIN slabs : i \in Ids[s]
  <2>1. \A i \in DOMAIN id_map : id_map[i].slab \in DOMAIN slabs
    BY <1>0 DEF OwnersInv, Holds
  <2>2. \A i \in DOMAIN id_map : i \in Ids[id_map[i].slab]
    BY <2>1
  <2>3. \A s \in DOMAIN slabs : Ids[s] \subseteq DOMAIN id_map
    OBVIOUS
  <2> HIDE DEF Ids
  <2> QED
    BY <2>1, <2>2, <2>3
<1> HIDE DEF Ids, used
<1>6. Cardinality(DOMAIN id_map) = Total(used)
  <2> DEFINE S == DOMAIN slabs
             all == DOMAIN id_map
  <2>1. IsFiniteSet(S)
    BY <1>1
  <2>2. used \in [S -> Nat]
    BY <1>2
  <2>3. \A s \in S : IsFiniteSet(Ids[s]) /\ Cardinality(Ids[s]) = used[s]
    BY <1>3
  <2>4. \A s, r \in S : s # r => Ids[s] \cap Ids[r] = {}
    BY <1>4
  <2>5. \A i : i \in all <=> \E s \in S : i \in Ids[s]
    BY <1>5
  <2> HIDE DEF S, all
  <2>6. Cardinality(all) = Total(used)
    BY ONLY <2>1, <2>2, <2>3, <2>4, <2>5, TotalOfSizes
  <2> QED
    BY <2>6 DEF all
<1> QED
  BY <1>6 DEF used

\* What Main finds when all workers have ended.
LEMMA JoinReturns ==
  ASSUME OwnInv, TallyInv, UserBlocksBack', Join
  PROVE  AllReturned'
<1> DEFINE Of(f) == [t \in Workers |-> stats[t][f]]
<1>1. /\ \A t \in Workers : /\ ~Looping(t) /\ phase = "workers"
                            /\ pc[t] = "idle" /\ my_blocks[t] = {}
      /\ phase' = "joined"
      /\ result' = [f \in DOMAIN NoStats |-> Total([t \in Workers |-> stats[t][f]])]
      /\ UNCHANGED <<id_map, slabs, empty, total_allocations, total_frees, before>>
  BY DEF Join, Finished, vars, lists
<1>2. IInv /\ WorkersInv /\ phase = "workers" /\ IsFiniteSet(Workers)
      /\ OpsPerThread \in Nat
  BY <1>1, StressAssumption DEF OwnInv
<1>3. \A t \in Threads : pc[t] = "idle"
  BY <1>1, <1>2 DEF WorkersInv, Workers
<1>4. id_map' = before'.id_map
  BY <1>1 DEF UserBlocksBack
<1>5. Total([s \in DOMAIN slabs' |-> slabs'[s].num_used]) = Cardinality(DOMAIN id_map')
  BY <1>1, <1>2, <1>3, SlotPerId
<1>6. \A s \in DOMAIN slabs' : slabs'[s].num_used = 0 => s \in In(empty'[slabs'[s].cache])
  <2>1. \A s \in DOMAIN slabs : slabs[s].cache \in Caches
    BY <1>2 DEF IInv, SlabsInv, Slab
  <2>2. \A c \in Caches : In(empty[c]) = EmptyOnes(c, slabs)
    BY <1>2 DEF IInv, ListsInv, Lists
  <2> QED
    BY <1>1, <2>1, <2>2 DEF EmptyOnes, IsEmpty
<1>7. /\ result'.allocs = Total(Of("allocs"))
      /\ result'.alloc_fails = Total(Of("alloc_fails"))
      /\ result'.frees = Total(Of("frees"))
      /\ result'.total_ops = Total(Of("total_ops"))
  <2>1. /\ "allocs" \in DOMAIN NoStats /\ "alloc_fails" \in DOMAIN NoStats
        /\ "frees" \in DOMAIN NoStats /\ "total_ops" \in DOMAIN NoStats
    BY DEF NoStats
  <2> QED
    BY <1>1, <2>1
<1>8. stats \in [Workers -> Stats] /\ \A t \in Workers : Balanced(stats[t], {}, "idle")
  BY <1>1 DEF TallyInv
<1>9. \A t \in Workers :
        /\ stats[t].allocs \in Nat /\ stats[t].alloc_fails \in Nat
        /\ stats[t].frees \in Nat /\ stats[t].total_ops \in Nat
        /\ stats[t].allocs = stats[t].alloc_fails + stats[t].frees
        /\ stats[t].total_ops = OpsPerThread
  <2> TAKE t \in Workers
  <2>1. /\ stats[t].allocs \in Nat /\ stats[t].alloc_fails \in Nat
        /\ stats[t].frees \in Nat /\ stats[t].total_ops \in Nat
    BY <1>8 DEF Stats
  <2>2. stats[t].allocs = stats[t].alloc_fails + stats[t].frees
    BY <1>8, <2>1, FS_EmptySet DEF Balanced
  <2>3. stats[t].total_ops = OpsPerThread
    BY <1>1, <1>2, <1>8, <2>1 DEF Balanced, Looping
  <2> QED
    BY <2>1, <2>2, <2>3
<1>10. Total(Of("total_ops")) = Cardinality(Workers) * OpsPerThread
  <2>1. Of("total_ops") = [t \in Workers |-> OpsPerThread]
    BY <1>9
  <2> HIDE DEF Of
  <2> QED
    BY <1>2, <2>1, TotalConstant
<1>11. /\ Total(Of("alloc_fails")) \in Nat /\ Total(Of("frees")) \in Nat
       /\ Total(Of("allocs")) = Total(Of("alloc_fails")) + Total(Of("frees"))
  <2> DEFINE f == Of("alloc_fails")
             g == Of("frees")
             h == Of("allocs")
  <2>1. /\ f \in [Workers -> Nat] /\ g \in [Workers -> Nat] /\ h \in [Workers -> Nat]
        /\ \A t \in Workers : h[t] = f[t] + g[t]
    BY <1>9
  <2> HIDE DEF f, g, h
  <2>2. Total(f) \in Nat /\ Total(g) \in Nat /\ Total(h) = Total(f) + Total(g)
    BY <1>2, <2>1, TotalAdds
  <2> QED
    BY <2>2 DEF f, g, h
<1>12. /\ Allocated + Total(Of("alloc_fails")) = before.allocated + Total(Of("allocs"))
       /\ Freed = before.freed + Total(Of("frees"))
       /\ before.allocated \in Nat /\ before.freed \in Nat
  BY <1>2 DEF TallyInv, Sum
<1>13. Allocated \in Nat /\ Freed \in Nat /\ Allocated' = Allocated /\ Freed' = Freed
  BY <1>1, <1>2, CountsType DEF IInv, Allocated, Freed
<1>14. /\ result'.total_ops = Cardinality(Workers) * OpsPerThread
       /\ result'.allocs - result'.alloc_fails = result'.frees
       /\ Allocated' - before'.allocated = result'.frees
       /\ Freed' - before'.freed = result'.frees
  <2> DEFINE x == Total(Of("alloc_fails"))  y == Total(Of("allocs"))
             z == Total(Of("frees"))
             a == Allocated  b == before.allocated  c == Freed  d == before.freed
  <2>1. /\ x \in Nat /\ z \in Nat /\ y = x + z /\ a + x = b + y /\ c = d + z
        /\ a \in Nat /\ b \in Nat /\ c \in Nat /\ d \in Nat
    BY <1>11, <1>12, <1>13
  <2> HIDE DEF x, y, z, a, b, c, d
  <2>2. y - x = z /\ a - b = z /\ c - d = z
    BY ONLY <2>1
  <2>3. y - x = z /\ Allocated - before.allocated = z /\ Freed - before.freed = z
    BY <2>2 DEF a, b, c, d
  <2>4. /\ result'.alloc_fails = x /\ result'.allocs = y /\ result'.frees = z
        /\ result'.total_ops = Cardinality(Workers) * OpsPerThread
    BY <1>7, <1>10 DEF x, y, z
  <2> QED
    BY <1>1, <1>13, <2>3, <2>4
<1> QED
  BY <1>4, <1>5, <1>6, <1>14 DEF AllReturned

LEMMA ReturnedNext ==
  OwnInv /\ OwnInv' /\ TallyInv /\ UserBlocksBack' /\ AllReturned /\ [SNext]_svars
    => AllReturned'
<1> SUFFICES ASSUME OwnInv, OwnInv', TallyInv, UserBlocksBack', AllReturned, [SNext]_svars
             PROVE  AllReturned'
  OBVIOUS
<1>1. CASE Command
  BY <1>1 DEF Command, AllReturned
<1>2. CASE Start
  BY <1>2 DEF Start, AllReturned
<1>3. ASSUME NEW t \in Workers, Work(t) PROVE AllReturned'
  <2>1. phase = "workers"
    BY <1>3 DEF Work, Malloc, MallocFails, MallocReturns, Publish, Free, Skip,
                CleanUp, FreeReturns, Release, Looping, OwnInv, WorkersInv
  <2>2. phase' = phase
    BY <1>3 DEF Work, Malloc, MallocFails, MallocReturns, Free, Skip, CleanUp,
                FreeOwn, FreeReturns
  <2> QED
    BY <2>1, <2>2 DEF AllReturned
<1>4. CASE Join
  BY <1>4, JoinReturns
<1>5. CASE UNCHANGED svars
  BY <1>5 DEF svars, vars, lists, AllReturned, Allocated, Freed
<1> QED
  BY <1>1, <1>2, <1>3, <1>4, <1>5
     DEF SNext, InitCommand, MallocCommand, FreeCommand, CommandReturns

\* When a benchmark has been joined the user's blocks are all there is, at their
\* old places, every slot but theirs is free, every slab without one is in its
\* cache's list of the empty ones, and the counts that the workers made agree with
\* those the caches made of allocations and of frees: for any number of workers
\* and of operations nothing leaks and nothing is counted twice.
THEOREM AllBlocksReturned == SSpec => []AllReturned
<1>1. SInit => AllReturned
  BY DEF SInit, AllReturned
<1>2. SSpec => []OwnInv
  <2>1. SSpec => []IInv
    BY StressCalls, Invariant, PTL
  <2> QED
    BY <2>1, OwnInit, OwnNext, PTL DEF SSpec
<1> QED
  BY <1>1, <1>2, TallyInit, TallyNext, ReturnedNext, UserBlocksReturned, PTL DEF SSpec
=============================================================================
