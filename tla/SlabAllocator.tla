---------------------------- MODULE SlabAllocator ----------------------------
(***************************************************************************)
(* The slab allocator of src/SlabAllocator.h and .cpp, called by several   *)
(* threads at once.  Each object size has a cache with its own mutex,      *)
(* cache_lock here; pool_mutex and id_map_mutex are held only for a single *)
(* assignment or two, inside or outside of a cache's lock, so their        *)
(* critical sections are atomic.  That leaves two points where a call can  *)
(* be overtaken: an allocation has its slot but no id yet (the cache is    *)
(* locked), and a free has erased its id but not yet released the slot     *)
(* (nothing is locked).                                                    *)
(***************************************************************************)
EXTENDS StdList, FiniteSets

CONSTANTS
  Threads,
  CacheSizes,    \* CACHE_SIZES, in increasing order
  SlabSize,      \* SLAB_SIZE
  MemSizes,      \* the sizes init() is called with
  Requests,      \* the sizes allocate() is called with
  MaxId,         \* bound on next_id
  NoThread

Caches == DOMAIN CacheSizes

ASSUME SlabAssumption ==
  /\ CacheSizes \in Seq(Nat \ {0}) /\ CacheSizes # <<>>
  /\ \A c \in Caches : c > 1 => CacheSizes[c - 1] < CacheSizes[c]
  /\ SlabSize \in Nat
  /\ \A c \in Caches : CacheSizes[c] <= SlabSize
  /\ MemSizes \subseteq Nat /\ MaxId \in Nat
  /\ Requests \subseteq 1 .. CacheSizes[Len(CacheSizes)]
       \* allocate() changes nothing for another request
  /\ NoThread \notin Threads

VARIABLES
  slabs,                     \* the slabs that exist, by base address
  partial, full, empty,      \* the lists of each cache
  id_map,
  total_size, next_slab_address, next_id,
  total_allocations, total_frees,
  cache_lock,                \* who holds the mutex of each cache
  pc, job                    \* what each thread is doing, to which slot

lists == <<partial, full, empty>>
vars == <<slabs, partial, full, empty, id_map, total_size, next_slab_address,
          next_id, total_allocations, total_frees, cache_lock, pc, job>>

Nothing == [x \in {} |-> 0]
NoJob == [cache_index |-> 0, slab |-> 0, slot_index |-> 0]

NumSlots(c) == SlabSize \div CacheSizes[c]
Slots(c) == 0 .. NumSlots(c) - 1

Init ==
  /\ slabs = Nothing
  /\ partial = [c \in Caches |-> <<>>]
  /\ full = partial /\ empty = partial
  /\ id_map = Nothing
  /\ total_size = 0 /\ next_slab_address = 0 /\ next_id = 1
  /\ total_allocations = [c \in Caches |-> 0]
  /\ total_frees = total_allocations
  /\ cache_lock = [c \in Caches |-> NoThread]
  /\ pc = [t \in Threads |-> "idle"]
  /\ job = [t \in Threads |-> NoJob]

\* Faulty: the lists are not cleared.
InitMemoryKeepsLists(size) ==
  /\ \A t \in Threads : pc[t] = "idle"
  /\ slabs' = Nothing
  /\ id_map' = Nothing
  /\ total_size' = size /\ next_slab_address' = 0 /\ next_id' = 1
  /\ total_allocations' = [c \in Caches |-> 0]
  /\ total_frees' = total_allocations'
  /\ UNCHANGED <<lists, cache_lock, pc, job>>

\* init() takes the locks in another order than allocate(); the CLI calls it
\* only while no worker runs.
InitMemory(size) ==
  /\ \A t \in Threads : pc[t] = "idle"
  /\ slabs' = Nothing
  /\ partial' = [c \in Caches |-> <<>>]
  /\ full' = partial' /\ empty' = partial'
  /\ id_map' = Nothing
  /\ total_size' = size /\ next_slab_address' = 0 /\ next_id' = 1
  /\ total_allocations' = [c \in Caches |-> 0]
  /\ total_frees' = total_allocations'
  /\ UNCHANGED <<cache_lock, pc, job>>

-----------------------------------------------------------------------------
(* Slab                                                                    *)

IsFull(s) == s.num_used = NumSlots(s.cache)
IsEmpty(s) == s.num_used = 0

\* The slot alloc_slot takes: the first that the bitmap has free.
FirstFree(s, slot) ==
  /\ slot \in Slots(s.cache) \ s.bitmap
  /\ \A x \in Slots(s.cache) \ s.bitmap : slot <= x

WithSlot(s, slot) == [s EXCEPT !.bitmap = @ \cup {slot}, !.num_used = @ + 1]

\* free_slot does nothing to a slot that is free already.
WithoutSlot(s, slot) ==
  IF slot \in s.bitmap
  THEN [s EXCEPT !.bitmap = @ \ {slot}, !.num_used = @ - 1]
  ELSE s

NewSlab(c) == [cache |-> c, bitmap |-> {}, num_used |-> 0]

-----------------------------------------------------------------------------
(* allocate                                                                *)

\* find_cache_index
CacheFor(size, c) ==
  /\ CacheSizes[c] >= size
  /\ \A d \in Caches : d < c => CacheSizes[d] < size

\* Thread t calls allocate for cache c and takes its lock.
Enter(t, c) ==
  /\ pc[t] = "idle"
  /\ cache_lock[c] = NoThread
  /\ next_id <= MaxId
  /\ cache_lock' = [cache_lock EXCEPT ![c] = t]
  /\ pc' = [pc EXCEPT ![t] = "publish"]

\* It takes the first free slot of slab s, whose state was old.
TakeSlot(t, c, s, old) ==
  \E slot \in Slots(c) :
    /\ FirstFree(old, slot)
    /\ slabs' = [x \in DOMAIN slabs \cup {s} |->
                   IF x = s THEN WithSlot(old, slot) ELSE slabs[x]]
    /\ job' = [job EXCEPT
                 ![t] = [cache_index |-> c, slab |-> s, slot_index |-> slot]]

\* Faulty: a slab that becomes full stays in the list it was taken from.
AllocatePartialStays(t, c) ==
  /\ Enter(t, c)
  /\ partial[c] # <<>>
  /\ LET s == Head(partial[c]) IN TakeSlot(t, c, s, slabs[s])
  /\ UNCHANGED <<lists, id_map, total_size, next_slab_address, next_id,
                 total_allocations, total_frees>>

AllocatePartial(t, c) ==
  /\ Enter(t, c)
  /\ partial[c] # <<>>
  /\ LET s == Head(partial[c]) IN
       /\ TakeSlot(t, c, s, slabs[s])
       /\ IF IsFull(slabs'[s])
          THEN /\ partial' = [partial EXCEPT ![c] = Tail(@)]
               /\ full' = [full EXCEPT ![c] = Append(@, s)]
          ELSE UNCHANGED <<partial, full>>
  /\ UNCHANGED <<empty, id_map, total_size, next_slab_address, next_id,
                 total_allocations, total_frees>>

\* A slab that was in no list, or in the empty one, goes where it belongs.
Enlist(c, s) ==
  IF IsFull(slabs'[s])
  THEN full' = [full EXCEPT ![c] = Append(@, s)] /\ UNCHANGED partial
  ELSE partial' = [partial EXCEPT ![c] = Append(@, s)] /\ UNCHANGED full

AllocateEmpty(t, c) ==
  /\ Enter(t, c)
  /\ partial[c] = <<>>
  /\ empty[c] # <<>>
  /\ LET s == Head(empty[c]) IN
       TakeSlot(t, c, s, slabs[s]) /\ Enlist(c, s)
  /\ empty' = [empty EXCEPT ![c] = Tail(@)]
  /\ UNCHANGED <<id_map, total_size, next_slab_address, next_id,
                 total_allocations, total_frees>>

\* Faulty: only the slab's first byte is looked for.
PoolHasByte == next_slab_address < total_size

PoolHasSlab == next_slab_address + SlabSize <= total_size

\* create_slab, under pool_mutex.
AllocateNew(t, c) ==
  /\ Enter(t, c)
  /\ partial[c] = <<>>
  /\ empty[c] = <<>>
  /\ PoolHasSlab
  /\ TakeSlot(t, c, next_slab_address, NewSlab(c))
  /\ Enlist(c, next_slab_address)
  /\ next_slab_address' = next_slab_address + SlabSize
  /\ UNCHANGED <<empty, id_map, total_size, next_id, total_allocations,
                 total_frees>>

\* The pool has no room for a slab: nothing changes.
AllocateFails(t, c) ==
  /\ pc[t] = "idle"
  /\ cache_lock[c] = NoThread
  /\ partial[c] = <<>> /\ empty[c] = <<>>
  /\ ~PoolHasSlab
  /\ UNCHANGED vars

Reserve(t, c) ==
  AllocatePartial(t, c) \/ AllocateEmpty(t, c) \/ AllocateNew(t, c)

\* Faulty: the id is read and the counter advanced as if nobody else did.
PublishKeepsId(t) ==
  /\ pc[t] = "publish"
  /\ id_map' = [i \in DOMAIN id_map \cup {next_id} |->
                  IF i = next_id THEN job[t] ELSE id_map[i]]
  /\ next_id' = IF \E u \in Threads \ {t} : pc[u] = "publish"
                THEN next_id ELSE next_id + 1
  /\ total_allocations' = [total_allocations EXCEPT ![job[t].cache_index] = @ + 1]
  /\ cache_lock' = [cache_lock EXCEPT ![job[t].cache_index] = NoThread]
  /\ pc' = [pc EXCEPT ![t] = "idle"]
  /\ job' = [job EXCEPT ![t] = NoJob]
  /\ UNCHANGED <<slabs, lists, total_size, next_slab_address, total_frees>>

\* Faulty: the cache stays locked.
PublishKeepsLock(t) ==
  LET c == job[t].cache_index IN
  /\ pc[t] = "publish"
  /\ id_map' = [i \in DOMAIN id_map \cup {next_id} |->
                  IF i = next_id THEN job[t] ELSE id_map[i]]
  /\ next_id' = next_id + 1
  /\ total_allocations' = [total_allocations EXCEPT ![c] = @ + 1]
  /\ pc' = [pc EXCEPT ![t] = "idle"]
  /\ job' = [job EXCEPT ![t] = NoJob]
  /\ UNCHANGED <<slabs, lists, total_size, next_slab_address, total_frees,
                 cache_lock>>

\* The id goes into the map under id_map_mutex; then the call returns, which
\* unlocks the cache.
Publish(t) ==
  LET c == job[t].cache_index IN
  /\ pc[t] = "publish"
  /\ id_map' = [i \in DOMAIN id_map \cup {next_id} |->
                  IF i = next_id THEN job[t] ELSE id_map[i]]
  /\ next_id' = next_id + 1
  /\ total_allocations' = [total_allocations EXCEPT ![c] = @ + 1]
  /\ cache_lock' = [cache_lock EXCEPT ![c] = NoThread]
  /\ pc' = [pc EXCEPT ![t] = "idle"]
  /\ job' = [job EXCEPT ![t] = NoJob]
  /\ UNCHANGED <<slabs, lists, total_size, next_slab_address, total_frees>>

-----------------------------------------------------------------------------
(* deallocate                                                              *)

\* Faulty: the record is copied but its id stays in the map.
EraseNothing(t, id) ==
  /\ pc[t] = "idle"
  /\ id \in DOMAIN id_map
  /\ job' = [job EXCEPT ![t] = id_map[id]]
  /\ pc' = [pc EXCEPT ![t] = "free"]
  /\ UNCHANGED <<slabs, lists, id_map, total_size, next_slab_address, next_id,
                 total_allocations, total_frees, cache_lock>>

\* The id is looked up and erased under id_map_mutex; an unknown one is ignored.
Erase(t, id) ==
  /\ pc[t] = "idle"
  /\ id \in DOMAIN id_map
  /\ job' = [job EXCEPT ![t] = id_map[id]]
  /\ id_map' = [i \in DOMAIN id_map \ {id} |-> id_map[i]]
  /\ pc' = [pc EXCEPT ![t] = "free"]
  /\ UNCHANGED <<slabs, lists, total_size, next_slab_address, next_id,
                 total_allocations, total_frees, cache_lock>>

\* Faulty: a slab that was full goes to the partial list even when it is
\* empty now.
RelistPartial(c, s) ==
  IF IsFull(slabs[s])
  THEN /\ full' = [full EXCEPT ![c] = Without(@, s)]
       /\ partial' = [partial EXCEPT ![c] = Append(@, s)]
       /\ UNCHANGED empty
  ELSE UNCHANGED lists

\* Where slab s of cache c goes after a slot of it was freed.
Relist(c, s) ==
  IF IsFull(slabs[s])
  THEN /\ full' = [full EXCEPT ![c] = Without(@, s)]
       /\ IF IsEmpty(slabs'[s])
          THEN empty' = [empty EXCEPT ![c] = Append(@, s)] /\ UNCHANGED partial
          ELSE partial' = [partial EXCEPT ![c] = Append(@, s)] /\ UNCHANGED empty
  ELSE IF IsEmpty(slabs'[s])
  THEN /\ partial' = [partial EXCEPT ![c] = Without(@, s)]
       /\ empty' = [empty EXCEPT ![c] = Append(@, s)]
       /\ UNCHANGED full
  ELSE UNCHANGED lists

\* The cache's lock is taken, the slot released and the lock given back.
Release(t) ==
  LET c == job[t].cache_index
      s == job[t].slab
  IN  /\ pc[t] = "free"
      /\ cache_lock[c] = NoThread
      /\ slabs' = [slabs EXCEPT ![s] = WithoutSlot(@, job[t].slot_index)]
      /\ Relist(c, s)
      /\ total_frees' = [total_frees EXCEPT ![c] = @ + 1]
      /\ pc' = [pc EXCEPT ![t] = "idle"]
      /\ job' = [job EXCEPT ![t] = NoJob]
      /\ UNCHANGED <<id_map, total_size, next_slab_address, next_id,
                     total_allocations, cache_lock>>

Next ==
  \/ \E size \in MemSizes : InitMemory(size)
  \/ \E t \in Threads :
       \/ \E size \in Requests, c \in Caches :
            CacheFor(size, c) /\ (Reserve(t, c) \/ AllocateFails(t, c))
       \/ Publish(t)
       \/ \E id \in DOMAIN id_map : Erase(t, id)
       \/ Release(t)

Spec == Init /\ [][Next]_vars

-----------------------------------------------------------------------------

Records == [cache_index : Caches, slab : Nat, slot_index : Nat]

\* Every variable has its type.
TypeOK ==
  /\ DOMAIN slabs \subseteq Nat
  /\ \A s \in DOMAIN slabs :
       /\ slabs[s].cache \in Caches
       /\ slabs[s].bitmap \subseteq Slots(slabs[s].cache)
       /\ slabs[s].num_used \in Nat
  /\ \A c \in Caches :
       {partial[c], full[c], empty[c]} \subseteq Seq(DOMAIN slabs)
  /\ \A i \in DOMAIN id_map : i \in Nat /\ id_map[i] \in Records
  /\ {total_size, next_slab_address, next_id} \subseteq Nat
  /\ total_allocations \in [Caches -> Nat] /\ total_frees \in [Caches -> Nat]
  /\ cache_lock \in [Caches -> Threads \cup {NoThread}]
  /\ pc \in [Threads -> {"idle", "publish", "free"}]
  /\ \A t \in Threads : job[t] \in Records \cup {NoJob}

\* Each slab is in one list of its own cache, once: the one that its number of
\* used slots, which agrees with its bitmap, calls for.  So no free slot is
\* ever out of reach and front() never meets a full slab.
ListsMatchSlots ==
  \A c \in Caches :
    LET mine == {s \in DOMAIN slabs : slabs[s].cache = c} IN
    /\ In(full[c]) = {s \in mine : IsFull(slabs[s])}
    /\ In(empty[c]) = {s \in mine : IsEmpty(slabs[s])}
    /\ In(partial[c]) = mine \ (In(full[c]) \cup In(empty[c]))
    /\ NoRepeats(full[c]) /\ NoRepeats(empty[c]) /\ NoRepeats(partial[c])
    /\ \A s \in mine : slabs[s].num_used = Cardinality(slabs[s].bitmap)

Busy == {t \in Threads : pc[t] # "idle"}

\* Each used slot has exactly one owner, a live id or a call under way, and
\* whoever owns a slot owns a used one: a slot is never given out while a free
\* that has erased its id is still to come, and is never lost.
SlotsAccounted ==
  \A s \in DOMAIN slabs, slot \in 0 .. SlabSize :
    LET Owns(r) == r.slab = s /\ r.slot_index = slot IN
    Cardinality({i \in DOMAIN id_map : Owns(id_map[i])})
    + Cardinality({t \in Busy : Owns(job[t])})
      = IF slot \in slabs[s].bitmap THEN 1 ELSE 0

\* The allocator seen as any allocator: an allocation is made when its id is
\* published, a free when it is erased.
Promise == INSTANCE AllocatorSpec WITH
  live     <- [i \in DOMAIN id_map |->
                 LET r == id_map[i] IN
                 [addr |-> r.slab + r.slot_index * CacheSizes[r.cache_index],
                  size |-> CacheSizes[r.cache_index]]],
  given    <- 1 .. next_id - 1,
  capacity <- total_size

\* What an allocation gives out is as large as was asked for: it takes a slot of
\* such a size, and later that slot, whatever other calls did since, becomes
\* the new id's.
LargeEnough ==
  [][\A t \in Threads :
       /\ \A size \in Requests, c \in Caches :
            CacheFor(size, c) /\ Reserve(t, c) =>
              CacheSizes[slabs'[job'[t].slab].cache] >= size
       /\ Publish(t) =>
            \E i \in DOMAIN id_map' \ DOMAIN id_map :
              /\ id_map'[i] = job[t]
              /\ slabs'[job[t].slab].cache = job[t].cache_index]_vars

\* The allocator does what every allocator promises, to all its callers and
\* however they interleave: an allocation gets a new id and memory of its own,
\* as much as was asked for, and a free ends its own block.
KeepsPromise == Promise!Spec /\ LargeEnough
=============================================================================
