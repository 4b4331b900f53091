--------------------------- MODULE LinearAllocator ---------------------------
(***************************************************************************)
(* The linear allocator of src/MemoryAllocator.cpp: a doubly linked list   *)
(* of blocks that tile the memory, split on allocation, coalesced with     *)
(* both neighbours when freed, and a map from ids to blocks.               *)
(*                                                                         *)
(* A block never moves and no two have one address, so a block is named    *)
(* by its start address, and so are the pointers to it: a pointer to a     *)
(* deleted block is an address that is not in DOMAIN blocks any more.      *)
(* Each method holds alloc_mutex throughout and is one action.             *)
(***************************************************************************)
EXTENDS Integers, FiniteSets

CONSTANTS
  MemSizes,      \* the sizes init() is called with
  Requests,      \* the sizes allocate() is called with
  Algos,         \* the strategies it is called with
  MaxAttempts    \* bound on total_alloc_attempts, and so on next_Id

ASSUME LinearAssumption ==
  /\ MemSizes \subseteq Nat
  /\ Requests \subseteq Nat \ {0}     \* a request for 0 bytes changes nothing
  /\ Algos \subseteq {"Firstfit", "Bestfit", "Worstfit"}
  /\ MaxAttempts \in Nat

VARIABLES
  blocks,        \* the blocks that exist, by start address
  head, next_Id,
  id_map,        \* the block of each live id
  total_size, total_alloc_attempts, successful_allocations

vars == <<blocks, head, next_Id, id_map, total_size, total_alloc_attempts,
          successful_allocations>>

Null == -1

Block == [mem_size : Nat, req_size : Nat, is_free : BOOLEAN, Id : Nat,
          next : Nat \cup {Null}, prev : Nat \cup {Null}]

FreeBlock(size, next, prev) ==
  [mem_size |-> size, req_size |-> 0, is_free |-> TRUE, Id |-> 0,
   next |-> next, prev |-> prev]

Nothing == [x \in {} |-> 0]

\* The constructor; the CLI calls init() before anything else.
Init ==
  /\ blocks = Nothing /\ head = Null
  /\ next_Id = 1 /\ id_map = Nothing
  /\ total_size = 0
  /\ total_alloc_attempts = 0 /\ successful_allocations = 0

\* init(size): the old list goes; with no memory nothing else is reset.
InitMemory(size) ==
  /\ id_map' = Nothing
  /\ IF size = 0
     THEN /\ blocks' = Nothing /\ head' = Null
          /\ UNCHANGED <<next_Id, total_size, total_alloc_attempts,
                         successful_allocations>>
     ELSE /\ blocks' = [a \in {0} |-> FreeBlock(size, Null, Null)]
          /\ head' = 0
          /\ total_size' = size
          /\ next_Id' = 1
          /\ total_alloc_attempts' = 0 /\ successful_allocations' = 0

-----------------------------------------------------------------------------
(* allocate                                                                *)

Fits(a, size) == blocks[a].is_free /\ blocks[a].mem_size >= size

\* The block the loop ends with.  The loop goes from head along next, here all
\* blocks are compared: the same while next goes through all of them by their
\* addresses (Tiled).  A later block replaces the one found only if it is better.
Chosen(a, size, algo) ==
  LET before(b) ==
        CASE algo = "Firstfit" -> a <= b
          [] algo = "Bestfit"  -> \/ blocks[a].mem_size < blocks[b].mem_size
                                  \/ blocks[a].mem_size = blocks[b].mem_size /\ a <= b
          [] algo = "Worstfit" -> \/ blocks[a].mem_size > blocks[b].mem_size
                                  \/ blocks[a].mem_size = blocks[b].mem_size /\ a <= b
  IN  Fits(a, size) /\ \A b \in DOMAIN blocks : Fits(b, size) => before(b)

\* Faulty: the block in front keeps its size.
SplitKeepsSize(a, size) ==
  LET rest == a + size IN
  IF blocks[a].mem_size > size
  THEN [x \in DOMAIN blocks \cup {rest} |->
          IF x = a THEN [blocks[a] EXCEPT !.next = rest]
          ELSE IF x = rest
            THEN FreeBlock(blocks[a].mem_size - size, blocks[a].next, a)
          ELSE IF x = blocks[a].next THEN [blocks[x] EXCEPT !.prev = rest]
          ELSE blocks[x]]
  ELSE blocks

\* The list with what block a has over the size split off behind it.
Split(a, size) ==
  LET rest  == a + size
      after == blocks[a].next
  IN  IF blocks[a].mem_size > size
      THEN [x \in DOMAIN blocks \cup {rest} |->
              IF x = a THEN [blocks[a] EXCEPT !.mem_size = size, !.next = rest]
              ELSE IF x = rest
                THEN FreeBlock(blocks[a].mem_size - size, after, a)
              ELSE IF x = after THEN [blocks[x] EXCEPT !.prev = rest]
              ELSE blocks[x]]
      ELSE blocks

Allocate(size, algo) ==
  /\ \E a \in DOMAIN blocks :
       /\ Chosen(a, size, algo)
       /\ blocks' = [Split(a, size) EXCEPT
                       ![a] = [@ EXCEPT !.is_free = FALSE, !.Id = next_Id,
                                        !.req_size = size]]
       /\ id_map' = [i \in DOMAIN id_map \cup {next_Id} |->
                       IF i = next_Id THEN a ELSE id_map[i]]
  /\ next_Id' = next_Id + 1
  /\ total_alloc_attempts < MaxAttempts
  /\ total_alloc_attempts' = total_alloc_attempts + 1
  /\ successful_allocations' = successful_allocations + 1
  /\ UNCHANGED <<head, total_size>>

\* No block fits: only the attempt is counted.
AllocateFails(size) ==
  /\ \A a \in DOMAIN blocks : ~Fits(a, size)
  /\ total_alloc_attempts < MaxAttempts
  /\ total_alloc_attempts' = total_alloc_attempts + 1
  /\ UNCHANGED <<blocks, head, next_Id, id_map, total_size,
                 successful_allocations>>

-----------------------------------------------------------------------------
(* deallocate                                                              *)

\* Faulty: the block behind still points back to the absorbed one.
AbsorbUnlinked(bs, a) ==
  LET n == bs[a].next IN
  [x \in DOMAIN bs \ {n} |->
     IF x = a THEN [bs[a] EXCEPT !.mem_size = @ + bs[n].mem_size,
                                 !.next = bs[n].next]
     ELSE bs[x]]

\* Block a takes in the block behind it.
Absorb(bs, a) ==
  LET n == bs[a].next IN
  [x \in DOMAIN bs \ {n} |->
     IF x = a THEN [bs[a] EXCEPT !.mem_size = @ + bs[n].mem_size,
                                 !.next = bs[n].next]
     ELSE IF x = bs[n].next THEN [bs[x] EXCEPT !.prev = a]
     ELSE bs[x]]

FreeAt(bs, a) == a # Null /\ bs[a].is_free

\* Faulty: only the block behind is coalesced.
CoalescedBehind(bs, a) ==
  IF FreeAt(bs, bs[a].next) THEN Absorb(bs, a) ELSE bs

Coalesced(bs, a) ==
  LET behind == IF FreeAt(bs, bs[a].next) THEN Absorb(bs, a) ELSE bs
  IN  IF FreeAt(behind, behind[a].prev) THEN Absorb(behind, behind[a].prev)
                                        ELSE behind

\* Faulty: the id is kept in the map.
DeallocateKeepsId(id) ==
  /\ id \in DOMAIN id_map
  /\ LET a == id_map[id] IN
       blocks' = Coalesced([blocks EXCEPT
         ![a] = [@ EXCEPT !.is_free = TRUE, !.Id = 0, !.req_size = 0]], a)
  /\ UNCHANGED <<head, next_Id, id_map, total_size, total_alloc_attempts,
                 successful_allocations>>

\* An id that is not in the map is ignored.
Deallocate(id) ==
  /\ id \in DOMAIN id_map
  /\ LET a == id_map[id] IN
       blocks' = Coalesced([blocks EXCEPT
         ![a] = [@ EXCEPT !.is_free = TRUE, !.Id = 0, !.req_size = 0]], a)
  /\ id_map' = [i \in DOMAIN id_map \ {id} |-> id_map[i]]
  /\ UNCHANGED <<head, next_Id, total_size, total_alloc_attempts,
                 successful_allocations>>

Next ==
  \/ \E size \in MemSizes : InitMemory(size)
  \/ \E size \in Requests, algo \in Algos : Allocate(size, algo)
  \/ \E size \in Requests : AllocateFails(size)
  \/ \E id \in DOMAIN id_map : Deallocate(id)

Spec == Init /\ [][Next]_vars

-----------------------------------------------------------------------------

\* Every variable has its type.
TypeOK ==
  /\ DOMAIN blocks \subseteq Nat
  /\ \A a \in DOMAIN blocks : blocks[a] \in Block
  /\ head \in Nat \cup {Null}
  /\ DOMAIN id_map \subseteq Nat \ {0}
  /\ \A i \in DOMAIN id_map : id_map[i] \in DOMAIN blocks
  /\ {next_Id, total_size, total_alloc_attempts, successful_allocations} \subseteq Nat

\* The list goes through the memory from its first to its last byte, forwards
\* and backwards: each block starts where the one before it ends, none is
\* empty, and nothing is outside the list.  Splitting and coalescing, which
\* move four links by hand, must keep it so.
Tiled ==
  /\ head = Null <=> DOMAIN blocks = {}
  /\ head # Null => head = 0 /\ 0 \in DOMAIN blocks /\ blocks[0].prev = Null
  /\ \A a \in DOMAIN blocks :
       LET end == a + blocks[a].mem_size IN
       /\ blocks[a].mem_size > 0
       /\ end <= total_size
       /\ end = total_size => blocks[a].next = Null
       /\ end < total_size => /\ blocks[a].next = end
                              /\ end \in DOMAIN blocks
                              /\ blocks[end].prev = a
       /\ a > 0 => /\ blocks[a].prev \in DOMAIN blocks
                   /\ blocks[blocks[a].prev].next = a
       /\ \A b \in DOMAIN blocks : a < b => end <= b

\* deallocate() leaves no two free neighbours.
NoAdjacentFree ==
  \A a \in DOMAIN blocks :
    blocks[a].is_free /\ blocks[a].next # Null
      => ~blocks[blocks[a].next].is_free

\* The map leads from each live id to the block that carries it, a block in
\* use is in the map, and a free one carries nothing of its last use.
IdMapExact ==
  /\ \A i \in DOMAIN id_map :
       /\ id_map[i] \in DOMAIN blocks
       /\ ~blocks[id_map[i]].is_free
       /\ blocks[id_map[i]].Id = i
       /\ i < next_Id
  /\ \A a \in DOMAIN blocks :
       IF blocks[a].is_free
       THEN blocks[a].Id = 0 /\ blocks[a].req_size = 0
       ELSE /\ blocks[a].Id \in DOMAIN id_map
            /\ id_map[blocks[a].Id] = a
            /\ blocks[a].req_size = blocks[a].mem_size

\* The allocator seen as any allocator: its live blocks are the used ones.
Promise == INSTANCE AllocatorSpec WITH
  live     <- [i \in DOMAIN id_map |->
                 [addr |-> id_map[i], size |-> blocks[id_map[i]].mem_size]],
  given    <- 1 .. next_Id - 1,
  capacity <- total_size

\* What an allocation gives out is as large as was asked for.
LargeEnough ==
  [][\A size \in Requests, algo \in Algos : Allocate(size, algo) =>
       \E i \in DOMAIN id_map' \ DOMAIN id_map :
         blocks'[id_map'[i]].mem_size >= size]_vars

\* The allocator does what every allocator promises: an allocation gets a new id
\* and memory of its own, as much as was asked for, a free ends its own block.
KeepsPromise == Promise!Spec /\ LargeEnough
=============================================================================
