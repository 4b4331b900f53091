--------------------------- MODULE BuddyAllocator ---------------------------
(***************************************************************************)
(* The buddy allocator of src/BuddyAllocator.cpp: blocks of 2^k pages at   *)
(* multiples of 2^k, a list of free blocks per order k, a map from pages   *)
(* to the free blocks that start there, splitting on allocation and        *)
(* merging with the buddy, as long as it is free, when freed.              *)
(*                                                                         *)
(* Addresses and sizes are in pages: the code's are multiples of PAGE_SIZE *)
(* throughout.  A list is the sequence of the addresses in it; a free      *)
(* block's size is what free_map has for its page, 0 where it has no block. *)
(* Each method holds alloc_mutex throughout and is one action.             *)
(***************************************************************************)
EXTENDS StdList, FiniteSets

CONSTANTS
  PageSize,
  MemSizes,      \* the sizes in bytes init() is called with
  Requests,      \* the sizes in bytes allocate() is called with
  MaxOrder,      \* bound: no memory has more than 2^MaxOrder pages
  MaxId          \* bound on next_id

VARIABLES
  free_lists,    \* by order, 0 .. max_order; no order before init()
  free_map,
  allocated,     \* the [address, size] of each live id
  total_pages, next_id

vars == <<free_lists, free_map, allocated, total_pages, next_id>>

Nothing == [x \in {} |-> 0]

\* round_to_buddy_size, in pages: the least power of two that holds so many
\* bytes; one page for no bytes.
Rounded(bytes) ==
  LET pages == (bytes + PageSize - 1) \div PageSize
  IN  CHOOSE p \in {2 ^ k : k \in 0 .. MaxOrder} :
        /\ pages <= p
        /\ \A k \in 0 .. MaxOrder : pages <= 2 ^ k => p <= 2 ^ k

ASSUME BuddyAssumption ==
  /\ PageSize \in Nat \ {0} /\ MaxOrder \in Nat /\ MaxId \in Nat
  /\ MemSizes \subseteq Nat
  /\ Requests \subseteq Nat \ {0}     \* a request for 0 bytes changes nothing
  /\ \A bytes \in MemSizes \cup Requests : bytes <= PageSize * 2 ^ MaxOrder

OrderOf(pages) == CHOOSE k \in 0 .. MaxOrder : 2 ^ k = pages

Orders == DOMAIN free_lists

Init ==
  /\ free_lists = Nothing
  /\ free_map = Nothing
  /\ allocated = Nothing
  /\ total_pages = 0
  /\ next_id = 1

\* Faulty: the blocks given out stay in the map.
InitMemoryKeepsIds(bytes) ==
  LET pages == Rounded(bytes) IN
  /\ total_pages' = pages
  /\ free_lists' = [k \in 0 .. OrderOf(pages) |->
                      IF k = OrderOf(pages) THEN <<0>> ELSE <<>>]
  /\ free_map' = [p \in 0 .. pages - 1 |-> IF p = 0 THEN pages ELSE 0]
  /\ next_id' = 1
  /\ UNCHANGED allocated

InitMemory(bytes) ==
  LET pages == Rounded(bytes) IN
  /\ total_pages' = pages
  /\ free_lists' = [k \in 0 .. OrderOf(pages) |->
                      IF k = OrderOf(pages) THEN <<0>> ELSE <<>>]
  /\ free_map' = [p \in 0 .. pages - 1 |-> IF p = 0 THEN pages ELSE 0]
  /\ allocated' = Nothing
  /\ next_id' = 1

\* Faulty: the lower orders get the lower halves.
SplitDownLow(blk, from, to) ==
  [k \in Orders |-> IF k = from THEN Tail(free_lists[k])
                    ELSE IF k \in to .. from - 1
                    THEN <<blk>> \o free_lists[k]
                    ELSE free_lists[k]]

\* Block blk, the head of list from, is taken and halved down to order to: the
\* upper halves go to the front of the lists below.
SplitDown(blk, from, to) ==
  [k \in Orders |-> IF k = from THEN Tail(free_lists[k])
                    ELSE IF k \in to .. from - 1
                    THEN <<blk + 2 ^ k>> \o free_lists[k]
                    ELSE free_lists[k]]

Allocate(bytes) ==
  LET pages == Rounded(bytes)
      order == OrderOf(pages)
  IN  /\ pages <= total_pages
      /\ next_id <= MaxId
      /\ \E from \in Orders :
           /\ order <= from
           /\ free_lists[from] # <<>>
           /\ \A k \in order .. from - 1 : free_lists[k] = <<>>
           /\ LET blk == Head(free_lists[from]) IN
                /\ free_lists' = SplitDown(blk, from, order)
                /\ free_map' = [p \in DOMAIN free_map |->
                     IF p = blk THEN 0
                     ELSE IF \E k \in order .. from - 1 : p = blk + 2 ^ k
                     THEN p - blk
                     ELSE free_map[p]]
                /\ allocated' = [i \in DOMAIN allocated \cup {next_id} |->
                     IF i = next_id THEN [address |-> blk, size |-> pages]
                                    ELSE allocated[i]]
      /\ next_id' = next_id + 1
      /\ UNCHANGED total_pages

-----------------------------------------------------------------------------
(* deallocate: where the merging ends                                      *)

\* The block of order k that page a is in, and the buddy of such a block:
\* addr ^ size.
Base(a, k) == a - (a % (2 ^ k))
Buddy(a, k) == IF (a \div 2 ^ k) % 2 = 0 THEN a + 2 ^ k ELSE a - 2 ^ k

BuddyAt(a, k) == Buddy(Base(a, k), k)

\* Faulty: the buddy's size is not compared.
MergesAnySize(a, k) == free_map[BuddyAt(a, k)] # 0

\* At order k the merged block has a free buddy of its size.
Merges(a, k) == free_map[BuddyAt(a, k)] = 2 ^ k

\* Faulty: merging stops one order below the top.
FinalOrderLow(a, order, top) ==
  /\ \A k \in order .. top - 1 : Merges(a, k)
  /\ 2 ^ (top + 1) < total_pages => ~Merges(a, top)

\* Freed at the given order, the block of page a is merged up to order top.
FinalOrder(a, order, top) ==
  /\ \A k \in order .. top - 1 : Merges(a, k)
  /\ 2 ^ top < total_pages => ~Merges(a, top)

\* Faulty: the merged buddies stay in their lists.
UnlinkedNothing(a, order, top) == free_lists

Unlinked(a, order, top) ==
  [k \in Orders |-> IF k \in order .. top - 1
                    THEN Without(free_lists[k], BuddyAt(a, k))
                    ELSE free_lists[k]]

Deallocate(id) ==
  /\ id \in DOMAIN allocated
  /\ LET a     == allocated[id].address
         order == OrderOf(allocated[id].size)
     IN  \E top \in order .. OrderOf(total_pages) :
           /\ FinalOrder(a, order, top)
           /\ free_lists' = [Unlinked(a, order, top) EXCEPT
                               ![top] = <<Base(a, top)>> \o @]
           /\ free_map' = [p \in DOMAIN free_map |->
                IF p = Base(a, top) THEN 2 ^ top
                ELSE IF \E k \in order .. top - 1 : p = BuddyAt(a, k) THEN 0
                ELSE free_map[p]]
  /\ allocated' = [i \in DOMAIN allocated \ {id} |-> allocated[i]]
  /\ UNCHANGED <<total_pages, next_id>>

Next ==
  \/ \E bytes \in MemSizes : InitMemory(bytes)
  \/ \E bytes \in Requests : Allocate(bytes)
  \/ \E id \in DOMAIN allocated : Deallocate(id)

Spec == Init /\ [][Next]_vars

-----------------------------------------------------------------------------

Pages == 0 .. total_pages - 1

FreeBlocks == {p \in Pages : free_map[p] # 0}

Span(a, size) == a .. a + size - 1

\* Every variable has its type.
TypeOK ==
  /\ total_pages \in Nat /\ next_id \in Nat
  /\ Orders = IF total_pages = 0 THEN {} ELSE 0 .. OrderOf(total_pages)
  /\ \A k \in Orders : free_lists[k] \in Seq(Pages)
  /\ free_map \in [Pages -> {0} \cup {2 ^ k : k \in Orders}]
  /\ \A i \in DOMAIN allocated :
       allocated[i] \in [address : Pages, size : {2 ^ k : k \in Orders}]

\* Each page is in exactly one block, free or allocated, and each block lies
\* at a multiple of its size: what splitting and merging must keep.
PagesPartitioned ==
  /\ \A p \in Pages :
       Cardinality({b \in FreeBlocks : p \in Span(b, free_map[b])})
       + Cardinality({i \in DOMAIN allocated :
                        p \in Span(allocated[i].address, allocated[i].size)}) = 1
  /\ \A b \in FreeBlocks : b % free_map[b] = 0
  /\ \A i \in DOMAIN allocated : allocated[i].address % allocated[i].size = 0

\* The two ways to a free block agree: list k has, once each, the pages that
\* free_map gives blocks of order k.
ListsMatchMap ==
  \A k \in Orders :
    /\ NoRepeats(free_lists[k])
    /\ In(free_lists[k]) = {b \in FreeBlocks : free_map[b] = 2 ^ k}

\* Merging goes as far as it can: no block and its buddy are both free.
NoFreeBuddies ==
  \A b \in FreeBlocks : free_map[b] < total_pages =>
    free_map[Buddy(b, OrderOf(free_map[b]))] # free_map[b]

\* The allocator seen as any allocator, with pages for bytes.
Promise == INSTANCE AllocatorSpec WITH
  live     <- [i \in DOMAIN allocated |->
                 [addr |-> allocated[i].address, size |-> allocated[i].size]],
  given    <- 1 .. next_id - 1,
  capacity <- total_pages

\* What an allocation gives out has as many bytes as were asked for, whatever
\* is made of them on the way to pages and powers of two.
LargeEnough ==
  [][\A bytes \in Requests : Allocate(bytes) =>
       \E i \in DOMAIN allocated' \ DOMAIN allocated :
         PageSize * allocated'[i].size >= bytes]_vars

\* The allocator does what every allocator promises: an allocation gets a new id
\* and pages of its own, as many as were asked for or more, and a free, however
\* far it merges, ends its own block.
KeepsPromise == Promise!Spec /\ LargeEnough
=============================================================================
