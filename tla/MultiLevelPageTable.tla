------------------------- MODULE MultiLevelPageTable -------------------------
(***************************************************************************)
(* The tree of src/MultiLevelPageTable.cpp under the steps of the MMU.     *)
(* VirtualMemory speaks of the entry of a page; here every entry is        *)
(* found by a walk from the root, an index of the page number at each      *)
(* level, and every walk, also one that only looks, makes the tables it    *)
(* does not find.                                                          *)
(*                                                                         *)
(* A table is named by the indices that lead to it, <<>> being pml4: new   *)
(* makes no two tables the same, and none is ever deleted.  The entries of *)
(* a last-level table that does not exist yet are as they will be made.    *)
(* Left out: the counts of walks and of their cost, and clear(), which     *)
(* nothing calls.                                                          *)
(***************************************************************************)
EXTENDS VirtualMemory, Sums

CONSTANT ML_LEVEL_BITS     \* bits of the index at each level, the root's first

PT_LEVELS == Len(ML_LEVEL_BITS)

\* The bits of the levels from the given one on.
BitsFrom(level) == Total([l \in level .. PT_LEVELS |-> ML_LEVEL_BITS[l]])

ASSUME TreeAssumption ==
  /\ ML_LEVEL_BITS \in Seq(Nat) /\ ML_LEVEL_BITS # <<>>
  /\ WalkLimit = 2 ^ BitsFrom(1)
  /\ Modes = {"multi"}      \* the flat table leaves the tree alone

VARIABLES
  tables,     \* the tables that exist
  leaves      \* the entries of the last level, by the indices on the way

tvars == <<vars, tables, leaves>>

\* Faulty: the level's own bits are shifted out with those below it.
extract_index_own(vpn, level) ==
  (vpn \div 2 ^ BitsFrom(level)) % 2 ^ ML_LEVEL_BITS[level]

extract_index(vpn, level) ==
  (vpn \div 2 ^ BitsFrom(level + 1)) % 2 ^ ML_LEVEL_BITS[level]

Path(vpn, levels) == [level \in 1 .. levels |-> extract_index(vpn, level)]

Leaf(vpn) == Path(vpn, PT_LEVELS)

LeafPaths == {Leaf(vpn) : vpn \in 0 .. WalkLimit - 1}

TInit ==
  /\ Init
  /\ tables = {<<>>}
  /\ leaves = [p \in LeafPaths |-> NoPage]

-----------------------------------------------------------------------------
(* walk, map and unmap                                                     *)

\* The step walks to each of the pages.
Walks(pages) ==
  tables' = tables \cup
    {Path(vpn, levels) : vpn \in {v \in pages : v < WalkLimit},
                         levels \in 1 .. PT_LEVELS - 1}

\* A page beyond the reach of the indices has no entry.
WithEntry(lv, vpn, entry) ==
  IF vpn < WalkLimit THEN [lv EXCEPT ![Leaf(vpn)] = entry] ELSE lv

\* translate() writes through the pointer that walk() returns.
Touch(vpn, write) ==
  leaves' = WithEntry(leaves, vpn,
    [leaves[Leaf(vpn)] EXCEPT !.last_access = access_counter',
                              !.referenced = TRUE, !.dirty = @ \/ write])

map(lv, vpn, frame, access_time, dirty) ==
  WithEntry(lv, vpn,
    [valid |-> TRUE, dirty |-> dirty, referenced |-> TRUE, frame |-> frame,
     last_access |-> access_time, load_time |-> access_time])

unmap(lv, vpn) ==
  WithEntry(lv, vpn, [lv[Leaf(vpn)] EXCEPT !.valid = FALSE, !.frame = -1,
                                          !.dirty = FALSE, !.referenced = FALSE])

-----------------------------------------------------------------------------
(* The steps of the MMU                                                    *)

Hit(t, v, write) ==
  /\ TranslateTLBHit(t, v, write) \/ TranslateTableHit(t, v, write)
  /\ Walks({v})
  /\ Touch(v, write)

FaultFree(t, v, write) ==
  /\ TranslateFaultFree(t, v, write)
  /\ Walks({v})
  /\ leaves' = map(leaves, v, Head(free_frames), access_counter', write)

Evict(v, write, f, lv) ==
  leaves' = map(unmap(lv, frame_table[f]), v, f, access_counter', write)

\* To find the oldest, the loop walks to the page of every frame.  The times and
\* bits it finds are those of page_table as long as LeavesMatch holds, so that
\* the victim is the one that VirtualMemory says.
FaultOldest(t, v, write) ==
  /\ TranslateFaultOldest(t, v, write)
  /\ Walks({v} \cup {frame_table[f] : f \in {f \in Frames : frame_table[f] >= 0}})
  /\ \E f \in Frames : Oldest(f) /\ Evict(v, write, f, leaves)

\* The hand walks to the pages it meets, and clears their reference bits until
\* it comes to the victim.
FaultClock(t, v, write) ==
  /\ TranslateFaultClock(t, v, write)
  /\ \E k \in 0 .. 2 * NumFrames - 1 :
       LET met == {frame_table[HandAt(j)] : j \in 0 .. k} IN
       /\ StopsAt(k)
       /\ \A j \in 0 .. k - 1 : ~StopsAt(j)
       /\ Walks({v} \cup {p \in met : p >= 0})
       /\ Evict(v, write, HandAt(k),
            [path \in LeafPaths |->
               IF \E j \in 0 .. k - 1 : LET p == frame_table[HandAt(j)] IN
                    p \in 0 .. WalkLimit - 1 /\ Leaf(p) = path
               THEN [leaves[path] EXCEPT !.referenced = FALSE]
               ELSE leaves[path]])

NoFrame(t, v, write) ==
  TranslateNoFrame(t, v, write) /\ Walks({v}) /\ UNCHANGED leaves

TNext ==
  \/ \E t \in Threads, v \in Vpns, write \in BOOLEAN :
       \/ Hit(t, v, write)
       \/ FaultFree(t, v, write)
       \/ FaultOldest(t, v, write)
       \/ FaultClock(t, v, write)
       \/ NoFrame(t, v, write)
  \/ /\ \/ \E t \in Threads : Request(t)
        \/ \E p \in Policies : SetReplacementPolicy(p)
     /\ UNCHANGED <<tables, leaves>>

TSpec == TInit /\ [][TNext]_tvars

-----------------------------------------------------------------------------

\* The tree holds for every page what VirtualMemory's table says of it, in an
\* entry of its own and in a table that was made, and no entry that belongs to
\* none of the pages is used: the indices tell any two pages apart, and a page
\* that is too wide for them has no entry instead of another one's.
LeavesMatch ==
  /\ \A v \in Vpns : v < WalkLimit => leaves[Leaf(v)] = page_table["multi"][v]
  /\ \A path \in LeafPaths :
       leaves[path].valid =>
         /\ \E v \in Vpns : v < WalkLimit /\ Leaf(v) = path
         /\ \A levels \in 0 .. PT_LEVELS - 1 : SubSeq(path, 1, levels) \in tables
=============================================================================
