---------------------------- MODULE VirtualMemory ----------------------------
(***************************************************************************)
(* The memory management unit of src/VirtualMemory.cpp: a set-associative  *)
(* TLB in front of a page table (flat, or the leaves of the 4-level one),  *)
(* a list of free frames, and a frame table used to choose and to unmap a  *)
(* victim when no frame is free.                                           *)
(*                                                                         *)
(* Addresses appear only as page numbers: nothing translate() decides      *)
(* depends on the offset in the page.  translate() holds page_table_mutex  *)
(* from its first line to its return and is the only caller of the TLB, so *)
(* one call is one action, with one action for each of its ways out.  What *)
(* the caller does with the result, MemoryHierarchy::request, happens      *)
(* after the mutex is released and is an action of its own: in between,    *)
(* the translation is only in the caller's hands (inflight).               *)
(***************************************************************************)
EXTENDS Integers, Sequences, FiniteSets

CONSTANTS
  Threads,      \* callers of translate: the CLI, or the benchmark's workers
  Vpns,         \* the virtual page numbers the callers use
  FlatPages,    \* page_table.size(): pages of the flat address space
  MultiPages,   \* ML_VIRTUAL_MEM_SIZE / PAGE_SIZE: pages of the 4-level one
  WalkLimit,    \* 2^ML_TOTAL_VPN_BITS: walk() returns nullptr from here on
  IntMod,       \* 2^32: the frame table keeps a page number as an int
  NumFrames,    \* total_frames
  TlbSets, TlbWays,
  Modes,        \* the page-table modes the user selects
  Policies,     \* the replacement policies the user selects
  RegionPages,  \* the pages the user maps and unmaps with MMapManager
  MaxAccess     \* bound on access_counter, to keep the instance finite

ASSUME SizesAssumption ==
  /\ NumFrames \in Nat \ {0}
  /\ TlbSets \in Nat \ {0}
  /\ TlbWays \in Nat \ {0}
  /\ Vpns \subseteq Nat
  /\ {FlatPages, MultiPages, WalkLimit, IntMod} \subseteq Nat
  /\ IntMod > 0
  /\ FlatPages <= IntMod \div 2      \* 64 pages are far below 2^31
  /\ RegionPages \subseteq Vpns
  /\ MaxAccess \in Nat

\* static_cast<int>(vpn): the low 32 bits, read as a signed number.
ToInt(vpn) ==
  LET low == vpn % IntMod IN IF 2 * low < IntMod THEN low ELSE low - IntMod

\* The pages that evict_page can name are pages of the instance, and those of
\* the flat table are within it: past its end the code indexes a vector out of
\* bounds, which is outside the model.
ASSUME PagesAssumption ==
  /\ \A v \in Vpns : ToInt(v) >= 0 => ToInt(v) \in Vpns
  /\ Modes = {"flat", "multi"} => \A v \in Vpns : v < FlatPages

ASSUME ChoicesAssumption ==
  /\ Modes # {} /\ Modes \subseteq {"flat", "multi"}
  /\ Policies # {} /\ Policies \subseteq {"LRU", "FIFO", "CLOCK"}

VARIABLES
  mode,           \* use_multi_level
  policy,
  page_table,     \* the entries of both tables, by mode and page number
  frame_table,    \* the page a frame holds, -1 for none
  free_frames,    \* the linked list at free_frame_head
  clock_hand,
  tlb, timer,     \* TLB::table by set and way, TLB::timer
  access_counter, page_faults, page_hits, disk_accesses,
  region,         \* the protection MMapManager reports for a page
  inflight,       \* translations returned and not yet used by their caller
  cached          \* which page's data the cache lines of a frame may hold

vars == <<mode, policy, page_table, frame_table, free_frames, clock_hand, tlb,
          timer, access_counter, page_faults, page_hits, disk_accesses,
          region, inflight, cached>>

settings == <<mode, policy, region>>

Frames == 0 .. NumFrames - 1
Sets   == 0 .. TlbSets - 1
Ways   == 0 .. TlbWays - 1

PageTableEntry ==
  [valid : BOOLEAN, dirty : BOOLEAN, referenced : BOOLEAN,
   frame : Frames \cup {-1}, last_access : Nat, load_time : Nat]

TLBEntry == [valid : BOOLEAN, vpn : Nat, pfn : Frames, last_access : Nat]

NoPage  == [valid |-> FALSE, dirty |-> FALSE, referenced |-> FALSE,
            frame |-> -1, last_access |-> 0, load_time |-> 0]
NoEntry == [valid |-> FALSE, vpn |-> 0, pfn |-> 0, last_access |-> 0]

\* What MMapManager can say of a page: in no region, or in one with the
\* protection none, r or rw (execution is never checked).
Protections == { {}, {"mapped"}, {"mapped", "read"}, {"mapped", "read", "write"} }

Init ==
  /\ mode \in Modes       \* set before the first access
  /\ policy \in Policies
  /\ page_table = [m \in {"flat", "multi"} |-> [v \in Vpns |-> NoPage]]
  /\ frame_table = [f \in Frames |-> -1]
  /\ free_frames = [i \in 1 .. NumFrames |-> i - 1]
  /\ clock_hand = 0
  /\ tlb = [s \in Sets |-> [w \in Ways |-> NoEntry]]
  /\ timer = 0
  /\ access_counter = 0 /\ page_faults = 0 /\ page_hits = 0
  /\ disk_accesses = 0
  /\ region = [v \in Vpns |-> {}]
  /\ inflight = {}
  /\ cached = {}

-----------------------------------------------------------------------------
(* The TLB: table[vpn % sets], searched in the order of the ways.          *)

SetOf(v) == v % TlbSets

Matches(tb, v, w) == tb[SetOf(v)][w].valid /\ tb[SetOf(v)][w].vpn = v

Misses(tb, v) == \A w \in Ways : ~Matches(tb, v, w)

FirstMatch(tb, v, w) ==
  Matches(tb, v, w) /\ \A x \in Ways : x < w => ~Matches(tb, v, x)

\* The way insert() writes: the one that already holds v, else the first
\* invalid one, else the first of the least recently used ones.
InsertWay(tb, v, w) ==
  LET set == tb[SetOf(v)] IN
  \/ FirstMatch(tb, v, w)
  \/ /\ Misses(tb, v)
     /\ ~set[w].valid
     /\ \A x \in Ways : x < w => set[x].valid
  \/ /\ Misses(tb, v)
     /\ \A x \in Ways :
          /\ set[x].valid
          /\ set[w].last_access <= set[x].last_access
          /\ x < w => set[w].last_access < set[x].last_access

Inserted(tb, v, f, w, now) ==
  [tb EXCEPT ![SetOf(v)][w] =
     [valid |-> TRUE, vpn |-> v, pfn |-> f, last_access |-> now]]

\* Faulty: no TLB shootdown.
InvalidatedNothing(tb, v) == tb

Invalidated(tb, v) ==
  [tb EXCEPT ![SetOf(v)] =
     [w \in Ways |->
        IF FirstMatch(tb, v, w) THEN [tb[SetOf(v)][w] EXCEPT !.valid = FALSE]
                                ELSE tb[SetOf(v)][w]]]

-----------------------------------------------------------------------------
(* The page table of a mode.  walk() reaches no entry past WalkLimit.      *)

Reachable(m, v) == m = "flat" \/ v < WalkLimit

\* Faulty: the valid bit is not looked at.
MappedAlways(m, v) == Reachable(m, v)

Mapped(m, v) == Reachable(m, v) /\ page_table[m][v].valid

\* Faulty: the access time stays; the reference bit stays; a read clears the
\* dirty bit.
TouchedKeepsTime(m, v, write, now) ==
  [page_table EXCEPT ![m][v] =
     [@ EXCEPT !.referenced = TRUE, !.dirty = @ \/ write]]
TouchedKeepsReferenced(m, v, write, now) ==
  [page_table EXCEPT ![m][v] =
     [@ EXCEPT !.last_access = now, !.dirty = @ \/ write]]
TouchedForgetsDirty(m, v, write, now) ==
  [page_table EXCEPT ![m][v] =
     [@ EXCEPT !.last_access = now, !.referenced = TRUE, !.dirty = write]]

\* An access through the TLB or the table updates the entry, valid or not.
Touched(m, v, write, now) ==
  LET used == [page_table[m][v] EXCEPT !.last_access = now,
                                       !.referenced = TRUE]
  IN  IF Reachable(m, v)
      THEN [page_table EXCEPT
              ![m][v] = IF write THEN [used EXCEPT !.dirty = TRUE] ELSE used]
      ELSE page_table

\* map(): every field of the entry of v; nothing if the walk fails.
WithMapping(pt, m, v, f, write, now) ==
  IF Reachable(m, v)
  THEN [pt EXCEPT ![m][v] =
          [valid |-> TRUE, dirty |-> write, referenced |-> TRUE, frame |-> f,
           last_access |-> now, load_time |-> now]]
  ELSE pt

\* Faulty: the victim stays mapped.
WithoutMappingNothing(pt, m, v) == pt

\* The flat table only clears the valid bit, unmap() resets the entry.
WithoutMapping(pt, m, v) ==
  IF ~Reachable(m, v) THEN pt
  ELSE IF m = "flat" THEN [pt EXCEPT ![m][v].valid = FALSE]
  ELSE [pt EXCEPT ![m][v] = [@ EXCEPT !.valid = FALSE, !.frame = -1,
                               !.dirty = FALSE, !.referenced = FALSE]]

-----------------------------------------------------------------------------
(* evict_page: the choice of the victim.                                   *)

\* Faulty: FIFO takes the time of the last access too.
AgeByAccess(f) == page_table[mode][frame_table[f]].last_access

\* The time LRU or FIFO gives to the page of frame f; a page the 4-level
\* table does not map counts as the oldest.
Age(f) ==
  LET v == frame_table[f] IN
  IF mode = "multi" /\ ~Mapped(mode, v) THEN 0
  ELSE IF policy = "LRU" THEN page_table[mode][v].last_access
  ELSE page_table[mode][v].load_time

Oldest(f) ==
  /\ frame_table[f] >= 0
  /\ \A g \in Frames :
       frame_table[g] >= 0 => /\ Age(f) <= Age(g)
                              /\ g < f => Age(f) < Age(g)

\* The frame under the clock hand after k steps, in at most two rounds.
HandAt(k) == (clock_hand + k) % NumFrames

\* The hand stops at a frame that holds a page whose reference bit is clear,
\* or was cleared when the hand met the page before.
StopsAt(k) ==
  LET v == frame_table[HandAt(k)] IN
  /\ v >= 0
  /\ \/ ~Reachable(mode, v)
     \/ ~page_table[mode][v].referenced
     \/ \E j \in 0 .. k - 1 : frame_table[HandAt(j)] = v

\* The table once the hand has passed k frames.
Passed(k, v) ==
  /\ Reachable(mode, v)
  /\ \E j \in 0 .. k - 1 : frame_table[HandAt(j)] = v

Swept(k) ==
  [page_table EXCEPT ![mode] = [v \in Vpns |->
     IF Passed(k, v) THEN [page_table[mode][v] EXCEPT !.referenced = FALSE]
                     ELSE page_table[mode][v]]]

-----------------------------------------------------------------------------
(* translate: what all its paths share.                                    *)

MaxPages == IF mode = "multi" THEN MultiPages ELSE FlatPages

Permits(v, write) == (IF write THEN "write" ELSE "read") \in region[v]

\* Faulty: the kind of access is not checked.
AcceptedIfReadable(v, write) ==
  /\ region[v] # {} => Permits(v, FALSE)
  /\ v >= MaxPages => region[v] # {} /\ mode = "multi"

\* The protection and bounds checks.  A rejected access returns before the
\* first assignment, so it is not a step.
Accepted(v, write) ==
  /\ region[v] # {} => Permits(v, write)
  /\ v >= MaxPages => region[v] # {} /\ mode = "multi"

Idle(t) == \A r \in inflight : r.thread # t

Access(t, v, write) ==
  /\ Idle(t)
  /\ Accepted(v, write)
  /\ access_counter < MaxAccess
  /\ access_counter' = access_counter + 1
  /\ timer' = timer + 1
  /\ UNCHANGED settings

Return(t, v, f) ==
  inflight' = inflight \cup {[thread |-> t, vpn |-> v, frame |-> f]}

\* Step 1: the TLB has a translation.
TranslateTLBHit(t, v, write) ==
  /\ Access(t, v, write)
  /\ \E w \in Ways :
       /\ FirstMatch(tlb, v, w)
       /\ tlb' = [tlb EXCEPT ![SetOf(v)][w].last_access = timer']
       /\ Return(t, v, tlb[SetOf(v)][w].pfn)
  /\ page_table' = Touched(mode, v, write, access_counter')
  /\ page_hits' = page_hits + 1
  /\ UNCHANGED <<frame_table, free_frames, clock_hand, page_faults,
                 disk_accesses, cached>>

\* Step 2: the page table has one, which goes into the TLB.
TranslateTableHit(t, v, write) ==
  /\ Access(t, v, write)
  /\ Misses(tlb, v)
  /\ Mapped(mode, v)
  /\ LET f == page_table[mode][v].frame IN
       /\ \E w \in Ways : /\ InsertWay(tlb, v, w)
                          /\ tlb' = Inserted(tlb, v, f, w, timer')
       /\ Return(t, v, f)
  /\ page_table' = Touched(mode, v, write, access_counter')
  /\ page_hits' = page_hits + 1
  /\ UNCHANGED <<frame_table, free_frames, clock_hand, page_faults,
                 disk_accesses, cached>>

\* Step 3: a page fault, counted with the read from disk.
Fault(t, v, write) ==
  /\ Access(t, v, write)
  /\ Misses(tlb, v)
  /\ ~Mapped(mode, v)
  /\ page_faults' = page_faults + 1
  /\ UNCHANGED page_hits

\* Map v to frame f in the table pt, note it in the frame table and the TLB tb.
Load(t, v, write, f, pt, tb) ==
  /\ page_table' = WithMapping(pt, mode, v, f, write, access_counter')
  /\ frame_table' = [frame_table EXCEPT ![f] = ToInt(v)]
  /\ \E w \in Ways : /\ InsertWay(tb, v, w)
                     /\ tlb' = Inserted(tb, v, f, w, timer')
  /\ Return(t, v, f)

\* Faulty: the frame stays in the free list.
TranslateFaultFreeKept(t, v, write) ==
  /\ Fault(t, v, write)
  /\ free_frames # <<>>
  /\ UNCHANGED free_frames
  /\ Load(t, v, write, Head(free_frames), page_table, tlb)
  /\ disk_accesses' = disk_accesses + 1
  /\ UNCHANGED <<clock_hand, cached>>

\* find_free_frame takes the head of the list.
TranslateFaultFree(t, v, write) ==
  /\ Fault(t, v, write)
  /\ free_frames # <<>>
  /\ free_frames' = Tail(free_frames)
  /\ Load(t, v, write, Head(free_frames), page_table, tlb)
  /\ disk_accesses' = disk_accesses + 1
  /\ UNCHANGED <<clock_hand, cached>>

\* Faulty: the cache lines of the frame stay.
EvictAndLoadKeepsLines(t, v, write, f, pt) ==
  LET old == frame_table[f] IN
  /\ Load(t, v, write, f, WithoutMapping(pt, mode, old), Invalidated(tlb, old))
  /\ disk_accesses' = disk_accesses + (IF pt[mode][old].dirty THEN 2 ELSE 1)
  /\ UNCHANGED <<free_frames, cached>>

\* evict_page takes frame f from its page: TLB shootdown, invalidation of the
\* frame's cache lines, write-back if dirty, unmapping; then v is loaded.
EvictAndLoad(t, v, write, f, pt) ==
  LET old   == frame_table[f]
      dirty == Reachable(mode, old) /\ pt[mode][old].dirty
  IN  /\ Load(t, v, write, f, WithoutMapping(pt, mode, old),
              Invalidated(tlb, old))
      /\ cached' = {c \in cached : c.frame # f}
      /\ disk_accesses' = disk_accesses + (IF dirty THEN 2 ELSE 1)
      /\ UNCHANGED free_frames

TranslateFaultOldest(t, v, write) ==
  /\ Fault(t, v, write)
  /\ free_frames = <<>>
  /\ policy \in {"LRU", "FIFO"}
  /\ \E f \in Frames : Oldest(f) /\ EvictAndLoad(t, v, write, f, page_table)
  /\ UNCHANGED clock_hand

TranslateFaultClock(t, v, write) ==
  /\ Fault(t, v, write)
  /\ free_frames = <<>>
  /\ policy = "CLOCK"
  /\ \E k \in 0 .. 2 * NumFrames - 1 :
       /\ StopsAt(k)
       /\ \A j \in 0 .. k - 1 : ~StopsAt(j)
       /\ EvictAndLoad(t, v, write, HandAt(k), Swept(k))
       /\ clock_hand' = HandAt(k + 1)

\* No frame holds a page the frame table can name: the fault is not served.
TranslateNoFrame(t, v, write) ==
  /\ Fault(t, v, write)
  /\ free_frames = <<>>
  /\ \A f \in Frames : frame_table[f] < 0
  /\ disk_accesses' = disk_accesses + 1
  /\ UNCHANGED <<page_table, frame_table, free_frames, clock_hand, tlb,
                 inflight, cached>>

Translate(t, v, write) ==
  \/ TranslateTLBHit(t, v, write)
  \/ TranslateTableHit(t, v, write)
  \/ TranslateFaultFree(t, v, write)
  \/ TranslateFaultOldest(t, v, write)
  \/ TranslateFaultClock(t, v, write)
  \/ TranslateNoFrame(t, v, write)

-----------------------------------------------------------------------------
(* The callers.                                                            *)

\* cache.request(p_addr): the access the translation was for.  Afterwards a
\* cache line of the frame may hold data of the page the caller meant.  Lines
\* also leave the caches on their own; cached has every line that can be there.
Request(t) ==
  /\ \E r \in inflight :
       /\ r.thread = t
       /\ inflight' = inflight \ {r}
       /\ cached' = cached \cup {[frame |-> r.frame, vpn |-> r.vpn]}
  /\ UNCHANGED <<settings, page_table, frame_table, free_frames, clock_hand,
                 tlb, timer, access_counter, page_faults, page_hits,
                 disk_accesses>>

\* The user's commands: the CLI reads none while worker threads run.
Command ==
  /\ inflight = {}
  /\ UNCHANGED <<page_table, frame_table, free_frames, clock_hand, tlb, timer,
                 access_counter, page_faults, page_hits, disk_accesses,
                 inflight, cached>>

SetReplacementPolicy(p) ==
  Command /\ policy' = p /\ UNCHANGED <<mode, region>>

SetMultiLevelPaging(m) ==
  Command /\ mode' = m /\ UNCHANGED <<policy, region>>

\* mmap, munmap or mprotect of a region with page v in it.
ChangeRegion(v, prot) ==
  /\ Command
  /\ region' = [region EXCEPT ![v] = prot]
  /\ UNCHANGED <<mode, policy>>

Next ==
  \/ \E t \in Threads, v \in Vpns, write \in BOOLEAN : Translate(t, v, write)
  \/ \E t \in Threads : Request(t)
  \/ \E p \in Policies : SetReplacementPolicy(p)
  \/ \E m \in Modes : SetMultiLevelPaging(m)
  \/ \E v \in RegionPages, prot \in Protections : ChangeRegion(v, prot)

Spec == Init /\ [][Next]_vars

-----------------------------------------------------------------------------
(* Properties.  Those on coherence are about an instance that stays in one *)
(* mode and whose page numbers fit an int; FreeFramesUnused is what is     *)
(* left of it otherwise.                                                   *)

\* Every variable has its type.
TypeOK ==
  /\ mode \in Modes
  /\ policy \in Policies
  /\ page_table \in [{"flat", "multi"} -> [Vpns -> PageTableEntry]]
  /\ frame_table \in [Frames -> Int]
  /\ free_frames \in Seq(Frames)
  /\ clock_hand \in Frames
  /\ tlb \in [Sets -> [Ways -> TLBEntry]]
  /\ {timer, access_counter, page_faults, page_hits, disk_accesses} \subseteq Nat
  /\ region \in [Vpns -> Protections]
  /\ inflight \subseteq [thread : Threads, vpn : Vpns, frame : Frames]
  /\ cached \subseteq [frame : Frames, vpn : Vpns]

\* The pages and the frames know each other: the frame of a mapped page names
\* that page in the frame table, and a page named there is mapped to that
\* frame.  translate() and evict_page() update the two structures apart.
OwnersMatch ==
  /\ \A v \in Vpns : Mapped(mode, v) =>
       /\ page_table[mode][v].frame \in Frames
       /\ frame_table[page_table[mode][v].frame] = v
  /\ \A f \in Frames : frame_table[f] # -1 =>
       /\ frame_table[f] \in Vpns
       /\ Mapped(mode, frame_table[f])
       /\ page_table[mode][frame_table[f]].frame = f

\* No frame is lost and none is handed out twice: the free list has each
\* frame without a page exactly once, and no other frame.
FramesAccounted ==
  /\ \A i, j \in DOMAIN free_frames :
       i # j => free_frames[i] # free_frames[j]
  /\ \A f \in Frames :
       frame_table[f] = -1 <=> \E i \in DOMAIN free_frames : free_frames[i] = f

\* The TLB is only a copy of the page table: a valid entry is in the set of
\* its page, agrees with the table, and is the only one for its page, so that
\* lookup() and invalidate(), which stop at the first match, miss nothing.
TLBCoherent ==
  \A s \in Sets, w \in Ways : tlb[s][w].valid =>
    LET e == tlb[s][w] IN
      /\ e.vpn \in Vpns
      /\ SetOf(e.vpn) = s
      /\ Mapped(mode, e.vpn)
      /\ page_table[mode][e.vpn].frame = e.pfn
      /\ \A x \in Ways : tlb[s][x].valid /\ tlb[s][x].vpn = e.vpn => x = w

\* The frame translate() answers for page v without a fault.
Answers(v, f) ==
  \/ \E w \in Ways : FirstMatch(tlb, v, w) /\ tlb[SetOf(v)][w].pfn = f
  \/ Misses(tlb, v) /\ Mapped(mode, v) /\ page_table[mode][v].frame = f

\* Two pages never translate to one frame, by whatever path each is found.
NoFrameShared ==
  \A u, v \in Vpns, f \in Frames : Answers(u, f) /\ Answers(v, f) => u = v

\* A cache line holds data of the page that owns its frame now: evict_page()
\* invalidates the lines of a frame before it gives the frame away.
NoStaleLines == \A c \in cached : frame_table[c.frame] = c.vpn

\* A caller that goes to the caches with a translation still finds its page
\* in that frame.
TranslationsFresh == \A r \in inflight : frame_table[r.frame] = r.vpn

\* Whatever path serves it, a write makes its page dirty only where the
\* protection of the page's region at that moment allows writes.
WritesRespectProtection ==
  [][\A v \in Vpns, m \in Modes :
       page_table'[m][v].dirty /\ ~page_table[m][v].dirty
         => region[v] = {} \/ "write" \in region[v]]_vars

\* A frame in the free list is there once and no page table entry leads to it.
\* This much survives a switch of the mode and pages wider than an int.
FreeFramesUnused ==
  \A i \in DOMAIN free_frames :
    /\ \A j \in DOMAIN free_frames : free_frames[j] = free_frames[i] => i = j
    /\ \A m \in Modes, v \in Vpns :
         page_table[m][v].valid => page_table[m][v].frame # free_frames[i]
=============================================================================
