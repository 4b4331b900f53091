# A verification of the memory management simulator

TLA+ models of the program in `src/`, model-checked with TLC; most of what the runs check
is also proved with TLAPS, for every size of the system. The program simulates a computer's memory: allocators, a memory management unit
with TLB and page tables, a cache hierarchy, `mmap` regions, and benchmarks that drive
them from several threads.

Paths below are relative to the repository: the implementation is in `src/src/*.cpp`,
the command line in `src/main.cpp`.

## 1. The system

| Part | State | Operations | Who calls it |
|---|---|---|---|
| **MMU** (`VirtualMemory.*`): TLB, translation, replacement | flat page table, frame table, linked list of free frames, clock hand, counters; TLB entries by set and way and a timer | `translate`, and inside of it `find_free_frame`, `evict_page`, `TLB::lookup/insert/invalidate`; `set_replacement_policy`, `set_multi_level_paging` | command line, benchmark workers |
| **4-level page table** (`MultiLevelPageTable.*`) | a radix tree of nodes made on demand; leaf entries; walk counters | `walk`, `map`, `unmap` | MMU, under its lock |
| **Linear allocator** (`MemoryAllocator.*`) | doubly linked list of blocks, id map, counters | `init`, `allocate` (first, best, worst fit), `deallocate` | command line, `run_alloc_stress` |
| **Buddy allocator** (`BuddyAllocator.*`) | free list per order, free map by address, id map | the same | the same |
| **Slab allocator** (`SlabAllocator.*`) | per size a cache with lists of partial, full and empty slabs and a mutex; the pool's next address with another; the id map with a third | the same | the same |
| **Allocator interface** (`Allocator.h`) | - | the promise the three share | |
| **Cache hierarchy** (`Cache.*`) | three levels of sets of lines with stamps, dirty bits and a spin lock per set; the policy | `request`, `invalidate_physical_range`, `set_policy` | the accesses after a translation; `evict_page` |
| **mmap manager** (`MMap.*`) | regions with address range, protection, file; next address | `mmap`, `munmap`, `mprotect`, `check_access` | command line; MMU |
| **Spin lock** (`ThreadSafety.h`) | an atomic flag | `lock` with a bounded spin and a yield, `unlock` | cache sets, TLB |
| **Threaded benchmark** (`ThreadedBenchmark.*`) | statistics per worker, the workers' blocks | `run` (translate, then cache), `run_alloc_stress`, `run_cache_stress` | command line |
| **Trace benchmark** (`TraceBenchmark.*`) | the trace | generate, load, run | command line |
| **Command line** (`main.cpp`) | which allocator is current | a loop of commands, one at a time | the user |
| **Visualization** (`Visualization.*`) | - | prints | command line |

How they interact. An access goes command line or worker -> `translate` (which asks the
mmap manager, the TLB, the page table; on a fault takes a free frame or evicts a page,
which invalidates a TLB entry and the frame's cache lines) -> returns a physical address
-> `MemoryHierarchy::request`. `translate` holds `page_table_mutex` throughout; the
caches are called after it was released, and lock one set at a time. The allocators are
apart from this: the linear and the buddy allocator hold one mutex throughout each call,
the slab allocator takes up to three in turn.

What is hard:

* the frame table, page table, free list, TLB and caches each hold a copy of who owns a
  frame, and change one after the other along four paths of `translate`;
* the gap between `translate` and the cache access, with several workers;
* page numbers of up to 42 bits in an `int`, and a page table whose geometry is that of
  4096-byte pages where pages have 64 bytes;
* a switch of the page table's mode that leaves frames and TLB as they are;
* hand-linked lists that split and merge, in any order of calls;
* the slab allocator's calls, overtaken between the release of one lock and the taking
  of the next;
* the cache hierarchy: levels of different block sizes, a request made of up to six
  calls, and dirty lines that must not get lost on the way;
* a tree of page tables that grows while it is only looked at;
* lengths and addresses of 64 bits that wrap around in `mmap`.

What makes each part correct is in section 3; `PROJECT.json` lists the hazards with the
source lines where they bite and the properties that cover them.

## 2. The modules

| Module | What it is | Code |
|---|---|---|
| `VirtualMemory` | MMU, TLB, what either page table says of a page, the protection of pages, the accesses of workers | `VirtualMemory.*`, `check_access` of `MMap.cpp` |
| `MultiLevelPageTable` | `VirtualMemory` with the tree: indices, tables, walks | `MultiLevelPageTable.*` |
| `DemandPaging` | abstract: what a memory management unit promises | |
| `VirtualMemoryRefinement` | `VirtualMemory` implements `DemandPaging` | |
| `VirtualMemoryHistory` | `VirtualMemory` with a record of the users' accesses, to say what the policies promise | |
| `VirtualMemoryProofs` | theorems about `VirtualMemory`, its refinement and its record of the accesses | |
| `MultiLevelPageTableProofs` | theorems about the tree | |
| `CacheHierarchy` | three cache levels and the requests of several threads, call by call | `Cache.*`, `run_cache_stress` |
| `Pipeline` | `VirtualMemory` composed with `CacheHierarchy`: reads and writes from end to end | the loops of `ThreadedBenchmark::run`, `TraceBenchmark::run` and the command line |
| `PipelineProofs` | theorems about `CacheHierarchy`, `SpinLock` and `Pipeline` | |
| `SpinLock` | the lock of a cache set | `ThreadSafety.h` |
| `MMapManager` | the regions, with the width of addresses | `MMap.*` |
| `MMapProofs` | theorems | |
| `AllocatorSpec` | abstract: what any allocator promises | `Allocator.h` |
| `LinearAllocator`, `BuddyAllocator`, `SlabAllocator` | the three allocators; each implements `AllocatorSpec` | the files of those names (`MemoryAllocator.*` for the first) |
| `StdList` | the linked lists of the slab and the buddy allocator, as sequences | `BuddyAllocator.cpp`, `std::list` |
| `AllocStress` | `SlabAllocator` composed with its callers: the command line and the benchmarks' workers | `ThreadedBenchmark.cpp`, `main.cpp` |
| `LinearAllocatorProofs`, `BuddyAllocatorProofs`, `SlabAllocatorProofs` | theorems about the three; the last also about `AllocStress` | |
| `Sums` | sums as sizes of sets: the counts of `AllocStress`, the bits of `MultiLevelPageTable` | |
| `Lemmas` | what several proofs need of numbers, powers of two, lists, their order, and sums | |
| `MC...` | values of constants for TLC | |

Operators whose comment starts with "Faulty:" are not part of the model: each is what a
definition would be with a plausible bug, and shows that the property named with it in
`PROJECT.json` notices.

**DemandPaging.** `resident` says which page is in which frame, and that is all there is
to see. `Pinned` are the pages that are never evicted: in `VirtualMemory` those whose
number reads as a negative `int`, which the loops over the frame table pass by. `Refuse`
is the fault for which no frame is left.

**VirtualMemory.** Variables have the names of the code's members. Addresses are page
numbers. `translate` is atomic, as its mutex makes it, and is one action for each of its
ways out: `TranslateTLBHit`, `TranslateTableHit`, `TranslateFaultFree` (a free frame),
`TranslateFaultOldest` (LRU or FIFO evicts), `TranslateFaultClock`, `TranslateNoFrame`.
A call that is refused - out of bounds, or against the region's protection - changes
nothing and is no step. `Access`, `Fault`, `Load` and `EvictAndLoad` are what the ways
share. A result not yet used is in `inflight`; `Request` is the cache access its caller
then makes. `cached` stands for the caches: which page's data lines of a frame may hold
(`Pipeline` shows that it says so truly). `ToInt` is the cast to `int`, with 2^32 as the
constant `IntMod`; `WalkLimit` is 2^36, from which on `walk` gives up. Between the
accesses the user may change the policy, the mode and the protection of pages
(`Command`: only when no worker runs). What lies outside: in mode "flat" the code
indexes its vector by the page it evicts; `PagesAssumption` keeps that within the vector.

**MultiLevelPageTable.** Every step of the MMU again, with the tree it works on: `Walks`
are the pages it walks to (the accessed page, the victim, for LRU and FIFO the page of
every frame, for CLOCK the pages the hand meets), each of which makes the tables on its
way; `map`, `unmap` and `Touch` write the entry at the end of the walk. A table is named
by the indices that lead to it. What the walk finds need not be what `VirtualMemory` says
of the page: that it is, is the property `LeavesMatch`. `TreeAssumption` has the user stay
in this mode, as the flat table leaves the tree alone.

**CacheHierarchy.** `access`, `insert` and `invalidate` hold a set's lock throughout and
are atomic (`SpinLock` says why that is right); a request is the sequence of its calls,
and other threads' calls come in between. `pc` names the call to make next: `Probe2`,
`Probe3`, then `Promote1`, `WriteBack2` (a hit in level 2), `Promote2`, `Back1`,
`WriteBack3`, `Fill1` (a hit in level 3), or `Fetch3`, `Back2`, `Back1Of3`, `Fill2`,
`Fill1` (a miss everywhere). `StartRange` and `InvalidateBlock` are `evict_page`'s
invalidation of a frame. The caches hold no data, so the model adds `unsaved`: the
addresses whose last write has not gone to memory. `evict_page` invalidates the range
first and then counts the page's write-back, whatever its lines answer; `unsaved` takes
it as done when the range begins. `recent`, the order in which a level
was asked for its blocks, is a history variable too. `Has` says that a level holds a
block of an address, `Marked` what a hit does to its line. `access_counter` is the level's,
but guarded by the lock of one set: with several threads an increment may be lost. That another thread's increment may come
between this one and the stamp is left out: what is said of the stamps (`OrderInv`, LRU)
is said of one thread.

**Pipeline.** The MMU is an instance of `VirtualMemory`. `Translate` is a call up to its
return, or, when it evicts, up to the invalidation of the frame's lines, which
`Continue` then does block by block; nobody else translates meanwhile (`Unlocked`), but
the requests of others go on. `BeginRequest` makes the physical address out of the frame
that `translate` answered, which by then may have changed hands.

**SpinLock.** `lock`'s loop step by step: `Lock` enters it, `Spin` is an attempt that
finds the flag set (and yields after `SPIN_LIMIT` of them), `Acquire` the one that finds
it clear; `TryLock` and `Unlock`.

**MMapManager.** Addresses are numbers below `AddrMod`, 2^64 in the code, and sums wrap.
`MMap` and `MMapFixed` are `do_mmap` without and with `MAP_FIXED` (which no command of
the CLI gives), `MUnmap` and `MProtect` the other two calls; the calls that are refused
change nothing. Regions stay in the sequence when they are unmapped, as in the code's
vector, and searches take the first that fits. `Verdict` is all that the MMU gets to know
of an address.

**LinearAllocator.** A block, and a pointer to one, is its start address: blocks never
move. `InitMemory`, `Allocate` and `AllocateFails`, `Deallocate` are whole calls, as the
one mutex makes them. `Chosen` compares all blocks where the loop follows `next` from
`head`, which comes to the same while the list is the tiling that `Tiled` says. `Absorb` is the merging of a block with the one behind it, links
included.

**BuddyAllocator.** Addresses and sizes are in pages. The free lists are sequences in
the code's order, beside `free_map`. Splitting and merging are loops in the code and
closed forms here (`SplitDown`, `FinalOrder`), without recursion.

**SlabAllocator.** `pc` and `job` are where each thread is. An allocation is `Enter`
(takes the cache's lock), `Reserve` (finds or cuts a slab and takes a slot: one of
`AllocatePartial`, `AllocateEmpty`, `AllocateNew`, `AllocateFails`), `Publish` (the id;
unlocks). A free is `Erase` (the id) and `Release` (the slot, under the cache's lock).
The sections under `pool_mutex` and `id_map_mutex` are within one of these steps.
`InitMemory` needs all threads idle: only the command line calls `init`, and never while
workers run.

**AllocStress.** `Main` is the command line's thread: `InitCommand`, `MallocCommand`,
`FreeCommand` and `CommandReturns` are its commands, `Start` the beginning of a
benchmark, `Join` its end; `phase` says which of these it is at. A worker's step is a
step of `SlabAllocator` with the change of its locals `my_blocks` and `stats` that goes
with it; the coin that decides what to do is a free choice. `Skip` is an operation that
does nothing to the allocator: a read or a write in `run`, a free with nothing to free.
`before` remembers what a benchmark found when it began, to say that it leaves it alone.
A benchmark may follow another, and find the user's blocks.

## 3. The runs

Passing runs (TLC visits every reachable state of the instance):

| Run | Question | Instance |
|---|---|---|
| `VMCoherence` | Do page table, frame table, free list, TLB and caches agree about every frame? Do LRU, FIFO and CLOCK evict whom they should, and are dirty pages written back? | 1 thread, 4 pages, 3 frames, a TLB of 2, flat table, 3 policies with switches, 6 accesses |
| `VMRefinement` | Is it demand paging, with faults and write-backs counted exactly? Does no write get past a protection that changes? | 2 threads, 4 pages, one of them in a region and two that read as -2 and -1 (`IntMod` = 8), 2 frames, 2 TLB sets, 4-level table, 3 policies, 4 accesses |
| `VMWide` | Does each page find its own entry in the tree, whatever was walked to, and what is left when pages do not fit an `int` or the tree? | four levels of one bit; `IntMod` = 8: page 8 is cut to 0, pages 6 and 7 read as -2 and -1 (the mark of a free frame), page 16 is beyond `walk`; 2 frames, 3 policies, 5 accesses |
| `Pipeline` | Has a block one line per level, does LRU evict the least recent, is an invalidated frame gone, and does every line belong to the page that owns its frame? | 1 thread, 3 pages of 8 addresses, 2 frames; blocks of 1, 2, 4, in 2x1, 1x2, 1x2 lines; 3 offsets; LRU and LFU with switches; 4 accesses |
| `MMap` | Are regions whole pages, and do they stay apart? May the MMU ask by page? Does a call concern one region? | addresses below 18, pages of 2, base 4, limit 8; lengths that fit, that wrap once and that round to 0; fixed addresses at and within a page; 3 regions |
| `Linear` | Does the list tile the memory, links and ids included; does the allocator keep its promise? | memories of 0, 4 and 7 bytes, requests of 1 to 3, 8 attempts |
| `Buddy` | Are pages partitioned, lists and map in step, merging complete, the promise kept? | 1 or 8 pages, requests of 1, 2 and 4 pages, 8 ids |
| `Stress` | The same for the slab allocator, with threads inside: slabs in the right list, slots with one owner; and does the benchmark end, with its own blocks returned, the user's left alone and the counts agreeing? | the command line and 2 workers of 2 operations; slabs of 4, 2 and 1 slots, a pool of 2 slabs and a rest, or of none; 6 ids |

Why the bounds are enough. In the MMU instances there are more pages than frames, and in
`VMCoherence` more frames than TLB entries, so that a page may be in memory without
being in the TLB and a TLB entry may be replaced; 4 to 6 accesses fill the frames,
evict, and use what the eviction left behind, by each path. A switch of the page table's
mode happens only in `VMModesDirty`: with it the coherence properties are false, and what
is left, `FreeFramesUnused`, is proved for it. The allocators' memories
allow every shape of merging (left, right, both, none; up to three orders). The slab
pool runs out, two caches compete for its last slab, and slabs go from empty to full at
once and step by step. In `Pipeline` every call of every path happens, both write-backs
and back-invalidations included, a page is two blocks of level 3 as in the code, and
four accesses are enough for an eviction after which the frame is used by its new page.
In `MMap` three regions are enough for two to overlap and a third to come after a wrap.
The counters of the code (accesses, ids, attempts, requests, regions) are bounded by a
constant of the model (`MaxAccess`, `MaxId`, `MaxAttempts`, `MaxRequests`, `MaxRegions`);
nothing else is cut off. Thread symmetry is used in `VMRefinement` only, whose properties
are safety properties.

`CHECK_DEADLOCK FALSE` stands in the configurations of the MMU, of `Pipeline` and of
`MMap`, whose behaviours end at the bound on accesses or regions. Elsewhere deadlock is
checked, in `Stress` too: no state of the workers' locks leaves everyone waiting.

What the properties say: each is preceded by its statement in the module. The deep ones
are `OwnersMatch`, `FramesAccounted`, `TLBCoherent` (copies of one fact kept apart),
`NoFrameShared` and `ImplementsDemandPaging` (what a user sees), `LinesBelong` (the same
across the MMU and the caches), `LeavesMatch` (across the MMU and the tree), `Tiled`,
`PagesPartitioned`, `ListsMatchSlots`, `SlotsAccounted` (lists and bitmaps by hand, with
threads in between), `KeepsPromise` (each allocator against one specification, and
`LargeEnough`: what is given out is no smaller than what was asked for, rounded as it
may be on the way),
`OwnBlocks` and `AllReturned` (callers who share an allocator), `LRUEvictsLeastRecent`,
`ClockGivesSecondChance` (the policies against the accesses made, not against the code's
stamps), `NoDuplicates` and `RangeGone`, and `RegionsApart`, which says exactly what may
make regions overlap: a length near 2^64, and `do_mmap` without an address after a region
at a fixed one, for which it does not look.

Runs that show where the code does not do what a comment or the documentation says:

| Run | What is said | What happens |
|---|---|---|
| `VMModesDirty` | `VirtualMemory.cpp:127` "writes back dirty pages" | After `set pagetable`, a page written under the other mode is evicted without a write-back: the dirty bit is looked up in the current mode's table only. |
| `VMThreadsStale` | `VirtualMemory.cpp:197` "Invalidate cache lines associated with this physical frame" | Between `translate` and the end of the cache access another worker may take the frame and have its lines invalidated; the access then fills lines of the old page. The run is `Pipeline` with two threads and one frame, on the real lines. |
| `CacheLost` | `Cache.h:93` "Propagates evicted dirty lines down to lower cache levels" | The insertions after a hit in level 3 or a miss ignore what they evict: a dirty line is lost. |
| `CacheThreads` | `Cache.h:23` "Thread-safe: per-set SpinLock" | The set is unlocked between the miss and the insertion: two requests for a block insert it twice, and invalidation finds only the first. |

The first needs a switch of the mode, the second and the fourth two threads; within one
mode and with one thread the passing runs and the theorems hold, but for the dirty lines
of the third.

Divergences without a run of their own. The frame table keeps a page's number cut to 32
bits (`VirtualMemory.cpp:330`), so that the TLB entry of a page from 2^31 on survives the
loss of its frame; and with pages of 64 bytes (`Allocator.h:9`) page numbers have 42 bits
where the 4-level table covers 36 (`MultiLevelPageTable.h:11-16`), so that pages beyond
get a frame and are never mapped. Both follow from the model's `ToInt` and `Reachable`,
are left to the hypotheses `NarrowVpns` and `SmallVpns` of the theorems, and `VMWide` shows what still
holds of such pages. `MMap.cpp:57-60` warns of a file that is not there, "Treating as
anonymous", and then keeps flags and name, so that the region is listed as file-backed;
files are not modelled.

**Fairness.** Only `Stress` has a liveness property, `BenchmarkEnds`. It assumes weak
fairness of each worker and of the join: the operating system schedules every thread
that can run. Nothing is assumed of the user, who need not type anything. No fairness of
mutexes is assumed either. `std::mutex` may let others overtake a waiting thread, but a
worker's operations are finite, so that weak fairness, which promises a waiting thread
its step only when the lock stays free, is enough.

## 4. The proofs

Each theorem below holds for every value of the constants that the named assumptions of
its module allow: any number of threads, pages, frames, sets, ways, any memory and
requests, and behaviours of any length (the bounds like `MaxAccess` are arbitrary
numbers there). The statements that name a property of a passing run hold on the
instances of section 3. No run has `SpinLock`, `UserBlocksReturned` (a part of
`AllReturned`) or `PipelineRequests`: these are proved only.

Hypotheses beyond the assumptions stand in the theorem, and only where the code needs
them:

* `SingleMode`: the user does not switch the page table's mode. With a switch the
  coherence of the MMU is false (`VMModesDirty`).
* `NarrowVpns`: page numbers are within the tree's reach, and the `int` of the frame
  table reads back as the page or as a negative number. A wider page is cut to the number
  of another one, which is then evicted in its place.
* `SmallVpns`: the `int` reads back as the page itself. With a negative one the frame
  table says something else than the page, so that `OwnersMatch` cannot be stated of it;
  a page that reads as -1 cannot be told from a free frame.
* `SingleThread`: one caller. With two the statement is false (`VMThreadsStale`,
  `CacheThreads`).

### The MMU: `VirtualMemoryProofs`

| Theorem | States | Under |
|---|---|---|
| `TypeCorrect` | `[]TypeOK` | nothing more: any mix of modes, policies and wide pages |
| `ProtectionKept` | `WritesRespectProtection` | nothing more |
| `FreeFramesStayUnused` | `[]FreeFramesUnused` | nothing more |
| `OwnersAgree` | `[]OwnersMatch` | `SingleMode`, `SmallVpns` |
| `FramesKept` | `[]FramesAccounted` | `SingleMode`, `SmallVpns` |
| `Coherent` | `[]TLBCoherent` | `SingleMode`, `NarrowVpns` |
| `FramesNotShared` | `[]NoFrameShared` | `SingleMode`, `NarrowVpns` |
| `CachesFresh` | `[](NoStaleLines /\ TranslationsFresh)` | `SingleMode`, `SmallVpns`, `SingleThread` |
| `RefinesDemandPaging` | `ImplementsDemandPaging` | `SingleMode`, `NarrowVpns` |
| `LeastRecentEvicted` | `HSpec => LRUEvictsLeastRecent` | `SingleMode`, `SmallVpns` |
| `FirstLoadedEvicted` | `HSpec => FIFOEvictsFirstLoaded` | `SingleMode`, `SmallVpns` |
| `SecondChanceGiven` | `HSpec => ClockGivesSecondChance` | `SingleMode`, `SmallVpns` |
| `DirtyPagesWrittenBack` | `HSpec => DirtyWrittenBack` | `SingleMode`, `SmallVpns` |

`TypeOK` is not inductive: a fault answers with the frame of the victim's table entry, so
`TypeInv` adds that a valid entry holds a frame (`Sound`). `ProtectionKept` needs only
that no operator of the page table sets a dirty bit of another page (`NoMoreDirty`).
`FreeFramesUnused` needs no coherence: frames leave the list one by one, and nothing is
evicted before it is empty (`FaultFreeLeavesFree`).

For coherence, `CoherenceInv` has the parts together, because each step needs the
others: eviction finds the victim's entry through the frame table (`Owned`), gives the
frame away without putting it in the free list (`Listed`), and invalidates a single TLB
entry, which is enough because there is only one (`Copied`). It says all this with the
`int` of a page instead of the page, so that it holds of pages that read as negative
numbers too; `CoherenceParts` draws `OwnersMatch` and `FramesAccounted` from it where
numbers are small. Lemmas say what each operator does to the mapping: `TouchedSame` and
`SweptSame` (dirty, reference and time stamps change no mapping), `InsertedCopied`,
`LoadCoherent`, `Unmapped`, `EvictAndLoadCoherent`, `FaultFreeCoherent` (one per way to
get a frame). `FreshInv` adds that lines and translations in use name the owner of their
frame.

`RefinesDemandPaging` maps each way out of `translate` to a step of `DemandPaging`: the
two hits to a use of a resident page (`UsedIsHit`), a fault with a free frame to a load
(`LoadedIsLoad`), an eviction to a replacement (`EvictAndLoadReplaces`,
`LoadedIsReplace`), with the same answer, dirty pages, faults and disk accesses; no frame
to a refusal; all else to a stutter. The invariant it uses is `CoherenceInv`.

The policies choose by what the page table says, the properties speak of the accesses the
users made; `HistoryInv` ties the two. Of the pages in memory it says (`Recorded`) that
the order of their last accesses in `recency` is the order of their `last_access`, that
of their loads in `loads` the order of `load_time`, none of them ahead of the counter, so
that the next access is the latest (`Latest`, `LatestFirst`); that the dirty pages are
the ones written since they were loaded; and that a page accessed since the last eviction
is still referenced. `TranslateEnters` brings every way through `translate` into one
form, in which the entry of the accessed page is renewed and nothing else but reference
bits, and `RecordKeeps` needs no more than that. The choices are then about a single state:
`OldestIsLast` for LRU and FIFO; for CLOCK `HandRound`, by which a hand that clears
the bits it passes stops at a referenced page only after a whole round, at the place
where it began.

### The tree: `MultiLevelPageTableProofs`

| Theorem | States |
|---|---|
| `TreeKept` | `TSpec => []LeavesMatch` |

For any number of levels, any bits in each, and whatever the page numbers. What `walk`
rests on is arithmetic. `LeafInjective` says that no two pages within its reach have the
same indices, by going down the levels: two numbers with the same quotient above a level
and the same index at it have the same quotient below it (`SameBelow`), since the
divisors of two levels differ by the factor of the index (`Spans`, from `PowAdds` and
`DivisionTwice` in `Lemmas`). Above the root the quotient is 0, below the last level it is
the number itself.

`LeavesMatch` is not inductive. An eviction walks to the page that the frame table names,
which has to be a page of the table (`Named`; it may well be the wrong one), and the
tables on the way must be there for the pages the table maps (`Built`), not only for the
leaves; `TreeInv` has these and that the leaves say what the table says (`Mirrors`). One
lemma per operator shows that doing it in both keeps this (`TouchMirrors`, `MapMirrors`,
`UnmapMirrors`, `SweptMirrors`), with `EntryMirrors` for the write of one entry. The model
takes the victim by what `page_table` says, where the code walks to the leaves: the same
as long as `LeavesMatch` holds. An eviction names the victim twice, for the table and for
the tree; that both are the same one is `OneOldest`, and for CLOCK that there is but one
first place to stop. Each step with the tree is one of `VirtualMemory` with more said, so
that the theorems above hold with it.

### The caches and the pipeline: `PipelineProofs`

| Theorem | States | Under |
|---|---|---|
| `CachesTypeCorrect` | `Spec => []TypeOK` | nothing more: any number of threads |
| `BlocksOnce` | `Spec => []NoDuplicates` | `SingleThread` |
| `LeastRecentLeaves` | `Spec => LRUEvictsLeastRecent` | `SingleThread` |
| `PagesGone` | `Spec => RangeGone` | `SingleThread` |
| `PipelineRequests` | `PSpec => Spec` | nothing more |
| `LinesOfOwners` | `PSpec => []LinesBelong` | `SingleThread`, `SingleMode`, `SmallVpns` |
| `SpinLockExcludes` | `SetLock!Spec => [](SetLock!TypeOK /\ SetLock!MutualExclusion)` | nothing more: any number of threads |

`TypeOK` bounds each level's counter by the requests made, which is no invariant of one
step: a request under way still owes accesses. `CountsInv` counts the accesses that are
due (`Due`, at most two of a level by a request) and says that counter and due accesses
together stay within the bound (`PaysOne`: an access pays one of them).

With one thread, `OrderInv` says of each level that a valid line is in the set of its
block, that no other line of the set has the block, that the order of the lines' times
is the order of their blocks in `recent`, and that no time is ahead of the counter.
Inserting keeps it because a line is inserted at the time of the probe that missed it:
`MissedInv` says of each `pc` in which levels the request's block is still missing, and
that those levels were asked for it last. `NoDuplicates` and `LRUEvictsLeastRecent`
follow; policies may change at any time, and LFU and FIFO in between do no harm.

`RangeInv` is about an eviction that goes through a page level by level and block by
block: what is left of the page lies in a level still to be searched, or in the level
that is searched, from the current address on. It needs that a page is a whole number of
blocks of each level (`BlockInPage`, `StepInPage`), and that a request never runs
meanwhile (`RequestNotRange`).

The composition. `VM` is an instance of `VirtualMemoryProofs`. The pipeline is built of
the steps of `VirtualMemory` (the lemma `PipelineTranslates`), so that its theorems hold
of the pipeline; `MMUAssumption`, in `Pipeline`,
is what `VirtualMemory` assumes of its constants, which TLC evaluates for the instances
of `Pipeline`. With `PipelineRequests` the theorems about `CacheHierarchy` hold of the
pipeline too. `LinesOfOwners` needs both and an invariant of its own, `BelongInv`: a
frame with a valid line is owned by a page that was accessed in it, or is being cleaned;
a request that is going to insert a line is in an owned frame; and there is one answer of
`translate` at a time. Lines of the frame's old page are gone when the new owner's first
request is made: that is `RangeInv` at the end of the eviction. No record of the accesses is kept
here, so that the instance has empty ones for it and its theorems about `HSpec` say nothing.

`SetLock` is the lock of a set, an instance of `SpinLock` of the same threads with a
program counter of its own. At most one thread is inside, `try_lock` included, and none spins
beyond the limit without a yield; inductive with the flag being set while someone is inside.

### The allocators

`LinearAllocatorProofs`: `TypeCorrect` (`[]TypeOK`), `MemoryTiled` (`[]Tiled`), `IdsExact`
(`[]IdMapExact`), `NoFreeNeighbours` (`[]NoAdjacentFree`), `ImplementsPromise`
(`KeepsPromise`). The invariant `IInv` has the four together. The list operators are
lemmas on lists apart from the variables: `SplitTiles` (a split keeps the tiling and the
back links), `AbsorbTiles` (so does a merge with the next block), `AbsorbPairs` (the free
pairs that are left after one), `CoalescedTiles` (one merge on each side is enough, as
there was no free pair before). `AllocateGivesEnough` is what `KeepsPromise` says of sizes.

`BuddyAllocatorProofs`: `TypeCorrect`, `PagesOnce` (`[]PagesPartitioned`), `ListsMatch`
(`[]ListsMatchMap`), `BuddiesMerged` (`[]NoFreeBuddies`), `ImplementsPromise`
(`KeepsPromise`). Two kinds of blocks, of which each page has one, are awkward to reason
about; `Blocks` puts free and allocated blocks in one set, each tagged with its id, and
`Partition` says that each page is in one of them. A split or a merge replaces some
blocks by others that cover the same pages (`Replaced`), across any number of orders:
`SplitSpan` and `MergedSpan`. Aligned blocks of two sizes are apart or nested
(`AlignedApart`), and the buddy of the buddy is the block (`BuddyBack`). The prover knows
nothing of `2 ^ k`; `Lemmas` takes what is needed (`PowPositive`, `PowMonotone`,
`PowDoubles`) from `2 ^ k` being the number of subsets of a set of `k`. `RoundedIs` says
that bytes rounded up to pages and then to a power of two are never fewer.

`SlabAllocatorProofs`: `TypeCorrect`, `ListsMatch` (`[]ListsMatchSlots`),
`SlotsOwnedOnce` (`[]SlotsAccounted`), `ImplementsPromise` (`KeepsPromise`), for any
number of threads. `SlotsAccounted` counts the owners of a slot; what makes it inductive
is in `OwnersInv`: owners, ids or calls under way, never share a slot, each names an
existing slab of its own cache and a used slot of it, and each used slot has one. That a
call under way keeps its slot while others go on is the point: between `Reserve` and
`Publish`, and between `Erase` and `Release`, the slot is in no map. `ListsInv` says the
lists by `Lists(seq, S)` (in `StdList` and `Lemmas`: seq has the members of S, each
once), `SlabRelisted` that a freed slot's slab goes to the list it belongs to in each of
the four cases. In `KeepsPromise` an allocation is made at `Publish`, a free at `Erase`. That
it gives enough takes two steps: `Reserve` takes a slot of a size that fits the request
(`ReserveTakesEnough`), and `Publish`, whatever was done since, gives that slot out
(`PublishGivesIt`).

The callers, in the same module. `AllocStress` is built of the steps of `SlabAllocator`
(the lemma `StressCalls`), so that all of the above holds under it. `OwnBlocksKept`
(`SSpec => []OwnBlocks`; between benchmarks no worker has a block or a call under way, and
during one the command line has no call), `UserBlocksReturned` (after the join the user's
blocks are all there is, unmoved) and `AllBlocksReturned` (`SSpec => []AllReturned`), which
adds that the counts agree. Workers count for themselves what they do and the caches count what is done
to them, under different locks and at different steps. `TallyInv` relates the two at every
step: for each worker, allocations asked for are those that failed, were freed, are being
freed, or are in its list (`Balanced`); and the caches' totals have grown since the benchmark
began by the sums of what the workers have counted. At the join all lists are empty, and the
sums are the result. A sum is the size of a set with so many members for each summand
(`Total` in `Sums`); `Lemmas` proves of it by counting, without induction over data, what
the steps need: a sum changes as its one changed summand does (`TotalDiffers`), sums add
(`TotalAdds`), and sizes of disjoint sets add up to that of their union (`TotalOfSizes`,
with which the used slots of all slabs are as many as the ids).

### The mmap manager: `MMapProofs`

All that the run `MMap` checks, for every width, limit, page size and request that
`MMapAssumption` allows: addresses are a whole number of pages, the base is page-aligned,
and twice the limit is below the width, which holds of 4096 and 2^64 and is where sums of
lengths within the limit cannot wrap.

| Theorem | States |
|---|---|
| `TypeCorrect` | `Spec => []TypeOK` |
| `RegionsStayApart` | `Spec => []RegionsApart` |
| `PagesHaveOneAnswer` | `Spec => []PagesUniform` |
| `CallsConcernOneRegion` | `Spec => OneRegionChanges` |

`TypeOK` says more than the types of the code, which hold by themselves: lengths are whole
pages, and so is the next address. `Typed` is the part without pages.

`RegionsApart` is inductive with `Typed`: a region that `do_mmap` places
begins where the next address was, behind all that it placed before, and one at a fixed
address was compared with all. `PagesUniform` is not; it rests on
`PagesInv`, the part of `TypeOK` about pages, which stays true after a sum that wrapped
(`PagesKept`, `PlusPages`), and `PageOnOneSide` says that then no boundary divides a page. For
`OneRegionChanges`, `OtherAddressesSame` says that a region that has not the address has
no part in the answers about it.

### Only model-checked

* `BenchmarkEnds`: liveness and fairness are out of the prover's reach. Every other property
  of a passing run is the statement of a theorem.
* The four runs that show a disagreement, and with them that the hypotheses of the theorems
  are needed.

Induction theorems of the library take an operator as a parameter, which the installed
provers cannot instantiate. Where a proof needs induction over numbers (powers of two,
merges over several orders), `Lemmas` has `Induct`, which is about a set of numbers
instead of a predicate, and is proved from the well-foundedness of the numbers; and the
models use closed forms instead of recursion.

## 5. What is not modelled

* `release_frame`, `reset_stats` of the MMU and of the caches, `clear` of the tree:
  nothing calls them.
* Hit rates, counts that are only printed (page walks, totals of `mmap`), visualization,
  parsing of commands, reading and generating traces: no state of a component depends on
  them. The trace benchmark makes one call after the other, in orders that the sequential
  instances cover.
* The simulated files of `mmap` and the permission to execute: no answer to the MMU
  depends on them.
* The choice of the current allocator: each numbers its own blocks, and the modules take
  any id.
* The linear and the buddy allocator under the benchmarks' workers: one mutex makes each
  of their calls atomic, and their instances take the calls in any order.
* `cache_stress` with addresses in frames nobody owns, together with the MMU: it goes
  past `translate` on purpose. `CacheHierarchy` has its requests, `Pipeline` has not.
* Sizes near 2^64 in `BuddyAllocator::init`: outside of the model's small numbers;
  listed as a hazard.

## 6. Plan

Done, in this order: `VirtualMemory` with its history, abstraction and proofs; the
allocator promise and the three allocators; the cache hierarchy; the slab allocator's
callers; the pipeline from `translate` to the caches, in place of what `cached` only
stands for; the tree of page tables; the mmap regions and their proofs; the spin lock
and its proof; the refinement of `DemandPaging`; the proofs of the three allocators,
their promise and the benchmark's blocks; those of the caches and of the pipeline; those
of the policies against the accesses, of the benchmark's counts, and of the tree.

What could follow:

1. The caches with several threads: which of the properties of one thread still hold of
   the sets that only one of them uses.
2. `release_frame` and `clear`, should something come to call them.
