---------------------------- MODULE CacheHierarchy ----------------------------
(***************************************************************************)
(* The three cache levels of src/Cache.cpp and the requests that go        *)
(* through them.  A level is set-associative, with blocks, sets and ways   *)
(* of its own; each set has a spin lock that access(), insert() and        *)
(* invalidate() hold throughout, so that each such call is atomic and a    *)
(* request is the sequence of the calls it makes.                          *)
(*                                                                         *)
(* Addresses count the blocks of the smallest size.  A line's tag and set  *)
(* are the number of its block.  The caches hold no data: unsaved has the  *)
(* addresses whose last write has not gone to memory.  It and recent are   *)
(* history variables: the code has neither, and no step depends on them.   *)
(***************************************************************************)
EXTENDS StdList

CONSTANTS
  Threads,
  BlockSize, NumSets, Associativity,   \* of the levels 1, 2 and 3
  Addresses,     \* the addresses requested
  PageSize, FrameStarts, \* the size and the starts of the ranges evict_page invalidates
  Policies,      \* the policies the user selects
  MaxRequests    \* bound on the requests, and so on the counters

Levels == 1 .. 3

ASSUME CacheAssumption ==
  /\ {BlockSize, NumSets, Associativity} \subseteq [Levels -> Nat \ {0}]
  /\ PageSize \in Nat \ {0}
  /\ \A l \in Levels : PageSize % BlockSize[l] = 0
  /\ \A l \in {2, 3} : BlockSize[l] % BlockSize[l - 1] = 0
  /\ Addresses \subseteq Nat
  /\ FrameStarts \subseteq Nat /\ \A start \in FrameStarts : start % PageSize = 0
  /\ Policies # {} /\ Policies \subseteq {"LRU", "FIFO", "LFU"}
  /\ MaxRequests \in Nat

VARIABLES
  lines,           \* the lines of each level, by set and way
  access_counter, policy,
  recent,          \* the blocks each level was asked for, the latest first
  unsaved,
  pc, req,         \* what each thread does next, for which request
  requests         \* how many were made

vars == <<lines, access_counter, policy, recent, unsaved, pc, req, requests>>

Line == [valid : BOOLEAN, dirty : BOOLEAN, block : Nat,
         last_access_time : Nat, insertion_time : Nat, freq : Nat]

NoLine == [valid |-> FALSE, dirty |-> FALSE, block |-> 0,
           last_access_time |-> 0, insertion_time |-> 0, freq |-> 0]

\* evicted and ev_dirty are the request's ev_addr and ev_dirty.
NoRequest == [address |-> 0, write |-> FALSE, evicted |-> 0, ev_dirty |-> FALSE]

Sets(l) == 0 .. NumSets[l] - 1
Ways(l) == 0 .. Associativity[l] - 1

Init ==
  /\ lines = [l \in Levels |-> [s \in Sets(l) |-> [w \in Ways(l) |-> NoLine]]]
  /\ access_counter = [l \in Levels |-> 0]
  /\ policy \in Policies
  /\ recent = [l \in Levels |-> <<>>]
  /\ unsaved = {}
  /\ pc = [t \in Threads |-> "idle"]
  /\ req = [t \in Threads |-> NoRequest]
  /\ requests = 0

-----------------------------------------------------------------------------
(* CacheLevel                                                              *)

Block(l, a) == a \div BlockSize[l]
SetOf(l, a) == Block(l, a) % NumSets[l]
LineAt(l, a, w) == lines[l][SetOf(l, a)][w]

Holds(l, a, w) == LineAt(l, a, w).valid /\ LineAt(l, a, w).block = Block(l, a)
FirstHolding(l, a, w) ==
  Holds(l, a, w) /\ \A x \in Ways(l) : x < w => ~Holds(l, a, x)
Has(l, a) == \E w \in Ways(l) : Holds(l, a, w)

\* access_counter++ is guarded by the lock of one set only: with another request
\* under way, in another set, the increment may be lost.  That the other one may
\* also increment it before the stamp is read is left out: what is said of the
\* stamps is said of one thread.
Count(t, l, a) ==
  \/ access_counter' = [access_counter EXCEPT ![l] = @ + 1]
  \/ (\E u \in Threads \ {t} : pc[u] # "idle") /\ UNCHANGED access_counter

Asked(l, a) ==
  recent' = [recent EXCEPT ![l] = <<Block(l, a)>> \o Without(@, Block(l, a))]

Marked(line, time, write) ==
  [line EXCEPT !.last_access_time = time, !.freq = @ + 1, !.dirty = @ \/ write]

\* access(): a hit marks the line, a miss is only counted.
Access(t, l, a, write) ==
  /\ Count(t, l, a)
  /\ Asked(l, a)
  /\ lines' = [lines EXCEPT ![l][SetOf(l, a)] = [w \in Ways(l) |->
       IF FirstHolding(l, a, w) THEN Marked(@[w], access_counter'[l], write)
       ELSE @[w]]]

\* Faulty: least recently used is first loaded.
RankByLoad(line) == IF policy = "LFU" THEN line.freq ELSE line.insertion_time

Rank(line) ==
  CASE policy = "LRU"  -> line.last_access_time
    [] policy = "FIFO" -> line.insertion_time
    [] policy = "LFU"  -> line.freq

\* The way insert() takes: the first invalid one, else the first of least rank.
Victim(l, a) ==
  CHOOSE w \in Ways(l) :
    IF LineAt(l, a, w).valid
    THEN \A x \in Ways(l) :
           /\ LineAt(l, a, x).valid
           /\ Rank(LineAt(l, a, w)) <= Rank(LineAt(l, a, x))
           /\ x < w => Rank(LineAt(l, a, w)) < Rank(LineAt(l, a, x))
    ELSE \A x \in Ways(l) : x < w => LineAt(l, a, x).valid

Old(l, a) == LineAt(l, a, Victim(l, a))

\* insert(): the line is as dirty as the request makes it, whatever the level.
Insert(l, a, write) ==
  /\ lines' = [lines EXCEPT ![l][SetOf(l, a)][Victim(l, a)] =
       [valid |-> TRUE, dirty |-> write, block |-> Block(l, a),
        last_access_time |-> access_counter[l],
        insertion_time |-> access_counter[l], freq |-> 1]]
  /\ UNCHANGED <<access_counter, recent>>

DirtyIn(l, a) == \E w \in Ways(l) : FirstHolding(l, a, w) /\ LineAt(l, a, w).dirty

\* Faulty: a dirty line stays.
InvalidateClean(l, a) ==
  /\ lines' = [lines EXCEPT ![l][SetOf(l, a)] = [w \in Ways(l) |->
       IF FirstHolding(l, a, w) /\ ~@[w].dirty
       THEN [@[w] EXCEPT !.valid = FALSE] ELSE @[w]]]
  /\ UNCHANGED <<access_counter, recent>>

\* invalidate(), which answers DirtyIn(l, a).
Invalidate(l, a) ==
  /\ lines' = [lines EXCEPT ![l][SetOf(l, a)] = [w \in Ways(l) |->
       IF FirstHolding(l, a, w) THEN [@[w] EXCEPT !.valid = FALSE] ELSE @[w]]]
  /\ UNCHANGED <<access_counter, recent>>

-----------------------------------------------------------------------------
(* MemoryHierarchy::request.  A step has the name of the call it makes.    *)

Goto(t, next) == pc' = [pc EXCEPT ![t] = next]

At(t, here) == pc[t] = here /\ UNCHANGED <<policy, requests>>

SameRequest == UNCHANGED <<req, unsaved>>

\* The call probes level 1 first.
Start(t, a, write) ==
  /\ pc[t] = "idle"
  /\ requests < MaxRequests
  /\ requests' = requests + 1
  /\ req' = [req EXCEPT ![t] = [NoRequest EXCEPT !.address = a, !.write = write]]
  /\ unsaved' = IF write THEN unsaved \cup {a} ELSE unsaved
  /\ Access(t, 1, a, write)
  /\ Goto(t, IF Has(1, a) THEN "idle" ELSE "probe2")
  /\ UNCHANGED policy

Probe(t, l, hit, miss) ==
  /\ SameRequest
  /\ Access(t, l, req[t].address, req[t].write)
  /\ Goto(t, IF Has(l, req[t].address) THEN hit ELSE miss)

\* Faulty: a miss in level 2 goes to memory at once.
Probe2SkipsLevel3(t) == At(t, "probe2") /\ Probe(t, 2, "promote1", "fetch3")

Probe2(t) == At(t, "probe2") /\ Probe(t, 2, "promote1", "probe3")
Probe3(t) == At(t, "probe3") /\ Probe(t, 3, "promote2", "fetch3")

\* handle_writeback() to level l.
WriteBack(t, l, next) ==
  SameRequest /\ Access(t, l, req[t].evicted, TRUE) /\ Goto(t, next)

\* An insertion whose victim is not looked at.
Fill(t, l, next) ==
  SameRequest /\ Insert(l, req[t].address, req[t].write) /\ Goto(t, next)

\* insert() into level l; what it evicts is noted in the request.
InsertNoting(t, l) ==
  LET a == req[t].address IN
  /\ Insert(l, a, req[t].write)
  /\ req' = [req EXCEPT ![t].evicted = Old(l, a).block * BlockSize[l],
                        ![t].ev_dirty = Old(l, a).dirty]
  /\ UNCHANGED unsaved

\* A hit in level 2 fills level 1, whose dirty victim is written to level 2.
Promote1(t) ==
  LET old == Old(1, req[t].address) IN
  /\ At(t, "promote1")
  /\ InsertNoting(t, 1)
  /\ Goto(t, IF old.valid /\ old.dirty THEN "writeback2" ELSE "idle")

\* Faulty: the routing goes on.
WriteBack2Again(t) == At(t, "writeback2") /\ WriteBack(t, 2, "writeback2")

WriteBack2(t) == At(t, "writeback2") /\ WriteBack(t, 2, "idle")

\* A hit in level 3 fills level 2; level 1 gives up the victim's first block.
Promote2(t) ==
  /\ At(t, "promote2")
  /\ InsertNoting(t, 2)
  /\ Goto(t, IF Old(2, req[t].address).valid THEN "back1" ELSE "fill1")

Back1(t) ==
  /\ At(t, "back1") /\ SameRequest
  /\ Invalidate(1, req[t].evicted)
  /\ Goto(t, IF req[t].ev_dirty \/ DirtyIn(1, req[t].evicted)
             THEN "writeback3" ELSE "fill1")

WriteBack3(t) == At(t, "writeback3") /\ WriteBack(t, 3, "fill1")

\* A miss everywhere fills level 3; the levels above give up the victim's first
\* block, level 1 only if level 2 had no dirty one.
Fetch3(t) ==
  /\ At(t, "fetch3")
  /\ InsertNoting(t, 3)
  /\ Goto(t, IF Old(3, req[t].address).valid THEN "back2" ELSE "fill2")

\* A dirty victim of level 3 goes to memory: to the caches that is no call.
Saved(t, dirty) ==
  unsaved' = IF dirty
             THEN {a \in unsaved : Block(3, a) # Block(3, req[t].evicted)}
             ELSE unsaved

Back2(t) ==
  LET dirty == DirtyIn(2, req[t].evicted) IN
  /\ At(t, "back2")
  /\ Invalidate(2, req[t].evicted)
  /\ Saved(t, dirty)
  /\ Goto(t, IF dirty THEN "fill2" ELSE "back1of3")
  /\ UNCHANGED req

Back1Of3(t) ==
  /\ At(t, "back1of3")
  /\ Invalidate(1, req[t].evicted)
  /\ Saved(t, req[t].ev_dirty \/ DirtyIn(1, req[t].evicted))
  /\ Goto(t, "fill2")
  /\ UNCHANGED req

Fill2(t) == At(t, "fill2") /\ Fill(t, 2, "fill1")
Fill1(t) == At(t, "fill1") /\ Fill(t, 1, "idle")

Request(t) ==
  \/ \E a \in Addresses, write \in BOOLEAN : Start(t, a, write)
  \/ Probe2(t) \/ Probe3(t)
  \/ Promote1(t) \/ WriteBack2(t)
  \/ Promote2(t) \/ Back1(t) \/ WriteBack3(t)
  \/ Fetch3(t) \/ Back2(t) \/ Back1Of3(t)
  \/ Fill2(t) \/ Fill1(t)

-----------------------------------------------------------------------------
(* invalidate_physical_range, called by evict_page under page_table_mutex:  *)
(* one range at a time, level by level, block by block.                     *)

RangeStep(l) == <<"range1", "range2", "range3">>[l]
InRange(t) == \E l \in Levels : pc[t] = RangeStep(l)

\* evict_page counts a write-back of the page, if it was written, right after
\* the range is invalidated, whatever the lines answered of being dirty: here
\* nothing of the page is unsaved from the start of the range on.
StartRange(t, start) ==
  /\ pc[t] = "idle"
  /\ \A u \in Threads : ~InRange(u)
  /\ req' = [req EXCEPT ![t] = [NoRequest EXCEPT !.address = start]]
  /\ unsaved' = unsaved \ (start .. start + PageSize - 1)
  /\ Goto(t, RangeStep(1))
  /\ UNCHANGED <<lines, access_counter, recent, policy, requests>>

\* Faulty: every level is searched by the steps of level 3.
InvalidateBlockCoarse(t, l) ==
  LET a    == req[t].address
      next == a + BlockSize[3]
      more == next % PageSize # 0
  IN
  /\ At(t, RangeStep(l))
  /\ Invalidate(l, a)
  /\ req' = [req EXCEPT ![t].address = IF more THEN next ELSE next - PageSize]
  /\ Goto(t, IF more THEN pc[t] ELSE IF l < 3 THEN RangeStep(l + 1) ELSE "idle")
  /\ UNCHANGED unsaved

InvalidateBlock(t, l) ==
  LET a    == req[t].address
      next == a + BlockSize[l]
      more == next % PageSize # 0
  IN
  /\ At(t, RangeStep(l))
  /\ Invalidate(l, a)
  /\ req' = [req EXCEPT ![t].address = IF more THEN next ELSE next - PageSize]
  /\ Goto(t, IF more THEN pc[t] ELSE IF l < 3 THEN RangeStep(l + 1) ELSE "idle")
  /\ UNCHANGED unsaved

InvalidateRange(t) ==
  \/ \E start \in FrameStarts : StartRange(t, start)
  \/ \E l \in Levels : InvalidateBlock(t, l)

\* "set cache_policy", between two requests.
SetPolicy(p) ==
  /\ \A t \in Threads : pc[t] = "idle"
  /\ policy' = p
  /\ UNCHANGED <<lines, access_counter, recent, unsaved, pc, req, requests>>

Next ==
  \/ \E t \in Threads : Request(t) \/ InvalidateRange(t)
  \/ \E p \in Policies : SetPolicy(p)

Spec == Init /\ [][Next]_vars

-----------------------------------------------------------------------------
(* Properties                                                              *)

\* Every variable has its type.
TypeOK ==
  /\ \A l \in Levels : \A s \in Sets(l) : lines[l][s] \in [Ways(l) -> Line]
  /\ access_counter \in [Levels -> 0 .. 2 * MaxRequests]
  /\ \A l \in Levels : recent[l] \in Seq(Nat)
  /\ policy \in Policies /\ requests \in 0 .. MaxRequests
  /\ unsaved \subseteq Addresses
  /\ req \in [Threads -> [address : Nat, write : BOOLEAN,
                          evicted : Nat, ev_dirty : BOOLEAN]]

\* A block has at most one line in a level.  A second one would hide the first
\* from access() and survive invalidate(), which both stop at the first match;
\* that insert() adds none rests on the request having missed before it.
NoDuplicates ==
  \A l \in Levels : \A s \in Sets(l) : \A v, w \in Ways(l) :
    /\ v # w
    /\ lines[l][s][v].valid /\ lines[l][s][w].valid
    => lines[l][s][v].block # lines[l][s][w].block

\* With the policy LRU, the line that makes room is, of those of its set, the
\* one whose block the level was asked for least recently: by a probe, by a
\* promotion or by a write-back from the level above.
LRUEvictsLeastRecent ==
  [][policy = "LRU" =>
       \A l \in Levels : \A s \in Sets(l) : \A w \in Ways(l) :
         LET old == lines[l][s][w] IN
         old.valid /\ lines'[l][s][w].block # old.block =>
           \A x \in Ways(l) \ {w} :
             LET kept == lines[l][s][x] IN
             \E i, j \in DOMAIN recent[l] :
               i < j /\ recent[l][i] = kept.block /\ recent[l][j] = old.block]_vars

\* When evict_page's invalidation returns, no level has a valid line of any of
\* the page's blocks, and their sizes differ from level to level.
RangeGone ==
  [][\A t \in Threads :
       InRange(t) /\ pc'[t] = "idle" =>
         \A l \in Levels : \A s \in Sets(l) : \A w \in Ways(l) :
           LET line == lines'[l][s][w] IN
           line.valid => (line.block * BlockSize[l]) \div PageSize
                           # req[t].address \div PageSize]_vars

\* "Propagates evicted dirty lines down to lower cache levels" (Cache.h:93): when
\* no request is under way, what was written and is not in memory is in a dirty
\* line of some level.
NothingLost ==
  (\A t \in Threads : pc[t] = "idle") =>
    \A a \in unsaved : \E l \in Levels : DirtyIn(l, a)

=============================================================================
