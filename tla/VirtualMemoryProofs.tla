------------------------- MODULE VirtualMemoryProofs -------------------------
(***************************************************************************)
(* What holds of VirtualMemory for every number of pages, frames, TLB sets *)
(* and ways, and every number of accesses.                                 *)
(***************************************************************************)
EXTENDS VirtualMemoryRefinement, VirtualMemoryHistory, Lemmas

Tables   == [{"flat", "multi"} -> [Vpns -> PageTableEntry]]
TLBs     == [Sets -> [Ways -> TLBEntry]]
Answered == [thread : Threads, vpn : Vpns, frame : Frames]

\* A table whose valid entries hold frames.
Sound(pt) ==
  /\ pt \in Tables
  /\ \A m \in {"flat", "multi"}, v \in Vpns :
       pt[m][v].valid => pt[m][v].frame \in Frames

\* TypeOK is not inductive: an answer from the table is a frame only because a
\* valid entry holds one.
TypeInv ==
  /\ mode \in Modes /\ policy \in Policies
  /\ Sound(page_table)
  /\ frame_table \in [Frames -> Int]
  /\ free_frames \in Seq(Frames)
  /\ clock_hand \in Frames
  /\ tlb \in TLBs
  /\ timer \in Nat /\ access_counter \in Nat
  /\ page_faults \in Nat /\ page_hits \in Nat /\ disk_accesses \in Nat
  /\ region \in [Vpns -> Protections]
  /\ inflight \subseteq Answered
  /\ cached \subseteq [frame : Frames, vpn : Vpns]

LEMMA FramesNat == Frames \subseteq Nat /\ Frames # {} /\ 0 \in Frames
<1>1. 0 \in Frames
  BY SizesAssumption DEF Frames
<1> QED
  BY <1>1 DEF Frames

LEMMA SetOfType == \A v \in Nat : SetOf(v) \in Sets
BY SizesAssumption DEF SetOf, Sets

LEMMA ToIntType == \A v \in Nat : ToInt(v) \in Int
BY SizesAssumption DEF ToInt

LEMMA ModeType == Modes \subseteq {"flat", "multi"}
BY ChoicesAssumption

LEMMA InitType == Init => TypeInv
<1> SUFFICES ASSUME Init PROVE TypeInv
  OBVIOUS
<1>1. page_table \in Tables
  BY DEF Init, Tables, NoPage, PageTableEntry
<1>2. tlb \in [Sets -> [Ways -> TLBEntry]]
  BY FramesNat DEF Init, NoEntry, TLBEntry
<1>3. free_frames \in Seq(Frames)
  BY SizesAssumption DEF Init, Frames
<1>4. region \in [Vpns -> Protections]
  BY DEF Init, Protections
<1>5. frame_table \in [Frames -> Int] /\ clock_hand \in Frames
  BY FramesNat DEF Init
<1>6. Sound(page_table)
  BY <1>1 DEF Init, Sound, NoPage
<1> QED
  BY <1>2, <1>3, <1>4, <1>5, <1>6 DEF Init, TypeInv, TLBs

\* The operators on the tables and on the TLB keep them well typed.
LEMMA UpdateAt ==
  ASSUME NEW pt \in Tables, NEW m \in {"flat", "multi"}, NEW v, NEW e
  PROVE  \A u \in Vpns :
           [pt EXCEPT ![m][v] = e][m][u] = IF u = v THEN e ELSE pt[m][u]
BY DEF Tables

LEMMA UpdateSound ==
  ASSUME NEW pt, Sound(pt), NEW m \in {"flat", "multi"}, NEW v, NEW e,
         v \in Vpns => e \in PageTableEntry /\ (e.valid => e.frame \in Frames)
  PROVE  Sound([pt EXCEPT ![m][v] = e])
<1> DEFINE new == [pt EXCEPT ![m][v] = e]
<1>1. [pt[m] EXCEPT ![v] = e] \in [Vpns -> PageTableEntry]
  BY DEF Sound, Tables
<1>2. new \in Tables
  BY <1>1 DEF Sound, Tables
<1>3. ASSUME NEW n \in {"flat", "multi"}, NEW u \in Vpns
      PROVE  new[n][u] = IF n = m /\ u = v THEN e ELSE pt[n][u]
  BY DEF Sound, Tables
<1> QED
  BY <1>2, <1>3 DEF Sound

LEMMA TouchedSound ==
  ASSUME TypeInv, NEW v \in Vpns, NEW write \in BOOLEAN, NEW now \in Nat
  PROVE  Sound(Touched(mode, v, write, now))
<1> DEFINE used == [page_table[mode][v] EXCEPT !.last_access = now,
                                               !.referenced = TRUE]
           e == IF write THEN [used EXCEPT !.dirty = TRUE] ELSE used
<1>1. mode \in {"flat", "multi"} /\ page_table \in Tables
  BY ModeType DEF TypeInv, Sound, Tables
<1>2. page_table[mode][v] \in PageTableEntry
  BY <1>1 DEF Tables
<1>3. e \in PageTableEntry /\ e.valid = page_table[mode][v].valid
      /\ e.frame = page_table[mode][v].frame
  BY <1>2 DEF PageTableEntry
<1>4. Touched(mode, v, write, now) \in
        {page_table, [page_table EXCEPT ![mode][v] = e]}
  BY DEF Touched
<1>5. Sound(page_table) /\ (e.valid => e.frame \in Frames)
  BY <1>1, <1>3 DEF TypeInv, Sound
<1> HIDE DEF e
<1>6. Sound([page_table EXCEPT ![mode][v] = e])
  BY <1>1, <1>3, <1>5, UpdateSound
<1> QED
  BY <1>4, <1>5, <1>6

LEMMA WithMappingSound ==
  ASSUME NEW pt, Sound(pt), NEW m \in {"flat", "multi"}, NEW v \in Vpns,
         NEW f \in Frames, NEW write \in BOOLEAN, NEW now \in Nat
  PROVE  Sound(WithMapping(pt, m, v, f, write, now))
BY DEF Sound, Tables, WithMapping, PageTableEntry

LEMMA WithoutMappingSound ==
  ASSUME NEW pt, Sound(pt), NEW m \in {"flat", "multi"}, NEW v
  PROVE  Sound(WithoutMapping(pt, m, v))
<1> DEFINE e == [pt[m][v] EXCEPT !.valid = FALSE]
           r == [pt[m][v] EXCEPT !.valid = FALSE, !.frame = -1,
                                 !.dirty = FALSE, !.referenced = FALSE]
<1>1. WithoutMapping(pt, m, v) \in
        {pt, [pt EXCEPT ![m][v] = e], [pt EXCEPT ![m][v] = r]}
  BY DEF WithoutMapping
<1>2. v \in Vpns => pt[m][v] \in PageTableEntry
  BY DEF Sound, Tables
<1>3. v \in Vpns => /\ e \in PageTableEntry /\ ~e.valid
                    /\ r \in PageTableEntry /\ ~r.valid
  BY <1>2 DEF PageTableEntry
<1> HIDE DEF e, r
<1>4. Sound([pt EXCEPT ![m][v] = e])
  BY <1>3, UpdateSound
<1>5. Sound([pt EXCEPT ![m][v] = r])
  BY <1>3, UpdateSound
<1> QED
  BY <1>1, <1>4, <1>5

LEMMA SweptSound ==
  ASSUME TypeInv, NEW k
  PROVE  Sound(Swept(k))
<1>1. mode \in {"flat", "multi"} /\ page_table \in Tables
  BY ModeType DEF TypeInv, Sound, Tables
<1>2. ASSUME NEW v \in Vpns
      PROVE  Swept(k)[mode][v] \in PageTableEntry
             /\ Swept(k)[mode][v].valid = page_table[mode][v].valid
             /\ Swept(k)[mode][v].frame = page_table[mode][v].frame
  <2>1. page_table[mode][v] \in PageTableEntry
    BY <1>1 DEF Tables
  <2>2. Swept(k)[mode][v] \in
          {page_table[mode][v],
           [page_table[mode][v] EXCEPT !.referenced = FALSE]}
    BY <1>1 DEF Swept, Tables
  <2> QED
    BY <2>1, <2>2 DEF PageTableEntry
<1>3. Swept(k) \in Tables
  <2> DEFINE swept == [v \in Vpns |-> Swept(k)[mode][v]]
  <2>1. swept \in [Vpns -> PageTableEntry]
    BY <1>2
  <2>2. Swept(k) = [page_table EXCEPT ![mode] = swept]
    BY <1>1 DEF Swept, Tables
  <2> QED
    BY <1>1, <2>1, <2>2 DEF Tables
<1>4. \A m \in {"flat", "multi"} : m # mode => Swept(k)[m] = page_table[m]
  BY <1>1 DEF Swept, Tables
<1> QED
  BY <1>1, <1>2, <1>3, <1>4 DEF Sound, TypeInv

LEMMA InvalidatedType ==
  ASSUME NEW tb \in [Sets -> [Ways -> TLBEntry]], NEW v
  PROVE  Invalidated(tb, v) \in [Sets -> [Ways -> TLBEntry]]
<1>1. CASE SetOf(v) \in Sets
  <2> DEFINE e(w) == IF FirstMatch(tb, v, w)
                       THEN [tb[SetOf(v)][w] EXCEPT !.valid = FALSE]
                       ELSE tb[SetOf(v)][w]
  <2>1. ASSUME NEW w \in Ways PROVE e(w) \in TLBEntry
    <3>1. tb[SetOf(v)][w] \in TLBEntry
      BY <1>1
    <3>2. [tb[SetOf(v)][w] EXCEPT !.valid = FALSE] \in TLBEntry
      BY <3>1 DEF TLBEntry
    <3> QED
      BY <3>1, <3>2
  <2>2. [w \in Ways |-> e(w)] \in [Ways -> TLBEntry]
    BY <2>1
  <2>3. Invalidated(tb, v) = [tb EXCEPT ![SetOf(v)] = [w \in Ways |-> e(w)]]
    BY DEF Invalidated
  <2> HIDE DEF e
  <2> QED
    BY <2>2, <2>3
<1>2. CASE SetOf(v) \notin Sets
  BY <1>2 DEF Invalidated
<1> QED
  BY <1>1, <1>2

LEMMA InsertedType ==
  ASSUME NEW tb \in [Sets -> [Ways -> TLBEntry]], NEW v \in Nat,
         NEW f \in Frames, NEW w \in Ways, NEW now \in Nat
  PROVE  Inserted(tb, v, f, w, now) \in [Sets -> [Ways -> TLBEntry]]
BY SetOfType DEF Inserted, TLBEntry

LEMMA AccessType ==
  ASSUME TypeInv, NEW t \in Threads, NEW v \in Vpns, NEW write \in BOOLEAN,
         Access(t, v, write)
  PROVE  /\ access_counter' \in Nat /\ timer' \in Nat
         /\ mode' \in Modes /\ policy' \in Policies
         /\ region' \in [Vpns -> Protections]
         /\ mode' = mode /\ mode \in {"flat", "multi"}
BY ModeType DEF TypeInv, Access, settings

LEMMA HandAtType == TypeInv => \A k \in Nat : HandAt(k) \in Frames
BY SizesAssumption DEF TypeInv, HandAt, Frames

LEMMA LoadType ==
  ASSUME TypeInv, NEW t \in Threads, NEW v \in Vpns, NEW write \in BOOLEAN,
         NEW f \in Frames, NEW pt, Sound(pt), NEW tb \in TLBs,
         access_counter' \in Nat, timer' \in Nat,
         Load(t, v, write, f, pt, tb)
  PROVE  /\ Sound(page_table')
         /\ frame_table' \in [Frames -> Int]
         /\ tlb' \in TLBs
         /\ inflight' \subseteq Answered
<1>1. mode \in {"flat", "multi"} /\ v \in Nat
  BY ModeType, SizesAssumption DEF TypeInv
<1>2. Sound(page_table')
  BY <1>1, WithMappingSound DEF Load
<1>3. frame_table' \in [Frames -> Int]
  BY <1>1, ToIntType DEF TypeInv, Load
<1>4. tlb' \in TLBs
  BY <1>1, InsertedType DEF Load, TLBs
<1>5. inflight' \subseteq Answered
  BY DEF TypeInv, Load, Return, Answered
<1> QED
  BY <1>2, <1>3, <1>4, <1>5

LEMMA EvictAndLoadType ==
  ASSUME TypeInv, NEW t \in Threads, NEW v \in Vpns, NEW write \in BOOLEAN,
         NEW f \in Frames, NEW pt, Sound(pt),
         access_counter' \in Nat, timer' \in Nat,
         EvictAndLoad(t, v, write, f, pt)
  PROVE  /\ Sound(page_table')
         /\ frame_table' \in [Frames -> Int]
         /\ tlb' \in TLBs
         /\ inflight' \subseteq Answered
         /\ free_frames' \in Seq(Frames)
         /\ cached' \subseteq [frame : Frames, vpn : Vpns]
         /\ disk_accesses' \in Nat
<1> DEFINE old == frame_table[f]
           wo  == WithoutMapping(pt, mode, old)
           inv == Invalidated(tlb, old)
<1>1. Sound(wo)
  BY ModeType, WithoutMappingSound DEF TypeInv
<1>2. inv \in TLBs
  BY InvalidatedType DEF TypeInv, TLBs
<1>3. Load(t, v, write, f, wo, inv)
  BY DEF EvictAndLoad
<1> HIDE DEF wo, inv
<1>4. /\ Sound(page_table') /\ frame_table' \in [Frames -> Int]
      /\ tlb' \in TLBs /\ inflight' \subseteq Answered
  BY <1>1, <1>2, <1>3, LoadType
<1>5. /\ free_frames' \in Seq(Frames)
      /\ cached' \subseteq [frame : Frames, vpn : Vpns]
      /\ disk_accesses' \in Nat
  BY DEF TypeInv, EvictAndLoad
<1> QED
  BY <1>4, <1>5

LEMMA TranslateType ==
  ASSUME TypeInv, NEW t \in Threads, NEW v \in Vpns, NEW write \in BOOLEAN,
         Translate(t, v, write)
  PROVE  TypeInv'
<1>1. Access(t, v, write)
  BY DEF Translate, TranslateTLBHit, TranslateTableHit, TranslateFaultFree,
         TranslateFaultOldest, TranslateFaultClock, TranslateNoFrame, Fault
<1>2. /\ access_counter' \in Nat /\ timer' \in Nat
      /\ mode' \in Modes /\ policy' \in Policies
      /\ region' \in [Vpns -> Protections]
      /\ mode' = mode /\ mode \in {"flat", "multi"} /\ v \in Nat
  BY <1>1, AccessType, SizesAssumption
<1>3. CASE TranslateTLBHit(t, v, write)
  <2>1. PICK w \in Ways :
          /\ tlb' = [tlb EXCEPT ![SetOf(v)][w].last_access = timer']
          /\ Return(t, v, tlb[SetOf(v)][w].pfn)
    BY <1>3 DEF TranslateTLBHit
  <2>2. tlb[SetOf(v)][w] \in TLBEntry
    BY <1>2, SetOfType DEF TypeInv, TLBs
  <2>3. tlb' \in TLBs
    BY <1>2, <2>1, <2>2, SetOfType DEF TypeInv, TLBs, TLBEntry
  <2>4. inflight' \subseteq Answered
    BY <2>1, <2>2 DEF TypeInv, Return, Answered, TLBEntry
  <2>5. Sound(page_table')
    BY <1>2, <1>3, TouchedSound DEF TranslateTLBHit
  <2> QED
    BY <1>2, <1>3, <2>3, <2>4, <2>5 DEF TypeInv, TranslateTLBHit
<1>4. CASE TranslateTableHit(t, v, write)
  <2> DEFINE f == page_table[mode][v].frame
  <2>1. f \in Frames
    BY <1>2, <1>4 DEF TypeInv, TranslateTableHit, Mapped, Sound
  <2>2. tlb' \in TLBs
    <3>1. PICK w \in Ways : tlb' = Inserted(tlb, v, f, w, timer')
      BY <1>4 DEF TranslateTableHit
    <3>2. tlb \in [Sets -> [Ways -> TLBEntry]]
      BY DEF TypeInv, TLBs
    <3> HIDE DEF f
    <3>3. Inserted(tlb, v, f, w, timer') \in [Sets -> [Ways -> TLBEntry]]
      BY <1>2, <2>1, <3>2, InsertedType
    <3> QED
      BY <3>1, <3>3 DEF TLBs
  <2>3. inflight' \subseteq Answered
    BY <1>4, <2>1 DEF TypeInv, TranslateTableHit, Return, Answered
  <2>4. Sound(page_table')
    BY <1>2, <1>4, TouchedSound DEF TranslateTableHit
  <2> QED
    BY <1>2, <1>4, <2>2, <2>3, <2>4 DEF TypeInv, TranslateTableHit
<1>5. CASE TranslateFaultFree(t, v, write)
  <2>1. Head(free_frames) \in Frames /\ free_frames' \in Seq(Frames)
    BY <1>5 DEF TypeInv, TranslateFaultFree
  <2>2. /\ Sound(page_table') /\ frame_table' \in [Frames -> Int]
        /\ tlb' \in TLBs /\ inflight' \subseteq Answered
    BY <1>2, <1>5, <2>1, LoadType DEF TypeInv, TranslateFaultFree
  <2> QED
    BY <1>2, <1>5, <2>1, <2>2
    DEF TypeInv, TranslateFaultFree, Fault
<1>6. CASE TranslateFaultOldest(t, v, write)
  <2>1. PICK f \in Frames : EvictAndLoad(t, v, write, f, page_table)
    BY <1>6 DEF TranslateFaultOldest
  <2>2. /\ Sound(page_table') /\ frame_table' \in [Frames -> Int]
        /\ tlb' \in TLBs /\ inflight' \subseteq Answered
        /\ free_frames' \in Seq(Frames)
        /\ cached' \subseteq [frame : Frames, vpn : Vpns]
        /\ disk_accesses' \in Nat
    BY <1>2, <2>1, EvictAndLoadType DEF TypeInv
  <2>3. page_faults' \in Nat /\ page_hits' \in Nat /\ clock_hand' \in Frames
    BY <1>6 DEF TypeInv, TranslateFaultOldest, Fault
  <2> QED
    BY <1>2, <2>2, <2>3 DEF TypeInv
<1>7. CASE TranslateFaultClock(t, v, write)
  <2>1. PICK k \in 0 .. 2 * NumFrames - 1 :
          /\ EvictAndLoad(t, v, write, HandAt(k), Swept(k))
          /\ clock_hand' = HandAt(k + 1)
    BY <1>7 DEF TranslateFaultClock
  <2>2. k \in Nat /\ HandAt(k) \in Frames /\ HandAt(k + 1) \in Frames
    BY HandAtType, SizesAssumption
  <2>3. Sound(Swept(k))
    BY SweptSound
  <2>4. /\ Sound(page_table') /\ frame_table' \in [Frames -> Int]
        /\ tlb' \in TLBs /\ inflight' \subseteq Answered
        /\ free_frames' \in Seq(Frames)
        /\ cached' \subseteq [frame : Frames, vpn : Vpns]
        /\ disk_accesses' \in Nat
    BY <1>2, <2>1, <2>2, <2>3, EvictAndLoadType
  <2>5. page_faults' \in Nat /\ page_hits' \in Nat
    BY <1>7 DEF TypeInv, TranslateFaultClock, Fault
  <2> QED
    BY <1>2, <2>1, <2>2, <2>4, <2>5 DEF TypeInv
<1>8. CASE TranslateNoFrame(t, v, write)
  BY <1>2, <1>8 DEF TypeInv, TranslateNoFrame, Fault
<1> QED
  BY <1>3, <1>4, <1>5, <1>6, <1>7, <1>8 DEF Translate

LEMMA TypeStep == TypeInv /\ [Next]_vars => TypeInv'
<1> SUFFICES ASSUME TypeInv, [Next]_vars PROVE TypeInv'
  OBVIOUS
<1>1. ASSUME NEW t \in Threads, NEW v \in Vpns, NEW write \in BOOLEAN,
             Translate(t, v, write)
      PROVE  TypeInv'
  BY <1>1, TranslateType
<1>2. ASSUME NEW t \in Threads, Request(t) PROVE TypeInv'
  BY <1>2 DEF TypeInv, Request, settings, Answered
<1>3. ASSUME NEW p \in Policies, SetReplacementPolicy(p) PROVE TypeInv'
  BY <1>3 DEF TypeInv, SetReplacementPolicy, Command
<1>4. ASSUME NEW m \in Modes, SetMultiLevelPaging(m) PROVE TypeInv'
  BY <1>4 DEF TypeInv, SetMultiLevelPaging, Command
<1>5. ASSUME NEW v \in RegionPages, NEW prot \in Protections,
             ChangeRegion(v, prot)
      PROVE  TypeInv'
  BY <1>5 DEF TypeInv, ChangeRegion, Command
<1>6. CASE UNCHANGED vars
  BY <1>6 DEF TypeInv, vars
<1> QED
  BY <1>1, <1>2, <1>3, <1>4, <1>5, <1>6 DEF Next

\* Every variable has its type in every reachable state, whatever the modes
\* and the page numbers: in particular translate() never answers with -1 as a
\* frame, and the clock hand stays in the frame table.
THEOREM TypeCorrect == Spec => []TypeOK
<1>1. TypeInv => TypeOK
  BY DEF TypeInv, TypeOK, Sound, Tables, TLBs, Answered
<1> QED
  BY <1>1, InitType, TypeStep, PTL DEF Spec

-----------------------------------------------------------------------------
(* Protection, with any mix of modes and whatever the page numbers.        *)

\* The entries of pt that are dirty: a table that has no more of them.
NoMoreDirty(pt, qt) ==
  \A m \in Modes, u \in Vpns : qt[m][u].dirty => pt[m][u].dirty

LEMMA TouchedDirty ==
  ASSUME TypeInv, NEW v \in Vpns, NEW write \in BOOLEAN, NEW now,
         NEW m \in Modes, NEW u \in Vpns,
         Touched(mode, v, write, now)[m][u].dirty, ~page_table[m][u].dirty
  PROVE  u = v /\ write
<1> DEFINE used == [page_table[mode][v] EXCEPT !.last_access = now,
                                               !.referenced = TRUE]
           e == IF write THEN [used EXCEPT !.dirty = TRUE] ELSE used
<1>1. mode \in {"flat", "multi"} /\ m \in {"flat", "multi"} /\ page_table \in Tables
  BY ModeType DEF TypeInv, Sound
<1>2. page_table[mode][v] \in PageTableEntry
  BY <1>1 DEF Tables
<1>3. ~write => e.dirty = page_table[mode][v].dirty
  BY <1>2 DEF PageTableEntry
<1>4. Touched(mode, v, write, now) \in
        {page_table, [page_table EXCEPT ![mode][v] = e]}
  BY DEF Touched
<1> HIDE DEF e
<1>5. [page_table EXCEPT ![mode][v] = e][m][u] =
         IF m = mode /\ u = v THEN e ELSE page_table[m][u]
  BY <1>1 DEF Tables
<1> QED
  BY <1>3, <1>4, <1>5

LEMMA WithMappingDirty ==
  ASSUME NEW pt, Sound(pt), NEW n \in {"flat", "multi"}, NEW v \in Vpns,
         NEW f, NEW write \in BOOLEAN, NEW now,
         NEW m \in Modes, NEW u \in Vpns,
         WithMapping(pt, n, v, f, write, now)[m][u].dirty, ~pt[m][u].dirty
  PROVE  u = v /\ write
<1> DEFINE e == [valid |-> TRUE, dirty |-> write, referenced |-> TRUE,
                 frame |-> f, last_access |-> now, load_time |-> now]
<1>1. m \in {"flat", "multi"} /\ pt \in Tables
  BY ModeType DEF Sound
<1>2. WithMapping(pt, n, v, f, write, now) \in
        {pt, [pt EXCEPT ![n][v] = e]}
  BY DEF WithMapping
<1>3. e.dirty = write
  OBVIOUS
<1> HIDE DEF e
<1>4. [pt EXCEPT ![n][v] = e][m][u] = IF m = n /\ u = v THEN e ELSE pt[m][u]
  BY <1>1 DEF Tables
<1> QED
  BY <1>2, <1>3, <1>4

LEMMA WithoutMappingDirty ==
  ASSUME NEW pt, Sound(pt), NEW n \in {"flat", "multi"}, NEW v
  PROVE  NoMoreDirty(pt, WithoutMapping(pt, n, v))
<1> SUFFICES ASSUME NEW m \in Modes, NEW u \in Vpns,
                    WithoutMapping(pt, n, v)[m][u].dirty
             PROVE  pt[m][u].dirty
  BY DEF NoMoreDirty
<1> DEFINE e == [pt[n][v] EXCEPT !.valid = FALSE]
           r == [pt[n][v] EXCEPT !.valid = FALSE, !.frame = -1,
                                 !.dirty = FALSE, !.referenced = FALSE]
<1>1. m \in {"flat", "multi"} /\ pt \in Tables
  BY ModeType DEF Sound
<1>2. WithoutMapping(pt, n, v) \in
        {pt, [pt EXCEPT ![n][v] = e], [pt EXCEPT ![n][v] = r]}
  BY DEF WithoutMapping
<1>3. v \in Vpns => e.dirty = pt[n][v].dirty /\ ~r.dirty
  BY <1>1 DEF Tables, PageTableEntry
<1> HIDE DEF e, r
<1>4. /\ [pt EXCEPT ![n][v] = e][m][u] = IF m = n /\ u = v THEN e ELSE pt[m][u]
      /\ [pt EXCEPT ![n][v] = r][m][u] = IF m = n /\ u = v THEN r ELSE pt[m][u]
  BY <1>1 DEF Tables
<1> QED
  BY <1>2, <1>3, <1>4

LEMMA SweptDirty ==
  ASSUME TypeInv, NEW k
  PROVE  NoMoreDirty(page_table, Swept(k))
<1> SUFFICES ASSUME NEW m \in Modes, NEW u \in Vpns
             PROVE  Swept(k)[m][u].dirty = page_table[m][u].dirty
  BY DEF NoMoreDirty
<1>1. mode \in {"flat", "multi"} /\ m \in {"flat", "multi"} /\ page_table \in Tables
  BY ModeType DEF TypeInv, Sound
<1>2. page_table[m][u] \in PageTableEntry
  BY <1>1 DEF Tables
<1>3. Swept(k)[m][u] \in
        {page_table[m][u], [page_table[m][u] EXCEPT !.referenced = FALSE]}
  BY <1>1 DEF Swept, Tables
<1> QED
  BY <1>2, <1>3 DEF PageTableEntry

LEMMA EvictAndLoadDirty ==
  ASSUME NEW t, NEW v \in Vpns, NEW write \in BOOLEAN, NEW f, NEW pt, Sound(pt),
         mode \in {"flat", "multi"}, EvictAndLoad(t, v, write, f, pt),
         NEW m \in Modes, NEW u \in Vpns,
         page_table'[m][u].dirty, ~pt[m][u].dirty
  PROVE  u = v /\ write
<1> DEFINE wo == WithoutMapping(pt, mode, frame_table[f])
<1>1. Sound(wo) /\ NoMoreDirty(pt, wo)
  BY WithoutMappingSound, WithoutMappingDirty
<1>2. page_table' = WithMapping(wo, mode, v, f, write, access_counter')
  BY DEF EvictAndLoad, Load
<1> HIDE DEF wo
<1>3. ~wo[m][u].dirty
  BY <1>1 DEF NoMoreDirty
<1> QED
  BY <1>1, <1>2, <1>3, WithMappingDirty

\* What makes a page dirty is a write to that page.
LEMMA TranslateDirty ==
  ASSUME TypeInv, NEW t \in Threads, NEW v \in Vpns, NEW write \in BOOLEAN,
         Translate(t, v, write), NEW m \in Modes, NEW u \in Vpns,
         page_table'[m][u].dirty, ~page_table[m][u].dirty
  PROVE  u = v /\ write
<1>1. mode \in {"flat", "multi"} /\ Sound(page_table)
  BY ModeType DEF TypeInv
<1>2. CASE TranslateTLBHit(t, v, write) \/ TranslateTableHit(t, v, write)
  BY <1>2, TouchedDirty DEF TranslateTLBHit, TranslateTableHit
<1>3. CASE TranslateFaultFree(t, v, write)
  BY <1>1, <1>3, WithMappingDirty DEF TranslateFaultFree, Load
<1>4. CASE TranslateFaultOldest(t, v, write)
  BY <1>1, <1>4, EvictAndLoadDirty DEF TranslateFaultOldest
<1>5. CASE TranslateFaultClock(t, v, write)
  <2>1. PICK k \in 0 .. 2 * NumFrames - 1 :
          EvictAndLoad(t, v, write, HandAt(k), Swept(k))
    BY <1>5 DEF TranslateFaultClock
  <2>2. Sound(Swept(k)) /\ ~Swept(k)[m][u].dirty
    BY SweptSound, SweptDirty DEF NoMoreDirty
  <2> QED
    BY <1>1, <2>1, <2>2, EvictAndLoadDirty
<1>6. CASE TranslateNoFrame(t, v, write)
  BY <1>6 DEF TranslateNoFrame
<1> QED
  BY <1>2, <1>3, <1>4, <1>5, <1>6 DEF Translate

\* A page becomes dirty only by a write that the protection of its region
\* allows when translate() serves it, whichever of its paths does: the TLB's
\* and the table's as well as the one through evict_page.
THEOREM ProtectionKept == Spec => WritesRespectProtection
<1>1. TypeInv /\ [Next]_vars
        => [\A v \in Vpns, m \in Modes :
              page_table'[m][v].dirty /\ ~page_table[m][v].dirty
                => region[v] = {} \/ "write" \in region[v]]_vars
  <2> SUFFICES ASSUME TypeInv, Next, NEW u \in Vpns, NEW m \in Modes,
                      page_table'[m][u].dirty, ~page_table[m][u].dirty
               PROVE  region[u] = {} \/ "write" \in region[u]
    OBVIOUS
  <2>1. ASSUME NEW t \in Threads, NEW v \in Vpns, NEW write \in BOOLEAN,
               Translate(t, v, write)
        PROVE  region[u] = {} \/ "write" \in region[u]
    <3>1. Accepted(v, write)
      BY <2>1 DEF Translate, TranslateTLBHit, TranslateTableHit,
         TranslateFaultFree, TranslateFaultOldest, TranslateFaultClock,
         TranslateNoFrame, Fault, Access
    <3>2. u = v /\ write
      BY <2>1, TranslateDirty
    <3> QED
      BY <3>1, <3>2 DEF Accepted, Permits
  <2>2. page_table' # page_table
    OBVIOUS
  <2> QED
    BY <2>1, <2>2 DEF Next, Request, SetReplacementPolicy, SetMultiLevelPaging,
                      ChangeRegion, Command
<1> QED
  BY <1>1, InitType, TypeStep, PTL DEF Spec, WritesRespectProtection

-----------------------------------------------------------------------------
(* Free frames, with any mix of modes and whatever the page numbers.       *)

LEMMA TouchedLeavesFrames ==
  ASSUME TypeInv, NEW v \in Vpns, NEW write \in BOOLEAN, NEW now,
         NEW m \in Modes, NEW u \in Vpns
  PROVE  /\ Touched(mode, v, write, now)[m][u].valid = page_table[m][u].valid
         /\ Touched(mode, v, write, now)[m][u].frame = page_table[m][u].frame
<1> DEFINE used == [page_table[mode][v] EXCEPT !.last_access = now,
                                               !.referenced = TRUE]
           e == IF write THEN [used EXCEPT !.dirty = TRUE] ELSE used
<1>1. mode \in {"flat", "multi"} /\ m \in {"flat", "multi"} /\ page_table \in Tables
  BY ModeType DEF TypeInv, Sound
<1>2. page_table[mode][v] \in PageTableEntry
  BY <1>1 DEF Tables
<1>3. e.valid = page_table[mode][v].valid /\ e.frame = page_table[mode][v].frame
  BY <1>2 DEF PageTableEntry
<1>4. Touched(mode, v, write, now) \in
        {page_table, [page_table EXCEPT ![mode][v] = e]}
  BY DEF Touched
<1> HIDE DEF e
<1>5. [page_table EXCEPT ![mode][v] = e][m][u] =
         IF m = mode /\ u = v THEN e ELSE page_table[m][u]
  BY <1>1 DEF Tables
<1> QED
  BY <1>3, <1>4, <1>5

\* The frame that is taken from the list is the only one that becomes used.
LEMMA FaultFreeLeavesFree ==
  ASSUME TypeInv, FreeFramesUnused,
         NEW t \in Threads, NEW v \in Vpns, NEW write \in BOOLEAN,
         TranslateFaultFree(t, v, write)
  PROVE  FreeFramesUnused'
<1> DEFINE f == Head(free_frames)
           e == [valid |-> TRUE, dirty |-> write, referenced |-> TRUE,
                 frame |-> f, last_access |-> access_counter',
                 load_time |-> access_counter']
<1>1. /\ free_frames # <<>> /\ free_frames \in Seq(Frames)
      /\ free_frames' = Tail(free_frames)
      /\ page_table' = WithMapping(page_table, mode, v, f, write, access_counter')
  BY DEF TypeInv, TranslateFaultFree, Load
<1>2. /\ 1 \in DOMAIN free_frames /\ f = free_frames[1]
      /\ \A i \in DOMAIN free_frames' :
           /\ i \in Nat /\ i + 1 \in DOMAIN free_frames /\ i + 1 # 1
           /\ free_frames'[i] = free_frames[i + 1]
  BY <1>1
<1>3. page_table' \in {page_table, [page_table EXCEPT ![mode][v] = e]}
  BY <1>1 DEF WithMapping
<1>4. e.frame = f
  OBVIOUS
<1> HIDE DEF f, e
<1>5. mode \in {"flat", "multi"} /\ Modes \subseteq {"flat", "multi"}
      /\ page_table \in Tables
  BY ModeType DEF TypeInv, Sound
<1>6. \A m \in Modes, u \in Vpns :
        page_table'[m][u] = page_table[m][u] \/ page_table'[m][u] = e
  BY <1>3, <1>5 DEF Tables
<1>7. ASSUME NEW i \in DOMAIN free_frames', NEW j \in DOMAIN free_frames',
             free_frames'[j] = free_frames'[i]
      PROVE  i = j
  <2>1. i + 1 = j + 1
    BY <1>2, <1>7 DEF FreeFramesUnused
  <2> QED
    BY <1>2, <2>1
<1>8. ASSUME NEW i \in DOMAIN free_frames', NEW m \in Modes, NEW u \in Vpns,
             page_table'[m][u].valid
      PROVE  page_table'[m][u].frame # free_frames'[i]
  <2>1. free_frames[i + 1] # f
    BY <1>2 DEF FreeFramesUnused
  <2>2. page_table[m][u].valid => page_table[m][u].frame # free_frames[i + 1]
    BY <1>2 DEF FreeFramesUnused
  <2> QED
    BY <1>2, <1>4, <1>6, <1>8, <2>1, <2>2
<1> QED
  BY <1>7, <1>8 DEF FreeFramesUnused

\* A free frame is in the list once and mapped nowhere, also after switches of
\* the mode that leave old mappings behind, and with page numbers that the
\* frame table or the walk cuts: only an empty list lets evict_page run.
THEOREM FreeFramesStayUnused == Spec => []FreeFramesUnused
<1>1. Init => FreeFramesUnused
  <2> SUFFICES ASSUME Init PROVE FreeFramesUnused
    OBVIOUS
  <2>1. /\ DOMAIN free_frames = 1 .. NumFrames
        /\ \A i \in 1 .. NumFrames : free_frames[i] = i - 1
    BY DEF Init
  <2>2. \A i, j \in DOMAIN free_frames : free_frames[j] = free_frames[i] => i = j
    BY <2>1
  <2>3. \A m \in Modes, u \in Vpns : ~page_table[m][u].valid
    BY ModeType DEF Init, NoPage
  <2> QED
    BY <2>2, <2>3 DEF FreeFramesUnused
<1>2. TypeInv /\ FreeFramesUnused /\ [Next]_vars => FreeFramesUnused'
  <2> SUFFICES ASSUME TypeInv, FreeFramesUnused, [Next]_vars
               PROVE  FreeFramesUnused'
    OBVIOUS
  <2>1. ASSUME UNCHANGED free_frames,
               \A m \in Modes, u \in Vpns :
                 /\ page_table'[m][u].valid = page_table[m][u].valid
                 /\ page_table'[m][u].frame = page_table[m][u].frame
        PROVE  FreeFramesUnused'
    BY <2>1 DEF FreeFramesUnused
  <2>2. ASSUME free_frames' = <<>> PROVE FreeFramesUnused'
    BY <2>2 DEF FreeFramesUnused
  <2>3. ASSUME NEW t \in Threads, NEW v \in Vpns, NEW write \in BOOLEAN,
               Translate(t, v, write)
        PROVE  FreeFramesUnused'
    <3>1. CASE TranslateTLBHit(t, v, write) \/ TranslateTableHit(t, v, write)
      <4>1. /\ UNCHANGED free_frames
            /\ page_table' = Touched(mode, v, write, access_counter')
        BY <3>1 DEF TranslateTLBHit, TranslateTableHit
      <4> QED
        BY <2>1, <4>1, TouchedLeavesFrames
    <3>2. CASE TranslateFaultFree(t, v, write)
      BY <3>2, FaultFreeLeavesFree
    <3>3. CASE TranslateFaultOldest(t, v, write)
      BY <2>2, <3>3 DEF TranslateFaultOldest, EvictAndLoad
    <3>4. CASE TranslateFaultClock(t, v, write)
      BY <2>2, <3>4 DEF TranslateFaultClock, EvictAndLoad
    <3>5. CASE TranslateNoFrame(t, v, write)
      BY <2>2, <3>5 DEF TranslateNoFrame
    <3> QED
      BY <2>3, <3>1, <3>2, <3>3, <3>4, <3>5 DEF Translate
  <2>4. ASSUME NEW t \in Threads, Request(t) PROVE FreeFramesUnused'
    BY <2>1, <2>4 DEF Request
  <2>5. ASSUME Command PROVE FreeFramesUnused'
    BY <2>1, <2>5 DEF Command
  <2>6. CASE UNCHANGED vars
    BY <2>1, <2>6 DEF vars
  <2> QED
    BY <2>3, <2>4, <2>5, <2>6
    DEF Next, SetReplacementPolicy, SetMultiLevelPaging, ChangeRegion
<1> QED
  BY <1>1, <1>2, InitType, TypeStep, PTL DEF Spec

-----------------------------------------------------------------------------
(* Coherence.  Two assumptions on the instance: the user keeps to one mode, *)
(* and page numbers fit the 4-level walk and are read back from the int of *)
(* the frame table as they are or as a negative number.  The frames and the *)
(* TLB survive a switch of the mode, which the tables do not know of; a page *)
(* beyond the walk is never mapped; a page whose int is the number of another *)
(* page would be evicted in its place.                                     *)

SingleMode  == \E m \in {"flat", "multi"} : Modes = {m}
NarrowVpns  == \A v \in Vpns : v < WalkLimit /\ (ToInt(v) = v \/ ToInt(v) < 0)

\* The page numbers that fit an int: any victim can be named.
SmallVpns   == \A v \in Vpns : v < WalkLimit /\ ToInt(v) = v

LEMMA SmallNarrow == SmallVpns => NarrowVpns
BY DEF SmallVpns, NarrowVpns

\* Nobody is in frame f.
Vacant(pt, f) == \A v \in Vpns : pt[mode][v].valid => pt[mode][v].frame # f

\* OwnersMatch and TLBCoherent, of any table, frame table and TLB, for pages
\* that the walk reaches.  The frame table has the page of a frame as an int,
\* which may be the -1 of a frame that has none.
Owned(pt, ft) ==
  /\ \A v \in Vpns : pt[mode][v].valid =>
       pt[mode][v].frame \in Frames /\ ft[pt[mode][v].frame] = ToInt(v)
  /\ \A u, v \in Vpns :
       pt[mode][u].valid /\ pt[mode][v].valid /\ pt[mode][u].frame = pt[mode][v].frame
         => u = v
  /\ \A f \in Frames : ft[f] # -1 => ~Vacant(pt, f)

Copied(tb, pt) ==
  \A s \in Sets, w \in Ways : tb[s][w].valid =>
    /\ tb[s][w].vpn \in Vpns
    /\ SetOf(tb[s][w].vpn) = s
    /\ pt[mode][tb[s][w].vpn].valid
    /\ pt[mode][tb[s][w].vpn].frame = tb[s][w].pfn
    /\ \A x \in Ways : tb[s][x].valid /\ tb[s][x].vpn = tb[s][w].vpn => x = w

\* The free list has the vacant frames, each of them once.
Listed(list, pt) ==
  /\ \A i, j \in DOMAIN list : i # j => list[i] # list[j]
  /\ \A f \in Frames : Vacant(pt, f) <=> \E i \in DOMAIN list : list[i] = f

CoherenceInv ==
  TypeInv /\ Owned(page_table, frame_table) /\ Copied(tlb, page_table)
          /\ Listed(free_frames, page_table)

\* Two tables that map the same pages to the same frames.
SameMappings(pt, qt) ==
  \A v \in Vpns : /\ qt[mode][v].valid = pt[mode][v].valid
                  /\ qt[mode][v].frame = pt[mode][v].frame

\* What is left of it when the frame table can name a page.
LEMMA NamedOwner ==
  ASSUME TypeInv, NarrowVpns, NEW pt, Owned(pt, frame_table),
         NEW f \in Frames, frame_table[f] >= 0
  PROVE  /\ frame_table[f] \in Vpns
         /\ pt[mode][frame_table[f]].valid
         /\ pt[mode][frame_table[f]].frame = f
<1>1. PICK v \in Vpns : pt[mode][v].valid /\ pt[mode][v].frame = f
  BY DEF Owned, Vacant
<1>2. ToInt(v) = frame_table[f]
  BY <1>1 DEF Owned
<1>3. ToInt(v) = v \/ ToInt(v) < 0
  BY DEF NarrowVpns
<1>4. v = frame_table[f]
  BY <1>2, <1>3, ToIntType, SizesAssumption
<1> QED
  BY <1>1, <1>4

LEMMA CoherenceTLB ==
  ASSUME NarrowVpns, CoherenceInv
  PROVE  TLBCoherent
BY DEF NarrowVpns, CoherenceInv, TLBCoherent, Copied, Mapped, Reachable

LEMMA CoherenceParts ==
  ASSUME SmallVpns, CoherenceInv
  PROVE  OwnersMatch /\ FramesAccounted
<1>1. \A v \in Vpns : ToInt(v) = v /\ v # -1 /\ v >= 0 /\ Reachable(mode, v)
  BY SizesAssumption DEF SmallVpns, Reachable
<1>2. ASSUME NEW f \in Frames, NEW v \in Vpns,
             page_table[mode][v].valid, page_table[mode][v].frame = f
      PROVE  frame_table[f] = v
  BY <1>1, <1>2 DEF CoherenceInv, Owned
<1>3. ASSUME NEW f \in Frames, frame_table[f] # -1
      PROVE  /\ frame_table[f] \in Vpns
             /\ page_table[mode][frame_table[f]].valid
             /\ page_table[mode][frame_table[f]].frame = f
  <2>1. PICK v \in Vpns : page_table[mode][v].valid /\ page_table[mode][v].frame = f
    BY <1>3 DEF CoherenceInv, Owned, Vacant
  <2> QED
    BY <1>2, <2>1
<1>4. \A f \in Frames : frame_table[f] = -1 <=> Vacant(page_table, f)
  BY <1>1, <1>2, <1>3 DEF Vacant
<1>5. FramesAccounted
  BY <1>4 DEF CoherenceInv, Listed, FramesAccounted
<1>6. \A v \in Vpns : page_table[mode][v].valid => page_table[mode][v].frame \in Frames
  BY DEF CoherenceInv, Owned
<1>7. OwnersMatch
  BY <1>1, <1>2, <1>3, <1>6 DEF OwnersMatch, Mapped
<1> QED
  BY <1>5, <1>7

LEMMA InitCoherent == Init => CoherenceInv
<1> SUFFICES ASSUME Init PROVE CoherenceInv
  OBVIOUS
<1>1. mode \in {"flat", "multi"}
  BY ModeType DEF Init
<1>2. \A v \in Vpns : ~page_table[mode][v].valid
  BY <1>1 DEF Init, NoPage
<1>3. Owned(page_table, frame_table)
  BY <1>2 DEF Init, Owned
<1>4. Copied(tlb, page_table)
  BY DEF Init, Copied, NoEntry
<1>5. Listed(free_frames, page_table)
  <2>1. /\ DOMAIN free_frames = 1 .. NumFrames
        /\ \A i \in 1 .. NumFrames : free_frames[i] = i - 1
    BY DEF Init
  <2>2. \A f \in Frames : f + 1 \in 1 .. NumFrames /\ free_frames[f + 1] = f
    BY <2>1, SizesAssumption DEF Frames
  <2>3. \A i, j \in DOMAIN free_frames :
          i # j => free_frames[i] # free_frames[j]
    BY <2>1
  <2>4. \A f \in Frames : \E i \in DOMAIN free_frames : free_frames[i] = f
    BY <2>1, <2>2
  <2>5. \A f \in Frames : Vacant(page_table, f)
    BY <1>2 DEF Vacant
  <2> QED
    BY <2>3, <2>4, <2>5 DEF Listed
<1> QED
  BY <1>3, <1>4, <1>5, InitType DEF CoherenceInv

LEMMA SameMappingsKeep ==
  ASSUME NEW pt, NEW qt, SameMappings(pt, qt), NEW ft, NEW tb, NEW list
  PROVE  /\ Owned(pt, ft) => Owned(qt, ft)
         /\ Copied(tb, pt) => Copied(tb, qt)
         /\ Listed(list, pt) => Listed(list, qt)
<1>1. \A f : Vacant(qt, f) <=> Vacant(pt, f)
  BY DEF SameMappings, Vacant
<1> QED
  BY <1>1 DEF SameMappings, Owned, Copied, Listed

LEMMA TouchedSame ==
  ASSUME TypeInv, NEW v \in Vpns, NEW write \in BOOLEAN, NEW now
  PROVE  SameMappings(page_table, Touched(mode, v, write, now))
<1> DEFINE used == [page_table[mode][v] EXCEPT !.last_access = now,
                                               !.referenced = TRUE]
           e == IF write THEN [used EXCEPT !.dirty = TRUE] ELSE used
<1>1. mode \in {"flat", "multi"} /\ page_table \in Tables
  BY ModeType DEF TypeInv, Sound
<1>2. page_table[mode][v] \in PageTableEntry
  BY <1>1 DEF Tables
<1>3. e.valid = page_table[mode][v].valid /\ e.frame = page_table[mode][v].frame
  BY <1>2 DEF PageTableEntry
<1>4. Touched(mode, v, write, now) \in
        {page_table, [page_table EXCEPT ![mode][v] = e]}
  BY DEF Touched
<1> HIDE DEF e
<1>5. \A u \in Vpns : [page_table EXCEPT ![mode][v] = e][mode][u] =
                        IF u = v THEN e ELSE page_table[mode][u]
  BY <1>1 DEF Tables
<1> QED
  BY <1>3, <1>4, <1>5 DEF SameMappings

LEMMA SweptSame ==
  ASSUME TypeInv, NEW k
  PROVE  SameMappings(page_table, Swept(k))
<1>1. mode \in {"flat", "multi"} /\ page_table \in Tables
  BY ModeType DEF TypeInv, Sound
<1> SUFFICES ASSUME NEW v \in Vpns
             PROVE  /\ Swept(k)[mode][v].valid = page_table[mode][v].valid
                    /\ Swept(k)[mode][v].frame = page_table[mode][v].frame
  BY DEF SameMappings
<1>2. page_table[mode][v] \in PageTableEntry
  BY <1>1 DEF Tables
<1>3. Swept(k)[mode][v] \in
        {page_table[mode][v], [page_table[mode][v] EXCEPT !.referenced = FALSE]}
  BY <1>1 DEF Swept, Tables
<1> QED
  BY <1>2, <1>3 DEF PageTableEntry

\* A new entry for a page that the TLB misses and the table maps.
LEMMA InsertedCopied ==
  ASSUME NEW tb \in TLBs, NEW pt, Copied(tb, pt), NEW v \in Vpns, Misses(tb, v),
         NEW f \in Frames, NEW w \in Ways, NEW now,
         NEW qt, qt[mode][v].valid, qt[mode][v].frame = f,
         \A u \in Vpns \ {v} : /\ qt[mode][u].valid = pt[mode][u].valid
                               /\ qt[mode][u].frame = pt[mode][u].frame
  PROVE  Copied(Inserted(tb, v, f, w, now), qt)
<1> DEFINE e  == [valid |-> TRUE, vpn |-> v, pfn |-> f, last_access |-> now]
           nt == Inserted(tb, v, f, w, now)
<1>1. SetOf(v) \in Sets
  BY SetOfType, SizesAssumption
<1>2. \A s \in Sets, x \in Ways :
        nt[s][x] = IF s = SetOf(v) /\ x = w THEN e ELSE tb[s][x]
  BY <1>1 DEF Inserted, TLBs
<1>3. \A s \in Sets, x \in Ways : tb[s][x].valid => tb[s][x].vpn # v
  BY DEF Misses, Matches, Copied
<1>4. e.valid /\ e.vpn = v /\ e.pfn = f
  OBVIOUS
<1> HIDE DEF e, nt
<1>5. ASSUME NEW s \in Sets, NEW x \in Ways, nt[s][x].valid
      PROVE  /\ nt[s][x].vpn \in Vpns /\ SetOf(nt[s][x].vpn) = s
             /\ qt[mode][nt[s][x].vpn].valid
             /\ qt[mode][nt[s][x].vpn].frame = nt[s][x].pfn
  <2>1. CASE s = SetOf(v) /\ x = w
    BY <1>2, <1>4, <2>1
  <2>2. CASE ~(s = SetOf(v) /\ x = w)
    <3>1. nt[s][x] = tb[s][x]
      BY <1>2, <2>2
    <3> QED
      BY <1>3, <1>5, <3>1 DEF Copied
  <2> QED
    BY <2>1, <2>2
<1>6. ASSUME NEW s \in Sets, NEW x \in Ways, NEW y \in Ways,
             nt[s][x].valid, nt[s][y].valid, nt[s][y].vpn = nt[s][x].vpn
      PROVE  y = x
  BY <1>2, <1>3, <1>4, <1>6 DEF Copied
<1>7. Copied(nt, qt)
  BY <1>5, <1>6 DEF Copied
<1> QED
  BY <1>7 DEF nt

\* Loading a page that pt does not map into a frame that nobody has.
LEMMA LoadCoherent ==
  ASSUME TypeInv, NarrowVpns,
         NEW t \in Threads, NEW v \in Vpns, NEW write \in BOOLEAN,
         NEW f \in Frames, NEW pt, NEW tb \in TLBs, Sound(pt),
         NEW ft, Vacant(pt, f), Owned(pt, ft), Copied(tb, pt),
         ~pt[mode][v].valid, Misses(tb, v),
         \A g \in Frames \ {f} : frame_table[g] = ft[g],
         mode' = mode, Load(t, v, write, f, pt, tb)
  PROVE  /\ Owned(page_table, frame_table)'
         /\ Copied(tlb, page_table)'
         /\ \A g \in Frames : Vacant(page_table, g)' <=> g # f /\ Vacant(pt, g)
<1>1. mode \in {"flat", "multi"} /\ Reachable(mode, v)
  BY ModeType DEF TypeInv, NarrowVpns, Reachable
<1> DEFINE e == [valid |-> TRUE, dirty |-> write, referenced |-> TRUE,
                 frame |-> f, last_access |-> access_counter',
                 load_time |-> access_counter']
<1>2. page_table' = [pt EXCEPT ![mode][v] = e]
  BY <1>1 DEF Load, WithMapping
<1>3. e.valid /\ e.frame = f
  OBVIOUS
<1> HIDE DEF e
<1>4. \A u \in Vpns : page_table'[mode][u] = IF u = v THEN e ELSE pt[mode][u]
  BY <1>1, <1>2 DEF Sound, Tables
<1>5. \A g \in Frames : frame_table'[g] = IF g = f THEN ToInt(v) ELSE ft[g]
  BY DEF TypeInv, Load
<1>6. \A g \in Frames : Vacant(page_table, g)' <=> g # f /\ Vacant(pt, g)
  BY <1>3, <1>4 DEF Vacant
<1>7. Owned(page_table, frame_table)'
  <2>1. \A u \in Vpns : page_table'[mode][u].valid =>
          /\ page_table'[mode][u].frame \in Frames
          /\ frame_table'[page_table'[mode][u].frame] = ToInt(u)
    BY <1>3, <1>4, <1>5 DEF Owned, Vacant
  <2>2. \A u, x \in Vpns :
          /\ page_table'[mode][u].valid /\ page_table'[mode][x].valid
          /\ page_table'[mode][u].frame = page_table'[mode][x].frame
          => u = x
    BY <1>3, <1>4 DEF Owned, Vacant
  <2>3. \A g \in Frames : frame_table'[g] # -1 => ~Vacant(page_table, g)'
    BY <1>5, <1>6 DEF Owned
  <2> QED
    BY <2>1, <2>2, <2>3 DEF Owned
<1>8. Copied(tlb, page_table)'
  <2>1. PICK w \in Ways : tlb' = Inserted(tb, v, f, w, timer')
    BY DEF Load
  <2>2. Copied(Inserted(tb, v, f, w, timer'), page_table')
    BY <1>3, <1>4, InsertedCopied
  <2> QED
    BY <2>1, <2>2 DEF Copied
<1> QED
  BY <1>6, <1>7, <1>8

\* Unmapping the page of frame f and shooting its translation down.
LEMMA Unmapped ==
  ASSUME TypeInv, NarrowVpns, NEW f \in Frames, NEW pt, Sound(pt),
         Owned(pt, frame_table), Copied(tlb, pt), frame_table[f] >= 0
  PROVE  LET old == frame_table[f]
             wo  == WithoutMapping(pt, mode, old)
             inv == Invalidated(tlb, old)
         IN  /\ Owned(wo, [frame_table EXCEPT ![f] = -1])
             /\ Copied(inv, wo)
             /\ \A g \in Frames : Vacant(wo, g) <=> g = f \/ Vacant(pt, g)
             /\ \A u \in Vpns : wo[mode][u].valid => pt[mode][u].valid
             /\ \A u \in Vpns : Misses(tlb, u) => Misses(inv, u)
<1> DEFINE old == frame_table[f]
           wo  == WithoutMapping(pt, mode, old)
           inv == Invalidated(tlb, old)
           e == [pt[mode][old] EXCEPT !.valid = FALSE]
           r == [pt[mode][old] EXCEPT !.valid = FALSE, !.frame = -1,
                                      !.dirty = FALSE, !.referenced = FALSE]
<1>1. /\ mode \in {"flat", "multi"} /\ old \in Vpns /\ old \in Nat
      /\ pt[mode][old].valid /\ pt[mode][old].frame = f
      /\ Reachable(mode, old) /\ SetOf(old) \in Sets
      /\ old = frame_table[f]
  BY ModeType, SizesAssumption, SetOfType, NamedOwner
  DEF TypeInv, NarrowVpns, Reachable
<1>2. wo = [pt EXCEPT ![mode][old] = e] \/ wo = [pt EXCEPT ![mode][old] = r]
  BY <1>1 DEF WithoutMapping
<1>3. pt[mode][old] \in PageTableEntry
  BY <1>1 DEF Sound, Tables
<1>4. ~e.valid /\ ~r.valid
  BY <1>3 DEF PageTableEntry
<1> HIDE DEF e, r, wo, old
<1>14. ASSUME NEW x, wo = [pt EXCEPT ![mode][old] = x], ~x.valid
      PROVE  /\ \A u \in Vpns : u # old => wo[mode][u] = pt[mode][u]
             /\ ~wo[mode][old].valid
  <2>1. \A u \in Vpns : [pt EXCEPT ![mode][old] = x][mode][u] =
                          IF u = old THEN x ELSE pt[mode][u]
    <3>1. pt \in Tables
      BY DEF Sound
    <3> QED
      BY <1>1, <3>1 DEF Tables
  <2>2. \A u \in Vpns : wo[mode][u] = IF u = old THEN x ELSE pt[mode][u]
    BY <1>14, <2>1, Zenon
  <2> QED
    BY <1>1, <1>14, <2>2
<1>5. \A u \in Vpns : u # old => wo[mode][u] = pt[mode][u]
  BY <1>2, <1>4, <1>14
<1>6. ~wo[mode][old].valid
  BY <1>2, <1>4, <1>14
<1>7. \A s \in Sets, w \in Ways :
        /\ inv[s][w].valid => tlb[s][w].valid
        /\ inv[s][w].vpn = tlb[s][w].vpn
        /\ inv[s][w].pfn = tlb[s][w].pfn
        /\ s = SetOf(old) /\ FirstMatch(tlb, old, w) => ~inv[s][w].valid
  <2> SUFFICES ASSUME NEW s \in Sets, NEW w \in Ways
               PROVE  /\ inv[s][w].valid => tlb[s][w].valid
                      /\ inv[s][w].vpn = tlb[s][w].vpn
                      /\ inv[s][w].pfn = tlb[s][w].pfn
                      /\ s = SetOf(old) /\ FirstMatch(tlb, old, w)
                           => ~inv[s][w].valid
    OBVIOUS
  <2>1. inv[s][w] = IF s = SetOf(old) /\ FirstMatch(tlb, old, w)
                      THEN [tlb[s][w] EXCEPT !.valid = FALSE]
                      ELSE tlb[s][w]
    BY <1>1 DEF Invalidated, TypeInv, TLBs
  <2>2. tlb[s][w] \in TLBEntry
    BY DEF TypeInv, TLBs
  <2> QED
    BY <2>1, <2>2 DEF TLBEntry
\* At most one entry is for old, so the first match is the only one.
<1>8. \A s \in Sets, w \in Ways : inv[s][w].valid => inv[s][w].vpn # old
  <2> SUFFICES ASSUME NEW s \in Sets, NEW w \in Ways,
                      tlb[s][w].valid, tlb[s][w].vpn = old
               PROVE  s = SetOf(old) /\ FirstMatch(tlb, old, w)
    BY <1>7
  <2>1. s = SetOf(old)
    BY DEF Copied
  <2>2. \A x \in Ways : Matches(tlb, old, x) => x = w
    BY <2>1 DEF Copied, Matches
  <2>3. Matches(tlb, old, w)
    BY <2>1 DEF Matches
  <2>4. \A x \in Ways : x < w => x # w
    BY DEF Ways
  <2> QED
    BY <2>1, <2>2, <2>3, <2>4 DEF FirstMatch
<1> DEFINE ft == [frame_table EXCEPT ![f] = -1]
<1>9. \A g \in Frames : ft[g] = IF g = f THEN -1 ELSE frame_table[g]
  BY DEF TypeInv
<1> HIDE DEF inv, ft
<1>15. \A g \in Frames : Vacant(wo, g) <=> g = f \/ Vacant(pt, g)
  BY <1>1, <1>5, <1>6 DEF Owned, Vacant
<1>10. Owned(wo, ft)
  <2>1. \A u \in Vpns : wo[mode][u].valid =>
          wo[mode][u].frame \in Frames /\ ft[wo[mode][u].frame] = ToInt(u)
    BY <1>1, <1>5, <1>6, <1>9 DEF Owned
  <2>2. \A u, x \in Vpns :
          wo[mode][u].valid /\ wo[mode][x].valid /\ wo[mode][u].frame = wo[mode][x].frame
            => u = x
    BY <1>5, <1>6 DEF Owned
  <2>3. \A g \in Frames : ft[g] # -1 => ~Vacant(wo, g)
    BY <1>9, <1>15 DEF Owned
  <2> QED
    BY <2>1, <2>2, <2>3 DEF Owned
<1>11. Copied(inv, wo)
  BY <1>5, <1>7, <1>8 DEF Copied
<1>12. \A u \in Vpns : Misses(tlb, u) => Misses(inv, u)
  BY <1>7, SetOfType, SizesAssumption DEF Misses, Matches
<1>13. \A u \in Vpns : wo[mode][u].valid => pt[mode][u].valid
  BY <1>1, <1>5
<1> QED
  BY <1>10, <1>11, <1>12, <1>13, <1>15 DEF wo, inv, ft, old

LEMMA EvictAndLoadCoherent ==
  ASSUME CoherenceInv, NarrowVpns,
         NEW t \in Threads, NEW v \in Vpns, NEW write \in BOOLEAN,
         NEW f \in Frames, NEW pt, Sound(pt), SameMappings(page_table, pt),
         frame_table[f] >= 0, free_frames = <<>>,
         ~Mapped(mode, v), Misses(tlb, v), mode' = mode,
         EvictAndLoad(t, v, write, f, pt)
  PROVE  /\ Owned(page_table, frame_table)'
         /\ Copied(tlb, page_table)'
         /\ Listed(free_frames, page_table)'
<1> DEFINE old == frame_table[f]
           wo  == WithoutMapping(pt, mode, old)
           inv == Invalidated(tlb, old)
           ft  == [frame_table EXCEPT ![f] = -1]
<1>1. /\ TypeInv /\ mode \in {"flat", "multi"}
      /\ Owned(pt, frame_table) /\ Copied(tlb, pt) /\ Listed(free_frames, pt)
  BY SameMappingsKeep, ModeType DEF CoherenceInv, TypeInv
<1>2. ~pt[mode][v].valid
  BY DEF SameMappings, Mapped, Reachable, NarrowVpns
<1>3. /\ Owned(wo, ft) /\ Copied(inv, wo)
      /\ \A g \in Frames : Vacant(wo, g) <=> g = f \/ Vacant(pt, g)
      /\ \A u \in Vpns : wo[mode][u].valid => pt[mode][u].valid
      /\ \A u \in Vpns : Misses(tlb, u) => Misses(inv, u)
  BY <1>1, Unmapped
<1>4. Sound(wo) /\ inv \in TLBs
  BY <1>1, WithoutMappingSound, InvalidatedType DEF TypeInv, TLBs
<1>5. \A g \in Frames \ {f} : frame_table[g] = ft[g]
  BY <1>1 DEF TypeInv
<1>6. Load(t, v, write, f, wo, inv) /\ free_frames' = <<>>
  BY DEF EvictAndLoad
<1> HIDE DEF wo, inv, ft
<1>7. /\ Owned(page_table, frame_table)' /\ Copied(tlb, page_table)'
      /\ \A g \in Frames : Vacant(page_table, g)' <=> g # f /\ Vacant(wo, g)
  BY <1>1, <1>2, <1>3, <1>4, <1>5, <1>6, LoadCoherent
<1>8. Listed(free_frames, page_table)'
  <2>1. \A g \in Frames : ~Vacant(pt, g)
    BY <1>1 DEF Listed
  <2>2. \A g \in Frames : ~Vacant(page_table, g)'
    BY <1>3, <1>7, <2>1
  <2> QED
    BY <1>6, <2>2 DEF Listed
<1> QED
  BY <1>7, <1>8

LEMMA FaultFreeCoherent ==
  ASSUME CoherenceInv, NarrowVpns,
         NEW t \in Threads, NEW v \in Vpns, NEW write \in BOOLEAN,
         TranslateFaultFree(t, v, write), mode' = mode
  PROVE  /\ Owned(page_table, frame_table)'
         /\ Copied(tlb, page_table)'
         /\ Listed(free_frames, page_table)'
<1> DEFINE f == Head(free_frames)
<1>1. /\ TypeInv /\ Sound(page_table) /\ tlb \in TLBs
      /\ frame_table \in [Frames -> Int] /\ free_frames \in Seq(Frames)
      /\ Owned(page_table, frame_table) /\ Copied(tlb, page_table)
      /\ Listed(free_frames, page_table)
  BY DEF CoherenceInv, TypeInv
<1>2. /\ free_frames # <<>> /\ free_frames' = Tail(free_frames)
      /\ Load(t, v, write, f, page_table, tlb)
      /\ Misses(tlb, v) /\ ~page_table[mode][v].valid
  BY DEF TranslateFaultFree, Fault, Mapped, Reachable, NarrowVpns
<1>3. /\ f \in Frames /\ 1 \in DOMAIN free_frames /\ f = free_frames[1]
      /\ Len(free_frames) \in Nat /\ DOMAIN free_frames = 1 .. Len(free_frames)
      /\ DOMAIN free_frames' = 1 .. Len(free_frames) - 1
      /\ \A i \in DOMAIN free_frames' : free_frames'[i] = free_frames[i + 1]
  BY <1>1, <1>2
<1>4. Vacant(page_table, f)
  BY <1>1, <1>3 DEF Listed
<1> HIDE DEF f
<1>5. /\ Owned(page_table, frame_table)' /\ Copied(tlb, page_table)'
      /\ \A g \in Frames :
           Vacant(page_table, g)' <=> g # f /\ Vacant(page_table, g)
  BY <1>1, <1>2, <1>3, <1>4, LoadCoherent
<1>7. \A i, j \in DOMAIN free_frames : i # j => free_frames[i] # free_frames[j]
  BY <1>1 DEF Listed
<1>8. \A i, j \in DOMAIN free_frames' :
        i # j => free_frames'[i] # free_frames'[j]
  BY <1>3, <1>7
<1>9. \A g \in Frames :
        (\E i \in DOMAIN free_frames' : free_frames'[i] = g)
          <=> g # f /\ \E i \in DOMAIN free_frames : free_frames[i] = g
  <2> SUFFICES ASSUME NEW g \in Frames
               PROVE  (\E i \in DOMAIN free_frames' : free_frames'[i] = g)
                        <=> g # f /\ \E i \in DOMAIN free_frames : free_frames[i] = g
    OBVIOUS
  <2>1. ASSUME NEW i \in DOMAIN free_frames', free_frames'[i] = g
        PROVE  g # f /\ \E j \in DOMAIN free_frames : free_frames[j] = g
    <3>1. i + 1 \in DOMAIN free_frames /\ i + 1 # 1 /\ free_frames[i + 1] = g
      BY <1>3, <2>1
    <3> QED
      BY <1>3, <1>7, <3>1
  <2>2. ASSUME g # f, NEW j \in DOMAIN free_frames, free_frames[j] = g
        PROVE  \E i \in DOMAIN free_frames' : free_frames'[i] = g
    <3>1. j - 1 \in DOMAIN free_frames' /\ free_frames'[j - 1] = g
      BY <1>3, <2>2
    <3> QED
      BY <3>1
  <2> QED
    BY <2>1, <2>2
<1>10. \A g \in Frames : Vacant(page_table, g) <=>
         \E i \in DOMAIN free_frames : free_frames[i] = g
  BY <1>1 DEF Listed
<1>11. \A g \in Frames : Vacant(page_table, g)' <=>
         \E i \in DOMAIN free_frames' : free_frames'[i] = g
  BY <1>5, <1>9, <1>10
<1> QED
  BY <1>5, <1>8, <1>11 DEF Listed

LEMMA ModeKept ==
  ASSUME mode' = mode, TypeInv',
         Owned(page_table', frame_table'), Copied(tlb', page_table'),
         Listed(free_frames', page_table')
  PROVE  CoherenceInv'
BY DEF CoherenceInv, Owned, Copied, Listed, Vacant

LEMMA TranslateCoherent ==
  ASSUME CoherenceInv, NarrowVpns,
         NEW t \in Threads, NEW v \in Vpns, NEW write \in BOOLEAN,
         Translate(t, v, write)
  PROVE  CoherenceInv'
<1>1. Access(t, v, write)
  BY DEF Translate, TranslateTLBHit, TranslateTableHit, TranslateFaultFree,
         TranslateFaultOldest, TranslateFaultClock, TranslateNoFrame, Fault
<1>2. /\ TypeInv /\ TypeInv'
      /\ access_counter' \in Nat /\ timer' \in Nat
      /\ mode' = mode /\ mode \in {"flat", "multi"}
  BY <1>1, AccessType, TranslateType DEF CoherenceInv
<1>3. /\ Owned(page_table, frame_table) /\ Copied(tlb, page_table)
      /\ Listed(free_frames, page_table) /\ tlb \in TLBs /\ frame_table \in [Frames -> Int]
  BY <1>2 DEF CoherenceInv, TypeInv
<1>4. CASE TranslateTLBHit(t, v, write)
  <2>1. SameMappings(page_table, page_table')
    BY <1>2, <1>4, TouchedSame DEF TranslateTLBHit
  <2>2. PICK w \in Ways : tlb' = [tlb EXCEPT ![SetOf(v)][w].last_access = timer']
    BY <1>4 DEF TranslateTLBHit
  <2>3. \A s \in Sets, x \in Ways : /\ tlb'[s][x].valid = tlb[s][x].valid
                                    /\ tlb'[s][x].vpn = tlb[s][x].vpn
                                    /\ tlb'[s][x].pfn = tlb[s][x].pfn
    BY <1>3, <2>2 DEF TLBs, TLBEntry
  <2>4. Copied(tlb', page_table)
    BY <1>3, <2>3 DEF Copied
  <2>5. /\ Copied(tlb', page_table') /\ Owned(page_table', frame_table)
        /\ Listed(free_frames, page_table')
    BY <1>3, <2>1, <2>4, SameMappingsKeep
  <2>6. /\ frame_table' = frame_table /\ free_frames' = free_frames
    BY <1>4 DEF TranslateTLBHit
  <2> QED
    BY <1>2, <2>5, <2>6, ModeKept
<1>5. CASE TranslateTableHit(t, v, write)
  <2> DEFINE f == page_table[mode][v].frame
  <2>1. SameMappings(page_table, page_table')
    BY <1>2, <1>5, TouchedSame DEF TranslateTableHit
  <2>2. PICK w \in Ways : tlb' = Inserted(tlb, v, f, w, timer')
    BY <1>5 DEF TranslateTableHit
  <2>3. page_table[mode][v].valid /\ f \in Frames /\ Misses(tlb, v)
    BY <1>2, <1>5 DEF TranslateTableHit, Mapped, TypeInv, Sound
  <2>4. /\ page_table'[mode][v].valid /\ page_table'[mode][v].frame = f
        /\ \A u \in Vpns \ {v} :
             /\ page_table'[mode][u].valid = page_table[mode][u].valid
             /\ page_table'[mode][u].frame = page_table[mode][u].frame
    BY <2>1, <2>3 DEF SameMappings
  <2>5. Copied(Inserted(tlb, v, f, w, timer'), page_table')
    <3> HIDE DEF f
    <3> QED
      BY <1>2, <1>3, <2>3, <2>4, InsertedCopied
  <2>6. Owned(page_table', frame_table) /\ Listed(free_frames, page_table')
    BY <1>3, <2>1, SameMappingsKeep
  <2>7. frame_table' = frame_table /\ free_frames' = free_frames
    BY <1>5 DEF TranslateTableHit
  <2>8. Copied(tlb', page_table')
    BY <2>2, <2>5
  <2> HIDE DEF f
  <2> QED
    BY <1>2, <2>6, <2>7, <2>8, ModeKept
<1>6. CASE TranslateFaultFree(t, v, write)
  BY <1>2, <1>6, FaultFreeCoherent DEF CoherenceInv
<1>7. CASE TranslateFaultOldest(t, v, write)
  <2>1. PICK f \in Frames : Oldest(f) /\ EvictAndLoad(t, v, write, f, page_table)
    BY <1>7 DEF TranslateFaultOldest
  <2>2. frame_table[f] >= 0
    BY <2>1 DEF Oldest
  <2>3. /\ free_frames = <<>> /\ ~Mapped(mode, v) /\ Misses(tlb, v)
        /\ Sound(page_table) /\ SameMappings(page_table, page_table)
    BY <1>2, <1>7 DEF TranslateFaultOldest, Fault, TypeInv, SameMappings
  <2> QED
    BY <1>2, <2>1, <2>2, <2>3, EvictAndLoadCoherent DEF CoherenceInv
<1>8. CASE TranslateFaultClock(t, v, write)
  <2>1. PICK k \in 0 .. 2 * NumFrames - 1 :
          StopsAt(k) /\ EvictAndLoad(t, v, write, HandAt(k), Swept(k))
    BY <1>8 DEF TranslateFaultClock
  <2>2. k \in Nat /\ HandAt(k) \in Frames /\ frame_table[HandAt(k)] >= 0
    BY <1>2, <2>1, HandAtType, SizesAssumption DEF StopsAt
  <2>3. /\ free_frames = <<>> /\ ~Mapped(mode, v) /\ Misses(tlb, v)
        /\ Sound(Swept(k)) /\ SameMappings(page_table, Swept(k))
    BY <1>2, <1>8, SweptSound, SweptSame DEF TranslateFaultClock, Fault
  <2> QED
    BY <1>2, <2>1, <2>2, <2>3, EvictAndLoadCoherent DEF CoherenceInv
<1>9. CASE TranslateNoFrame(t, v, write)
  BY <1>2, <1>3, <1>9, ModeKept DEF TranslateNoFrame
<1> QED
  BY <1>4, <1>5, <1>6, <1>7, <1>8, <1>9 DEF Translate

LEMMA CoherenceStep ==
  ASSUME SingleMode, NarrowVpns
  PROVE  CoherenceInv /\ [Next]_vars => CoherenceInv'
<1> SUFFICES ASSUME CoherenceInv, [Next]_vars PROVE CoherenceInv'
  OBVIOUS
<1>1. TypeInv'
  BY TypeStep DEF CoherenceInv
<1>2. ASSUME NEW t \in Threads, NEW v \in Vpns, NEW write \in BOOLEAN,
             Translate(t, v, write)
      PROVE  CoherenceInv'
  BY <1>2, TranslateCoherent
<1>3. ASSUME mode' = mode,
             UNCHANGED <<page_table, frame_table, free_frames, tlb>>
      PROVE  CoherenceInv'
  BY <1>1, <1>3, ModeKept DEF CoherenceInv
<1>4. ASSUME NEW t \in Threads, Request(t) PROVE CoherenceInv'
  BY <1>3, <1>4 DEF Request, settings
<1>5. ASSUME NEW p \in Policies, SetReplacementPolicy(p) PROVE CoherenceInv'
  BY <1>3, <1>5 DEF SetReplacementPolicy, Command
<1>6. ASSUME NEW m \in Modes, SetMultiLevelPaging(m) PROVE CoherenceInv'
  <2>1. mode' = mode
    BY <1>6 DEF SetMultiLevelPaging, SingleMode, CoherenceInv, TypeInv
  <2> QED
    BY <1>3, <1>6, <2>1 DEF SetMultiLevelPaging, Command
<1>7. ASSUME NEW v \in RegionPages, NEW prot \in Protections,
             ChangeRegion(v, prot)
      PROVE  CoherenceInv'
  BY <1>3, <1>7 DEF ChangeRegion, Command
<1>8. CASE UNCHANGED vars
  BY <1>3, <1>8 DEF vars
<1> QED
  BY <1>2, <1>4, <1>5, <1>6, <1>7, <1>8 DEF Next

\* In one mode, with page numbers that fit an int, the page table and the
\* frame table always agree: evict_page and translate, which update them one
\* after the other, leave no mapping without an owner and no owner without a
\* mapping.
THEOREM OwnersAgree ==
  ASSUME SingleMode, SmallVpns
  PROVE  Spec => []OwnersMatch
<1>1. CoherenceInv => OwnersMatch
  BY CoherenceParts
<1>2. CoherenceInv /\ [Next]_vars => CoherenceInv'
  BY CoherenceStep, SmallNarrow
<1> QED
  BY <1>1, <1>2, InitCoherent, PTL DEF Spec

\* Under the same assumptions no frame is lost and none is free and used.
THEOREM FramesKept ==
  ASSUME SingleMode, SmallVpns
  PROVE  Spec => []FramesAccounted
<1>1. CoherenceInv => FramesAccounted
  BY CoherenceParts
<1>2. CoherenceInv /\ [Next]_vars => CoherenceInv'
  BY CoherenceStep, SmallNarrow
<1> QED
  BY <1>1, <1>2, InitCoherent, PTL DEF Spec

\* The TLB is a copy of the page table, also with pages the frame table has as
\* negative numbers: those are never evicted.
THEOREM Coherent ==
  ASSUME SingleMode, NarrowVpns
  PROVE  Spec => []TLBCoherent
<1>1. CoherenceInv => TLBCoherent
  BY CoherenceTLB
<1> QED
  BY <1>1, InitCoherent, CoherenceStep, PTL DEF Spec

\* So two pages never translate to one frame.
THEOREM FramesNotShared ==
  ASSUME SingleMode, NarrowVpns
  PROVE  Spec => []NoFrameShared
<1>1. CoherenceInv => NoFrameShared
  <2> SUFFICES ASSUME CoherenceInv, NEW u \in Vpns, NEW v \in Vpns,
                      NEW f \in Frames, Answers(u, f), Answers(v, f)
               PROVE  u = v
    BY DEF NoFrameShared
  <2>1. ASSUME NEW x \in Vpns, Answers(x, f)
        PROVE  page_table[mode][x].valid /\ page_table[mode][x].frame = f
    BY <2>1, SetOfType, SizesAssumption
    DEF CoherenceInv, Copied, Answers, FirstMatch, Matches, Mapped
  <2> QED
    BY <2>1 DEF CoherenceInv, Owned
<1> QED
  BY <1>1, InitCoherent, CoherenceStep, PTL DEF Spec

-----------------------------------------------------------------------------
(* The caches.  With one caller nothing happens between a translation and  *)
(* its use; with two, a run shows a page evicted in between.               *)

SingleThread == \A t, u \in Threads : t = u

FreshInv == CoherenceInv /\ NoStaleLines /\ TranslationsFresh

\* What frame v is loaded into, every line of another page has left.
LEMMA LoadFresh ==
  ASSUME TypeInv, SmallVpns,
         NEW t \in Threads, NEW v \in Vpns, NEW write \in BOOLEAN,
         NEW f \in Frames, NEW pt, NEW tb,
         inflight = {}, \A c \in cached' : c \in cached /\ c.frame # f,
         NoStaleLines, Load(t, v, write, f, pt, tb)
  PROVE  NoStaleLines' /\ TranslationsFresh'
<1>1. \A g \in Frames : frame_table'[g] = IF g = f THEN v ELSE frame_table[g]
  BY DEF Load, SmallVpns, TypeInv
<1>2. inflight' = {[thread |-> t, vpn |-> v, frame |-> f]}
  BY DEF Load, Return
<1>3. TranslationsFresh'
  BY <1>1, <1>2 DEF TranslationsFresh
<1>4. \A c \in cached' : c.frame \in Frames
  BY DEF TypeInv
<1> QED
  BY <1>1, <1>3, <1>4 DEF NoStaleLines

LEMMA EvictAndLoadFresh ==
  ASSUME TypeInv, SmallVpns,
         NEW t \in Threads, NEW v \in Vpns, NEW write \in BOOLEAN,
         NEW f \in Frames, NEW pt, inflight = {},
         NoStaleLines, EvictAndLoad(t, v, write, f, pt)
  PROVE  NoStaleLines' /\ TranslationsFresh'
<1> DEFINE wo  == WithoutMapping(pt, mode, frame_table[f])
           inv == Invalidated(tlb, frame_table[f])
<1>1. Load(t, v, write, f, wo, inv)
  BY DEF EvictAndLoad
<1>2. \A c \in cached' : c \in cached /\ c.frame # f
  BY DEF EvictAndLoad
<1> HIDE DEF wo, inv
<1> QED
  BY <1>1, <1>2, LoadFresh

LEMMA TranslateFresh ==
  ASSUME FreshInv, SingleThread, SmallVpns,
         NEW t \in Threads, NEW v \in Vpns, NEW write \in BOOLEAN,
         Translate(t, v, write)
  PROVE  NoStaleLines' /\ TranslationsFresh'
<1>1. Idle(t)
  BY DEF Translate, TranslateTLBHit, TranslateTableHit, TranslateFaultFree,
         TranslateFaultOldest, TranslateFaultClock, TranslateNoFrame, Fault,
         Access
<1>2. inflight = {}
  BY <1>1 DEF FreshInv, CoherenceInv, TypeInv, Answered, SingleThread, Idle
<1>3. /\ TypeInv /\ NoStaleLines
      /\ Owned(page_table, frame_table) /\ Copied(tlb, page_table)
  BY DEF FreshInv, CoherenceInv
<1>4. ASSUME NEW f \in Frames, page_table[mode][v].valid,
             page_table[mode][v].frame = f, Return(t, v, f),
             UNCHANGED <<frame_table, cached>>
      PROVE  NoStaleLines' /\ TranslationsFresh'
  <2>1. frame_table[f] = v
    BY <1>3, <1>4 DEF Owned, SmallVpns
  <2>2. inflight' = {[thread |-> t, vpn |-> v, frame |-> f]}
    BY <1>2, <1>4 DEF Return
  <2> QED
    BY <1>3, <1>4, <2>1, <2>2 DEF NoStaleLines, TranslationsFresh
<1>5. CASE TranslateTLBHit(t, v, write)
  <2>1. PICK w \in Ways : /\ FirstMatch(tlb, v, w)
                          /\ Return(t, v, tlb[SetOf(v)][w].pfn)
    BY <1>5 DEF TranslateTLBHit
  <2>2. SetOf(v) \in Sets
    BY SetOfType, SizesAssumption
  <2>3. /\ tlb[SetOf(v)][w].valid /\ tlb[SetOf(v)][w].vpn = v
    BY <2>1 DEF FirstMatch, Matches
  <2>4. /\ page_table[mode][v].valid
        /\ page_table[mode][v].frame = tlb[SetOf(v)][w].pfn
        /\ tlb[SetOf(v)][w].pfn \in Frames
    BY <1>3, <2>2, <2>3 DEF Copied, Owned
  <2> QED
    BY <1>4, <1>5, <2>1, <2>4 DEF TranslateTLBHit
<1>6. CASE TranslateTableHit(t, v, write)
  <2>1. page_table[mode][v].valid /\ page_table[mode][v].frame \in Frames
    BY <1>3, <1>6 DEF TranslateTableHit, Mapped, Owned
  <2> QED
    BY <1>4, <1>6, <2>1 DEF TranslateTableHit
<1>7. CASE TranslateFaultFree(t, v, write)
  <2> DEFINE f == Head(free_frames)
  <2>1. /\ f \in Frames /\ 1 \in DOMAIN free_frames /\ free_frames[1] = f
        /\ cached' = cached /\ Load(t, v, write, f, page_table, tlb)
    BY <1>3, <1>7 DEF TranslateFaultFree, TypeInv
  <2> HIDE DEF f
  <2>2. frame_table[f] = -1
    BY <2>1, CoherenceParts DEF FreshInv, FramesAccounted
  <2>3. \A c \in cached' : c \in cached /\ c.frame # f
    BY <1>3, <2>1, <2>2, SizesAssumption DEF NoStaleLines, TypeInv
  <2> QED
    BY <1>2, <1>3, <2>1, <2>3, LoadFresh
<1>8. CASE TranslateFaultOldest(t, v, write)
  BY <1>2, <1>3, <1>8, EvictAndLoadFresh DEF TranslateFaultOldest
<1>9. CASE TranslateFaultClock(t, v, write)
  <2>1. PICK k \in 0 .. 2 * NumFrames - 1 :
          EvictAndLoad(t, v, write, HandAt(k), Swept(k))
    BY <1>9 DEF TranslateFaultClock
  <2>2. HandAt(k) \in Frames
    BY <1>3, HandAtType, SizesAssumption
  <2> QED
    BY <1>2, <1>3, <2>1, <2>2, EvictAndLoadFresh
<1>10. CASE TranslateNoFrame(t, v, write)
  BY <1>2, <1>3, <1>10 DEF TranslateNoFrame, NoStaleLines, TranslationsFresh
<1> QED
  BY <1>5, <1>6, <1>7, <1>8, <1>9, <1>10 DEF Translate

LEMMA FreshStep ==
  ASSUME SingleMode, SingleThread, SmallVpns
  PROVE  FreshInv /\ [Next]_vars => FreshInv'
<1> SUFFICES ASSUME FreshInv, [Next]_vars PROVE NoStaleLines' /\ TranslationsFresh'
  BY CoherenceStep, SmallNarrow DEF FreshInv
<1>1. ASSUME NEW t \in Threads, NEW v \in Vpns, NEW write \in BOOLEAN,
             Translate(t, v, write)
      PROVE  NoStaleLines' /\ TranslationsFresh'
  BY <1>1, TranslateFresh
<1>2. ASSUME UNCHANGED <<frame_table, inflight, cached>>
      PROVE  NoStaleLines' /\ TranslationsFresh'
  BY <1>2 DEF FreshInv, NoStaleLines, TranslationsFresh
<1>3. ASSUME NEW t \in Threads, Request(t)
      PROVE  NoStaleLines' /\ TranslationsFresh'
  <2>1. PICK r \in inflight :
          /\ inflight' = inflight \ {r}
          /\ cached' = cached \cup {[frame |-> r.frame, vpn |-> r.vpn]}
    BY <1>3 DEF Request
  <2>2. frame_table' = frame_table
    BY <1>3 DEF Request
  <2> QED
    BY <2>1, <2>2 DEF FreshInv, NoStaleLines, TranslationsFresh
<1>4. ASSUME NEW p \in Policies, SetReplacementPolicy(p)
      PROVE  NoStaleLines' /\ TranslationsFresh'
  BY <1>2, <1>4 DEF SetReplacementPolicy, Command
<1>5. ASSUME NEW m \in Modes, SetMultiLevelPaging(m)
      PROVE  NoStaleLines' /\ TranslationsFresh'
  BY <1>2, <1>5 DEF SetMultiLevelPaging, Command
<1>6. ASSUME NEW v \in RegionPages, NEW prot \in Protections,
             ChangeRegion(v, prot)
      PROVE  NoStaleLines' /\ TranslationsFresh'
  BY <1>2, <1>6 DEF ChangeRegion, Command
<1>7. CASE UNCHANGED vars
  BY <1>2, <1>7 DEF vars
<1> QED
  BY <1>1, <1>3, <1>4, <1>5, <1>6, <1>7 DEF Next

\* With one caller, no cache line outlives its page's stay in the frame, and
\* no caller uses a translation after its page has left.
THEOREM CachesFresh ==
  ASSUME SingleMode, SingleThread, SmallVpns
  PROVE  Spec => [](NoStaleLines /\ TranslationsFresh)
<1>1. Init => FreshInv
  BY InitCoherent DEF Init, FreshInv, NoStaleLines, TranslationsFresh
<1>2. FreshInv => NoStaleLines /\ TranslationsFresh
  BY DEF FreshInv
<1> QED
  BY <1>1, <1>2, FreshStep, PTL DEF Spec

-----------------------------------------------------------------------------
(* The refinement of DemandPaging.  A step is described by what it does to  *)
(* the mappings and the dirty pages; the four lemmas after that turn such a *)
(* description into an action of DemandPaging.                             *)

Valid(pt, v) == pt[mode][v].valid
Dirty(pt, v) == pt[mode][v].valid /\ pt[mode][v].dirty

\* qt maps v to frame f besides what pt maps, except for the pages that go.
LoadedInto(pt, qt, v, f, write, gone) ==
  \A u \in Vpns :
    /\ Valid(qt, u) <=> u = v \/ (Valid(pt, u) /\ u \notin gone)
    /\ Valid(qt, u) => qt[mode][u].frame = IF u = v THEN f ELSE pt[mode][u].frame
    /\ Valid(qt, u) => (qt[mode][u].dirty <=> IF u = v THEN write
                                                      ELSE pt[mode][u].dirty)

\* qt maps what pt does; v is dirty if it is written.
UsedIn(pt, qt, v, write) ==
  SameMappings(pt, qt) /\ \A u \in Vpns :
    qt[mode][u].dirty <=> pt[mode][u].dirty \/ (u = v /\ write)

Resident(pt) == [v \in {u \in Vpns : Valid(pt, u)} |-> pt[mode][v].frame]
Written(pt)  == {v \in Vpns : Dirty(pt, v)}

\* The refinement mapping, for pages the walk reaches.
LEMMA MappingOf ==
  ASSUME NarrowVpns
  PROVE  /\ [v \in MappedPages |-> page_table[mode][v].frame] = Resident(page_table)
         /\ {v \in MappedPages : page_table[mode][v].dirty} = Written(page_table)
<1>1. \A v \in Vpns : Mapped(mode, v) <=> Valid(page_table, v)
  BY DEF NarrowVpns, Mapped, Reachable, Valid
<1>2. MappedPages = {v \in Vpns : Valid(page_table, v)}
  BY <1>1 DEF MappedPages
<1>3. {v \in MappedPages : page_table[mode][v].dirty} = Written(page_table)
  BY <1>2 DEF Written, Dirty, Valid
<1> QED
  BY <1>2, <1>3 DEF Resident

LEMMA MappingOfNext ==
  ASSUME NarrowVpns, mode' = mode
  PROVE  /\ [v \in MappedPages |-> page_table[mode][v].frame]' = Resident(page_table')
         /\ {v \in MappedPages : page_table[mode][v].dirty}' = Written(page_table')
<1>1. \A v \in Vpns : Mapped(mode, v)' <=> Valid(page_table', v)
  BY DEF NarrowVpns, Mapped, Reachable, Valid
<1>2. MappedPages' = {v \in Vpns : Valid(page_table', v)}
  BY <1>1 DEF MappedPages
<1>3. {v \in MappedPages : page_table[mode][v].dirty}' = Written(page_table')
  BY <1>2 DEF Written, Dirty, Valid
<1>4. [v \in MappedPages |-> page_table[mode][v].frame]' = Resident(page_table')
  BY <1>2 DEF Resident
<1> QED
  BY <1>3, <1>4

LEMMA UsedIsHit ==
  ASSUME NarrowVpns, mode' = mode, NEW t \in Threads, NEW v \in Vpns,
         NEW write \in BOOLEAN, Idle(t), Valid(page_table, v),
         UsedIn(page_table, page_table', v, write),
         Return(t, v, page_table[mode][v].frame),
         page_hits' = page_hits + 1, UNCHANGED <<page_faults, disk_accesses>>
  PROVE  Abstract!Hit(t, v, write)
<1>1. Resident(page_table') = Resident(page_table)
  BY DEF UsedIn, SameMappings, Resident, Valid
<1>2. Written(page_table') = Written(page_table) \cup (IF write THEN {v} ELSE {})
  BY DEF UsedIn, SameMappings, Written, Dirty, Valid
<1>3. /\ v \in DOMAIN Resident(page_table)
      /\ Resident(page_table)[v] = page_table[mode][v].frame
  BY DEF Resident
<1>4. /\ \A a \in inflight : a.thread # t
      /\ inflight' = inflight \cup
           {[thread |-> t, vpn |-> v, frame |-> Resident(page_table')[v]]}
  BY <1>1, <1>3 DEF Idle, Return
<1> QED
  BY <1>1, <1>2, <1>3, <1>4, MappingOf, MappingOfNext
  DEF Abstract!Hit, Abstract!In, Abstract!Answer, Abstract!Written

LEMMA LoadedIsLoad ==
  ASSUME NarrowVpns, mode' = mode, NEW t \in Threads, NEW v \in Vpns,
         NEW write \in BOOLEAN, NEW f \in Frames, Idle(t),
         ~Valid(page_table, v), Vacant(page_table, f),
         LoadedInto(page_table, page_table', v, f, write, {}),
         Return(t, v, f), page_faults' = page_faults + 1,
         disk_accesses' = disk_accesses + 1, UNCHANGED page_hits
  PROVE  Abstract!Load(t, v, write)
<1> DEFINE R == Resident(page_table)
<1>1. v \notin DOMAIN R /\ \A q \in DOMAIN R : R[q] # f
  BY DEF Resident, Vacant, Valid
<1>2. Resident(page_table') =
        [q \in DOMAIN R \cup {v} |-> IF q = v THEN f ELSE R[q]]
  <2>1. DOMAIN R = {u \in Vpns : Valid(page_table, u)}
    BY DEF Resident
  <2>2. {u \in Vpns : Valid(page_table', u)} = DOMAIN R \cup {v}
    BY <2>1 DEF LoadedInto
  <2>3. \A q \in DOMAIN R \cup {v} :
          page_table'[mode][q].frame = IF q = v THEN f ELSE R[q]
    BY <2>1, <2>2 DEF LoadedInto, Resident
  <2> HIDE DEF R
  <2> QED
    BY <2>2, <2>3 DEF Resident
<1>3. Written(page_table') = Written(page_table) \cup (IF write THEN {v} ELSE {})
  BY DEF LoadedInto, Written, Dirty, Valid
<1>4. /\ \A a \in inflight : a.thread # t
      /\ inflight' = inflight \cup
           {[thread |-> t, vpn |-> v, frame |-> Resident(page_table')[v]]}
  BY <1>2 DEF Idle, Return
<1>5. f \in 0 .. NumFrames - 1
  BY DEF Frames
<1> QED
  BY <1>1, <1>2, <1>3, <1>4, <1>5, MappingOf, MappingOfNext
  DEF Abstract!Load, Abstract!In, Abstract!Answer, Abstract!Written,
      Abstract!Free, Abstract!Frames

LEMMA LoadedIsReplace ==
  ASSUME NarrowVpns, mode' = mode, NEW t \in Threads, NEW v \in Vpns,
         NEW write \in BOOLEAN, NEW old \in Vpns, Idle(t),
         ~Valid(page_table, v), Valid(page_table, old), ToInt(old) >= 0,
         \A f \in Frames : ~Vacant(page_table, f),
         LoadedInto(page_table, page_table', v, page_table[mode][old].frame,
                    write, {old}),
         Return(t, v, page_table[mode][old].frame),
         page_faults' = page_faults + 1, UNCHANGED page_hits,
         disk_accesses' =
           disk_accesses + (IF page_table[mode][old].dirty THEN 2 ELSE 1)
  PROVE  Abstract!Replace(t, v, write)
<1> DEFINE R == Resident(page_table)
           W == Written(page_table)
<1>1. /\ v \notin DOMAIN R /\ old \in DOMAIN R /\ v # old
      /\ R[old] = page_table[mode][old].frame
      /\ old \notin {u \in Vpns : ToInt(u) < 0}
  BY ToIntType, SizesAssumption DEF Resident
<1>2. Resident(page_table') =
        [q \in (DOMAIN R \ {old}) \cup {v} |-> IF q = v THEN R[old] ELSE R[q]]
  <2>1. DOMAIN R = {u \in Vpns : Valid(page_table, u)}
    BY DEF Resident
  <2>2. {u \in Vpns : Valid(page_table', u)} = (DOMAIN R \ {old}) \cup {v}
    BY <1>1, <2>1 DEF LoadedInto
  <2>3. \A q \in (DOMAIN R \ {old}) \cup {v} :
          page_table'[mode][q].frame = IF q = v THEN R[old] ELSE R[q]
    BY <1>1, <2>1, <2>2 DEF LoadedInto, Resident
  <2> HIDE DEF R
  <2> QED
    BY <2>2, <2>3 DEF Resident
<1>3. Written(page_table') = (W \ {old}) \cup (IF write THEN {v} ELSE {})
  BY <1>1 DEF LoadedInto, Written, Dirty, Valid
<1>4. /\ \A a \in inflight : a.thread # t
      /\ inflight' = inflight \cup
           {[thread |-> t, vpn |-> v, frame |-> Resident(page_table')[v]]}
  BY <1>1, <1>2 DEF Idle, Return
<1>5. disk_accesses' = disk_accesses + (IF old \in W THEN 2 ELSE 1)
  BY DEF Written, Dirty, Valid
<1>6. \A f \in 0 .. NumFrames - 1 : ~\A q \in DOMAIN R : R[q] # f
  BY DEF Frames, Vacant, Resident, Valid
<1> HIDE DEF R, W
<1>7. /\ [u \in MappedPages |-> page_table[mode][u].frame] = R
      /\ {u \in MappedPages : page_table[mode][u].dirty} = W
  BY MappingOf DEF R, W
<1> QED
  BY <1>1, <1>2, <1>3, <1>4, <1>5, <1>6, <1>7, MappingOfNext
  DEF Abstract!Replace, Abstract!In, Abstract!Answer, Abstract!Written,
      Abstract!Free, Abstract!Frames

-----------------------------------------------------------------------------
(* What the operators of VirtualMemory do, in those terms.                 *)

LEMMA TouchedUsed ==
  ASSUME TypeInv, NarrowVpns, NEW v \in Vpns, NEW write \in BOOLEAN, NEW now
  PROVE  UsedIn(page_table, Touched(mode, v, write, now), v, write)
<1> DEFINE used == [page_table[mode][v] EXCEPT !.last_access = now,
                                               !.referenced = TRUE]
           e == IF write THEN [used EXCEPT !.dirty = TRUE] ELSE used
<1>1. mode \in {"flat", "multi"} /\ page_table \in Tables
  BY ModeType DEF TypeInv, Sound
<1>2. page_table[mode][v] \in PageTableEntry
  BY <1>1 DEF Tables
<1>3. e.dirty <=> page_table[mode][v].dirty \/ write
  BY <1>2 DEF PageTableEntry
<1>4. Touched(mode, v, write, now) = [page_table EXCEPT ![mode][v] = e]
  BY DEF Touched, Reachable, NarrowVpns
<1> HIDE DEF e
<1>5. \A u \in Vpns : [page_table EXCEPT ![mode][v] = e][mode][u] =
                        IF u = v THEN e ELSE page_table[mode][u]
  BY <1>1 DEF Tables
<1> QED
  BY <1>3, <1>4, <1>5, TouchedSame DEF UsedIn

LEMMA WithMappingLoaded ==
  ASSUME NarrowVpns, mode \in {"flat", "multi"}, NEW pt, Sound(pt),
         NEW v \in Vpns, NEW f, NEW write \in BOOLEAN, NEW now
  PROVE  LoadedInto(pt, WithMapping(pt, mode, v, f, write, now), v, f, write, {})
<1> DEFINE e == [valid |-> TRUE, dirty |-> write, referenced |-> TRUE,
                 frame |-> f, last_access |-> now, load_time |-> now]
<1>1. WithMapping(pt, mode, v, f, write, now) = [pt EXCEPT ![mode][v] = e]
  BY DEF WithMapping, Reachable, NarrowVpns
<1>2. e.valid /\ e.frame = f /\ e.dirty = write
  OBVIOUS
<1> HIDE DEF e
<1>3. \A u \in Vpns : [pt EXCEPT ![mode][v] = e][mode][u] =
                        IF u = v THEN e ELSE pt[mode][u]
  BY DEF Sound, Tables
<1> QED
  BY <1>1, <1>2, <1>3 DEF LoadedInto, Valid

LEMMA EvictAndLoadLoaded ==
  ASSUME TypeInv, NarrowVpns, NEW t, NEW v \in Vpns, NEW write \in BOOLEAN,
         NEW f, NEW pt, Sound(pt), SameMappings(page_table, pt),
         \A u \in Vpns : pt[mode][u].dirty = page_table[mode][u].dirty,
         frame_table[f] \in Vpns, ~Valid(page_table, v),
         EvictAndLoad(t, v, write, f, pt)
  PROVE  LoadedInto(page_table, page_table', v, f, write, {frame_table[f]})
<1> DEFINE old == frame_table[f]
           wo == WithoutMapping(pt, mode, old)
           e == [pt[mode][old] EXCEPT !.valid = FALSE]
           r == [pt[mode][old] EXCEPT !.valid = FALSE, !.frame = -1,
                                      !.dirty = FALSE, !.referenced = FALSE]
<1>1. mode \in {"flat", "multi"} /\ pt \in Tables /\ Reachable(mode, old)
  BY ModeType DEF TypeInv, Sound, Reachable, NarrowVpns
<1>2. page_table' = WithMapping(wo, mode, v, f, write, access_counter')
  BY DEF EvictAndLoad, Load
<1>3. Sound(wo)
  BY <1>1, WithoutMappingSound
<1>4. wo \in {[pt EXCEPT ![mode][old] = e], [pt EXCEPT ![mode][old] = r]}
  BY <1>1 DEF WithoutMapping
<1>5. ~e.valid /\ ~r.valid
  BY <1>1 DEF Tables, PageTableEntry
<1> HIDE DEF e, r, wo
<1>6. \A u \in Vpns : /\ u # old => wo[mode][u] = pt[mode][u]
                      /\ u = old => ~wo[mode][u].valid
  <2>1. \A u \in Vpns :
          /\ [pt EXCEPT ![mode][old] = e][mode][u] = IF u = old THEN e ELSE pt[mode][u]
          /\ [pt EXCEPT ![mode][old] = r][mode][u] = IF u = old THEN r ELSE pt[mode][u]
    BY <1>1 DEF Tables
  <2> QED
    BY <1>4, <1>5, <2>1
<1>7. LoadedInto(wo, page_table', v, f, write, {})
  BY <1>1, <1>2, <1>3, WithMappingLoaded
<1> HIDE DEF old
<1>8. \A u \in Vpns : u # old => wo[mode][u].dirty = page_table[mode][u].dirty
  BY <1>6
<1>9. \A u \in Vpns : Valid(wo, u) <=> Valid(page_table, u) /\ u # old
  BY <1>6 DEF SameMappings, Valid
<1>10. \A u \in Vpns : u # old => wo[mode][u].frame = page_table[mode][u].frame
  BY <1>6 DEF SameMappings
<1>11. LoadedInto(page_table, page_table', v, f, write, {old})
  BY <1>7, <1>8, <1>9, <1>10 DEF LoadedInto
<1> QED
  BY <1>11 DEF old

LEMMA EvictAndLoadReplaces ==
  ASSUME CoherenceInv, NarrowVpns, mode' = mode,
         NEW t \in Threads, NEW v \in Vpns, NEW write \in BOOLEAN,
         NEW f \in Frames, NEW pt, Sound(pt), SameMappings(page_table, pt),
         \A u \in Vpns : pt[mode][u].dirty = page_table[mode][u].dirty,
         frame_table[f] >= 0, free_frames = <<>>, Fault(t, v, write),
         EvictAndLoad(t, v, write, f, pt)
  PROVE  Abstract!Replace(t, v, write)
<1> DEFINE old == frame_table[f]
<1>1. /\ TypeInv /\ Idle(t)
      /\ page_faults' = page_faults + 1 /\ UNCHANGED page_hits
  BY DEF CoherenceInv, Fault, Access
<1>2. ~Valid(page_table, v)
  BY DEF Fault, Mapped, Reachable, NarrowVpns, Valid
<1>3. /\ old \in Vpns /\ Valid(page_table, old)
      /\ page_table[mode][old].frame = f
  BY <1>1, NamedOwner DEF CoherenceInv, Valid
<1>4. ToInt(old) >= 0
  BY <1>3 DEF CoherenceInv, Owned, Valid
<1>5. \A g \in Frames : ~Vacant(page_table, g)
  BY DEF CoherenceInv, Listed
<1>6. LoadedInto(page_table, page_table', v, f, write, {old})
  BY <1>1, <1>2, <1>3, EvictAndLoadLoaded
<1>7. Return(t, v, f)
  BY DEF EvictAndLoad, Load
<1>8. disk_accesses' =
        disk_accesses + (IF page_table[mode][old].dirty THEN 2 ELSE 1)
  BY <1>3 DEF EvictAndLoad, Reachable, NarrowVpns
<1> HIDE DEF old
<1> QED
  BY <1>1, <1>2, <1>3, <1>4, <1>5, <1>6, <1>7, <1>8, LoadedIsReplace

LEMMA TranslateRefines ==
  ASSUME CoherenceInv, NarrowVpns,
         NEW t \in Threads, NEW v \in Vpns, NEW write \in BOOLEAN,
         Translate(t, v, write)
  PROVE  Abstract!Next
<1>1. /\ TypeInv /\ Sound(page_table) /\ frame_table \in [Frames -> Int]
      /\ free_frames \in Seq(Frames)
  BY DEF CoherenceInv, TypeInv
<1>2. Access(t, v, write)
  BY DEF Translate, TranslateTLBHit, TranslateTableHit, TranslateFaultFree,
         TranslateFaultOldest, TranslateFaultClock, TranslateNoFrame, Fault
<1>3. mode' = mode /\ mode \in {"flat", "multi"} /\ Idle(t)
  BY <1>1, <1>2, AccessType DEF Access
<1>4. CASE TranslateTLBHit(t, v, write)
  <2>1. PICK w \in Ways : /\ FirstMatch(tlb, v, w)
                          /\ Return(t, v, tlb[SetOf(v)][w].pfn)
    BY <1>4 DEF TranslateTLBHit
  <2>2. Valid(page_table, v) /\ page_table[mode][v].frame = tlb[SetOf(v)][w].pfn
    BY <2>1, SetOfType, SizesAssumption
    DEF CoherenceInv, Copied, FirstMatch, Matches, Valid
  <2>3. UsedIn(page_table, page_table', v, write)
    BY <1>1, <1>4, TouchedUsed DEF TranslateTLBHit
  <2>4. Abstract!Hit(t, v, write)
    BY <1>3, <1>4, <2>1, <2>2, <2>3, UsedIsHit DEF TranslateTLBHit, Access
  <2> QED
    BY <2>4 DEF Abstract!Next
<1>5. CASE TranslateTableHit(t, v, write)
  <2>1. Valid(page_table, v)
    BY <1>5 DEF TranslateTableHit, Mapped, Valid
  <2>2. UsedIn(page_table, page_table', v, write)
    BY <1>1, <1>5, TouchedUsed DEF TranslateTableHit
  <2>3. Abstract!Hit(t, v, write)
    BY <1>3, <1>5, <2>1, <2>2, UsedIsHit DEF TranslateTableHit
  <2> QED
    BY <2>3 DEF Abstract!Next
<1>6. CASE TranslateFaultFree(t, v, write)
  <2> DEFINE f == Head(free_frames)
  <2>1. f \in Frames /\ 1 \in DOMAIN free_frames /\ free_frames[1] = f
    BY <1>1, <1>6 DEF TranslateFaultFree
  <2>2. /\ page_table' = WithMapping(page_table, mode, v, f, write, access_counter')
        /\ Return(t, v, f)
        /\ page_faults' = page_faults + 1 /\ UNCHANGED page_hits
        /\ disk_accesses' = disk_accesses + 1 /\ ~Mapped(mode, v)
    BY <1>6 DEF TranslateFaultFree, Load, Fault
  <2> HIDE DEF f
  <2>3. Vacant(page_table, f)
    BY <2>1 DEF CoherenceInv, Listed
  <2>4. ~Valid(page_table, v)
    BY <2>2 DEF Mapped, Reachable, NarrowVpns, Valid
  <2>5. LoadedInto(page_table, page_table', v, f, write, {})
    BY <1>1, <1>3, <2>2, WithMappingLoaded
  <2>6. Abstract!Load(t, v, write)
    BY <1>3, <2>1, <2>2, <2>3, <2>4, <2>5, LoadedIsLoad
  <2> QED
    BY <2>6 DEF Abstract!Next
<1>7. CASE TranslateFaultOldest(t, v, write)
  <2>1. PICK f \in Frames : Oldest(f) /\ EvictAndLoad(t, v, write, f, page_table)
    BY <1>7 DEF TranslateFaultOldest
  <2>2. frame_table[f] >= 0
    BY <2>1 DEF Oldest
  <2>3. free_frames = <<>> /\ Fault(t, v, write)
    BY <1>7 DEF TranslateFaultOldest
  <2>4. SameMappings(page_table, page_table)
    BY DEF SameMappings
  <2>5. Abstract!Replace(t, v, write)
    BY <1>1, <1>3, <2>1, <2>2, <2>3, <2>4, EvictAndLoadReplaces
  <2> QED
    BY <2>5 DEF Abstract!Next
<1>8. CASE TranslateFaultClock(t, v, write)
  <2>1. PICK k \in 0 .. 2 * NumFrames - 1 :
          StopsAt(k) /\ EvictAndLoad(t, v, write, HandAt(k), Swept(k))
    BY <1>8 DEF TranslateFaultClock
  <2>2. HandAt(k) \in Frames /\ frame_table[HandAt(k)] >= 0
    BY <1>1, <2>1, HandAtType, SizesAssumption DEF StopsAt
  <2>3. free_frames = <<>> /\ Fault(t, v, write)
    BY <1>8 DEF TranslateFaultClock
  <2>4. Sound(Swept(k)) /\ SameMappings(page_table, Swept(k))
    BY <1>1, SweptSound, SweptSame
  <2>5. \A u \in Vpns : Swept(k)[mode][u].dirty = page_table[mode][u].dirty
    BY <1>1, <1>3 DEF Swept, Sound, Tables, PageTableEntry
  <2>6. Abstract!Replace(t, v, write)
    BY <1>1, <1>3, <2>1, <2>2, <2>3, <2>4, <2>5, EvictAndLoadReplaces
  <2> QED
    BY <2>6 DEF Abstract!Next
<1>9. CASE TranslateNoFrame(t, v, write)
  <2> DEFINE R == Resident(page_table)
  <2>1. v \notin DOMAIN R
    BY <1>9 DEF TranslateNoFrame, Fault, Mapped, Reachable, NarrowVpns, Resident, Valid
  <2>2. \A f \in 0 .. NumFrames - 1 : ~\A q \in DOMAIN R : R[q] # f
    <3>1. \A f \in Frames : ~Vacant(page_table, f)
      BY <1>9 DEF TranslateNoFrame, CoherenceInv, Listed
    <3> QED
      BY <3>1 DEF Frames, Vacant, Resident, Valid
  <2>3. DOMAIN R \subseteq {u \in Vpns : ToInt(u) < 0}
    BY <1>9 DEF TranslateNoFrame, CoherenceInv, Owned, Resident, Valid
  <2>4. /\ page_faults' = page_faults + 1 /\ disk_accesses' = disk_accesses + 1
        /\ UNCHANGED <<page_table, page_hits, inflight>>
    BY <1>9 DEF TranslateNoFrame, Fault
  <2> HIDE DEF R
  <2>5. [u \in MappedPages |-> page_table[mode][u].frame] = R
    BY MappingOf DEF R
  <2>6. /\ [u \in MappedPages |-> page_table[mode][u].frame]'
             = [u \in MappedPages |-> page_table[mode][u].frame]
        /\ {u \in MappedPages : page_table[mode][u].dirty}'
             = {u \in MappedPages : page_table[mode][u].dirty}
    BY <1>3, <2>4, MappingOf, MappingOfNext
  <2>7. Abstract!Refuse(v)
    BY <2>1, <2>2, <2>3, <2>4, <2>5, <2>6
    DEF Abstract!Refuse, Abstract!In, Abstract!Free, Abstract!Frames
  <2> QED
    BY <2>7 DEF Abstract!Next
<1> QED
  BY <1>4, <1>5, <1>6, <1>7, <1>8, <1>9 DEF Translate

\* translate(), with its TLB, its tables and its three policies, is demand
\* paging: what is in memory, which page leaves for another, what is dirty,
\* what each access is answered and what it costs are those of DemandPaging,
\* for any number of callers, in one mode.
THEOREM RefinesDemandPaging ==
  ASSUME SingleMode, NarrowVpns
  PROVE  Spec => ImplementsDemandPaging
<1>1. Init => Abstract!Init
  <2> SUFFICES ASSUME Init PROVE Abstract!Init
    OBVIOUS
  <2>1. MappedPages = {}
    BY ModeType DEF Init, MappedPages, Mapped, NoPage
  <2> QED
    BY <2>1 DEF Init, Abstract!Init
<1>2. CoherenceInv /\ [Next]_vars => [Abstract!Next]_(Abstract!vars)
  <2> SUFFICES ASSUME CoherenceInv, [Next]_vars
               PROVE  [Abstract!Next]_(Abstract!vars)
    OBVIOUS
  <2>1. ASSUME NEW t \in Threads, NEW v \in Vpns, NEW write \in BOOLEAN,
               Translate(t, v, write)
        PROVE  Abstract!Next
    BY <2>1, TranslateRefines
  <2>2. ASSUME mode' = mode, UNCHANGED page_table
        PROVE  /\ [u \in MappedPages |-> page_table[mode][u].frame]'
                    = [u \in MappedPages |-> page_table[mode][u].frame]
               /\ {u \in MappedPages : page_table[mode][u].dirty}'
                    = {u \in MappedPages : page_table[mode][u].dirty}
    BY <2>2, MappingOf, MappingOfNext
  <2>3. ASSUME NEW t \in Threads, Request(t) PROVE Abstract!Next
    <3>1. mode' = mode /\ UNCHANGED <<page_table, page_hits, page_faults, disk_accesses>>
      BY <2>3 DEF Request, settings
    <3>2. Abstract!Use(t)
      BY <2>2, <2>3, <3>1 DEF Request, Abstract!Use
    <3> QED
      BY <3>2 DEF Abstract!Next
  <2>4. ASSUME mode' = mode,
               UNCHANGED <<page_table, page_hits, page_faults, disk_accesses, inflight>>
        PROVE  UNCHANGED Abstract!vars
    BY <2>2, <2>4 DEF Abstract!vars
  <2>5. ASSUME NEW p \in Policies, SetReplacementPolicy(p)
        PROVE  UNCHANGED Abstract!vars
    BY <2>4, <2>5 DEF SetReplacementPolicy, Command
  <2>6. ASSUME NEW m \in Modes, SetMultiLevelPaging(m)
        PROVE  UNCHANGED Abstract!vars
    <3>1. mode' = mode
      BY <2>6 DEF SetMultiLevelPaging, SingleMode, CoherenceInv, TypeInv
    <3> QED
      BY <2>4, <2>6, <3>1 DEF SetMultiLevelPaging, Command
  <2>7. ASSUME NEW v \in RegionPages, NEW prot \in Protections,
               ChangeRegion(v, prot)
        PROVE  UNCHANGED Abstract!vars
    BY <2>4, <2>7 DEF ChangeRegion, Command
  <2>8. CASE UNCHANGED vars
    BY <2>4, <2>8 DEF vars
  <2> QED
    BY <2>1, <2>3, <2>5, <2>6, <2>7, <2>8 DEF Next
<1> QED
  BY <1>1, <1>2, InitCoherent, CoherenceStep, PTL
  DEF Spec, ImplementsDemandPaging, Abstract!Spec
-----------------------------------------------------------------------------
(* The policies, against the accesses that were made.                      *)

Page(v)  == page_table[mode][v]
InMemory == {v \in Vpns : Page(v).valid}

LEMMA OwnersInMemory == SmallVpns /\ CoherenceInv => Owners = InMemory
<1> SUFFICES ASSUME SmallVpns, CoherenceInv PROVE Owners = InMemory
  OBVIOUS
<1>1. OwnersMatch
  BY CoherenceParts
<1>2. ASSUME NEW u \in Owners PROVE u \in InMemory
  BY <1>1 DEF Owners, InMemory, Page, OwnersMatch, Mapped
<1>3. ASSUME NEW u \in InMemory PROVE u \in Owners
  <2>1. Mapped(mode, u) /\ u # -1
    BY SizesAssumption DEF InMemory, Page, Mapped, Reachable, SmallVpns
  <2> QED
    BY <1>1, <2>1 DEF Owners, InMemory, OwnersMatch
<1> QED
  BY <1>2, <1>3

LEMMA OwnersInMemoryNext ==
  ASSUME SmallVpns, CoherenceInv'
  PROVE  Owners' = InMemory'
<1>1. (SmallVpns /\ CoherenceInv => Owners = InMemory)'
  BY OwnersInMemory, PTL
<1>2. SmallVpns'
  BY DEF SmallVpns, ToInt
<1> QED
  BY <1>1, <1>2

\* The list has the members of S, those with later times first.
Latest(seq, S, at) ==
  /\ seq \in Seq(Nat) /\ S \subseteq In(seq)
  /\ \A x, y \in S : x # y => \/ at[x] < at[y] /\ Before(seq, y, x)
                              \/ at[y] < at[x] /\ Before(seq, x, y)

LEMMA LatestKept ==
  ASSUME NEW seq, NEW S, NEW at, Latest(seq, S, at), NEW T \in SUBSET S,
         NEW bt, \A x \in T : bt[x] = at[x]
  PROVE  Latest(seq, T, bt)
BY DEF Latest

LEMMA LatestFirst ==
  ASSUME NEW seq, NEW S, NEW at, Latest(seq, S, at),
         NEW v \in Nat, NEW T, T \subseteq S \cup {v}, v \in T,
         NEW bt, \A x \in T \ {v} : bt[x] = at[x] /\ at[x] < bt[v]
  PROVE  Latest(First(v, seq), T, bt)
<1> DEFINE rest == Without(seq, v)
           new  == <<v>> \o rest
<1>1. /\ rest \in Seq(Nat)
      /\ \A x \in In(seq) : x # v => x \in In(rest)
      /\ \A x, y \in In(seq) : x # v /\ y # v /\ Before(seq, x, y) => Before(rest, x, y)
  BY WithoutOrder DEF Latest
<1> HIDE DEF rest
<1>2. /\ new \in Seq(Nat) /\ v \in In(new) /\ In(rest) \subseteq In(new)
      /\ \A y \in In(rest) : Before(new, v, y)
      /\ \A x, y \in In(rest) : Before(rest, x, y) => Before(new, x, y)
  BY <1>1, PrependOrder
<1> HIDE DEF new
<1>3. \A x \in T : x # v => x \in S /\ x \in In(seq) /\ x \in In(rest)
  BY <1>1 DEF Latest
<1>4. T \subseteq In(new)
  BY <1>2, <1>3
<1>5. ASSUME NEW x \in T, NEW y \in T, x # y
      PROVE  \/ bt[x] < bt[y] /\ Before(new, y, x)
             \/ bt[y] < bt[x] /\ Before(new, x, y)
  <2>1. CASE x = v
    BY <1>2, <1>3, <1>5, <2>1
  <2>2. CASE y = v
    BY <1>2, <1>3, <1>5, <2>2
  <2>3. CASE x # v /\ y # v
    <3>1. \/ at[x] < at[y] /\ Before(seq, y, x)
          \/ at[y] < at[x] /\ Before(seq, x, y)
      BY <1>3, <1>5, <2>3 DEF Latest
    <3> QED
      BY <1>1, <1>2, <1>3, <2>3, <3>1
  <2> QED
    BY <2>1, <2>2, <2>3
<1>6. First(v, seq) = new
  BY DEF First, new, rest
<1> QED
  BY <1>2, <1>4, <1>5, <1>6 DEF Latest

AccessTimes(pt) == [v \in Vpns |-> pt[mode][v].last_access]
LoadTimes(pt)   == [v \in Vpns |-> pt[mode][v].load_time]

\* The code's times and bits agree with the record of the accesses.
Recorded(pt, S, now) ==
  /\ Latest(recency, S, AccessTimes(pt))
  /\ Latest(loads, S, LoadTimes(pt))
  /\ \A u \in S : pt[mode][u].last_access <= now /\ pt[mode][u].load_time <= now
  /\ written = {u \in S : pt[mode][u].dirty}
  /\ \A u \in S : u \in recent => pt[mode][u].referenced

HistoryInv == CoherenceInv /\ Recorded(page_table, InMemory, access_counter)

\* Two tables that differ in reference bits at most.
KeepsTimes(pt, qt) ==
  \A u \in Vpns : /\ qt[mode][u].valid = pt[mode][u].valid
                  /\ qt[mode][u].last_access = pt[mode][u].last_access
                  /\ qt[mode][u].load_time = pt[mode][u].load_time
                  /\ qt[mode][u].dirty = pt[mode][u].dirty

\* An access of page v, at the time now, that takes the frames of the pages
\* that go.
Enters(pt, qt, v, write, gone, now) ==
  /\ \A u \in Vpns : Valid(qt, u) <=> u = v \/ (Valid(pt, u) /\ u \notin gone)
  /\ \A u \in Vpns \ {v} : Valid(qt, u) =>
       /\ qt[mode][u].last_access = pt[mode][u].last_access
       /\ qt[mode][u].load_time = pt[mode][u].load_time
       /\ qt[mode][u].dirty = pt[mode][u].dirty
       /\ gone = {} => qt[mode][u].referenced = pt[mode][u].referenced
  /\ qt[mode][v].last_access = now
  /\ qt[mode][v].load_time = IF Valid(pt, v) THEN pt[mode][v].load_time ELSE now
  /\ qt[mode][v].dirty <=> write \/ Dirty(pt, v)
  /\ qt[mode][v].referenced

LEMMA TouchedEnters ==
  ASSUME TypeInv, NarrowVpns, NEW v \in Vpns, NEW write \in BOOLEAN, NEW now,
         Valid(page_table, v)
  PROVE  Enters(page_table, Touched(mode, v, write, now), v, write, {}, now)
<1> DEFINE used == [page_table[mode][v] EXCEPT !.last_access = now,
                                               !.referenced = TRUE]
           e == IF write THEN [used EXCEPT !.dirty = TRUE] ELSE used
<1>1. mode \in {"flat", "multi"} /\ page_table \in Tables
  BY ModeType DEF TypeInv, Sound
<1>2. page_table[mode][v] \in PageTableEntry
  BY <1>1 DEF Tables
<1>3. /\ e.dirty <=> page_table[mode][v].dirty \/ write
      /\ e.last_access = now /\ e.referenced
      /\ e.valid = page_table[mode][v].valid
      /\ e.load_time = page_table[mode][v].load_time
  BY <1>2 DEF PageTableEntry
<1>4. Touched(mode, v, write, now) = [page_table EXCEPT ![mode][v] = e]
  BY DEF Touched, Reachable, NarrowVpns
<1> HIDE DEF e
<1>5. \A u \in Vpns : [page_table EXCEPT ![mode][v] = e][mode][u] =
                        IF u = v THEN e ELSE page_table[mode][u]
  BY <1>1 DEF Tables
<1> QED
  BY <1>3, <1>4, <1>5 DEF Enters, Valid, Dirty

LEMMA WithMappingEnters ==
  ASSUME NarrowVpns, mode \in {"flat", "multi"}, NEW pt, Sound(pt),
         NEW v \in Vpns, ~Valid(pt, v), NEW f, NEW write \in BOOLEAN, NEW now
  PROVE  Enters(pt, WithMapping(pt, mode, v, f, write, now), v, write, {}, now)
<1> DEFINE e == [valid |-> TRUE, dirty |-> write, referenced |-> TRUE,
                 frame |-> f, last_access |-> now, load_time |-> now]
<1>1. WithMapping(pt, mode, v, f, write, now) = [pt EXCEPT ![mode][v] = e]
  BY DEF WithMapping, Reachable, NarrowVpns
<1>2. /\ e.valid /\ e.dirty = write /\ e.referenced
      /\ e.last_access = now /\ e.load_time = now
  OBVIOUS
<1> HIDE DEF e
<1>3. \A u \in Vpns : [pt EXCEPT ![mode][v] = e][mode][u] =
                        IF u = v THEN e ELSE pt[mode][u]
  BY DEF Sound, Tables
<1> QED
  BY <1>1, <1>2, <1>3 DEF Enters, Valid, Dirty

LEMMA EvictAndLoadEnters ==
  ASSUME TypeInv, NarrowVpns, NEW t, NEW v \in Vpns, NEW write \in BOOLEAN,
         NEW f, NEW pt, Sound(pt), KeepsTimes(page_table, pt),
         frame_table[f] \in Vpns, Valid(page_table, frame_table[f]),
         ~Valid(page_table, v), EvictAndLoad(t, v, write, f, pt)
  PROVE  Enters(page_table, page_table', v, write, {frame_table[f]}, access_counter')
<1> DEFINE old == frame_table[f]
           wo == WithoutMapping(pt, mode, old)
           e == [pt[mode][old] EXCEPT !.valid = FALSE]
           r == [pt[mode][old] EXCEPT !.valid = FALSE, !.frame = -1,
                                      !.dirty = FALSE, !.referenced = FALSE]
<1>1. mode \in {"flat", "multi"} /\ pt \in Tables /\ Reachable(mode, old)
  BY ModeType DEF TypeInv, Sound, Reachable, NarrowVpns
<1>2. page_table' = WithMapping(wo, mode, v, f, write, access_counter')
  BY DEF EvictAndLoad, Load
<1>3. Sound(wo)
  BY <1>1, WithoutMappingSound
<1>4. wo \in {[pt EXCEPT ![mode][old] = e], [pt EXCEPT ![mode][old] = r]}
  BY <1>1 DEF WithoutMapping
<1>5. ~e.valid /\ ~r.valid
  BY <1>1 DEF Tables, PageTableEntry
<1>6. v # old
  OBVIOUS
<1> HIDE DEF e, r, wo
<1>7. \A u \in Vpns : /\ u # old => wo[mode][u] = pt[mode][u]
                      /\ u = old => ~wo[mode][u].valid
  <2>1. \A u \in Vpns :
          /\ [pt EXCEPT ![mode][old] = e][mode][u] = IF u = old THEN e ELSE pt[mode][u]
          /\ [pt EXCEPT ![mode][old] = r][mode][u] = IF u = old THEN r ELSE pt[mode][u]
    BY <1>1 DEF Tables
  <2> QED
    BY <1>4, <1>5, <2>1
<1> HIDE DEF old
<1>8. ~Valid(wo, v)
  BY <1>6, <1>7 DEF KeepsTimes, Valid
<1>9. Enters(wo, page_table', v, write, {}, access_counter')
  BY <1>1, <1>2, <1>3, <1>8, WithMappingEnters
<1>10. /\ \A u \in Vpns : Valid(wo, u) <=> Valid(page_table, u) /\ u # old
       /\ \A u \in Vpns \ {old} :
            /\ wo[mode][u].last_access = page_table[mode][u].last_access
            /\ wo[mode][u].load_time = page_table[mode][u].load_time
            /\ wo[mode][u].dirty = page_table[mode][u].dirty
  BY <1>7 DEF KeepsTimes, Valid
<1>11. \A u \in Vpns : Valid(page_table', u) <=>
                         u = v \/ (Valid(page_table, u) /\ u # old)
  BY <1>9, <1>10 DEF Enters
<1>12. \A u \in Vpns \ {v} : Valid(page_table', u) =>
         /\ page_table'[mode][u].last_access = page_table[mode][u].last_access
         /\ page_table'[mode][u].load_time = page_table[mode][u].load_time
         /\ page_table'[mode][u].dirty = page_table[mode][u].dirty
  BY <1>9, <1>10, <1>11 DEF Enters
<1>13. /\ page_table'[mode][v].last_access = access_counter'
       /\ page_table'[mode][v].load_time = access_counter'
       /\ page_table'[mode][v].dirty <=> write
       /\ page_table'[mode][v].referenced
  BY <1>8, <1>9 DEF Enters, Dirty, Valid
<1>14. Enters(page_table, page_table', v, write, {old}, access_counter')
  BY <1>11, <1>12, <1>13 DEF Enters, Dirty, Valid
<1> QED
  BY <1>14 DEF old

LEMMA SweptKeepsTimes ==
  ASSUME TypeInv, NEW k
  PROVE  KeepsTimes(page_table, Swept(k))
<1>1. mode \in {"flat", "multi"} /\ page_table \in Tables
  BY ModeType DEF TypeInv, Sound
<1> SUFFICES ASSUME NEW u \in Vpns
             PROVE  LET e == Swept(k)[mode][u] IN
                    /\ e.valid = page_table[mode][u].valid
                    /\ e.last_access = page_table[mode][u].last_access
                    /\ e.load_time = page_table[mode][u].load_time
                    /\ e.dirty = page_table[mode][u].dirty
  BY DEF KeepsTimes
<1>2. page_table[mode][u] \in PageTableEntry
  BY <1>1 DEF Tables
<1>3. Swept(k)[mode][u] \in
        {page_table[mode][u], [page_table[mode][u] EXCEPT !.referenced = FALSE]}
  BY <1>1 DEF Swept, Tables
<1> QED
  BY <1>2, <1>3 DEF PageTableEntry

\* The page that an eviction from frame f takes it from.
LEMMA VictimOf ==
  ASSUME CoherenceInv, SmallVpns, NEW f \in Frames, frame_table[f] >= 0
  PROVE  frame_table[f] \in Vpns /\ Valid(page_table, frame_table[f])
BY NamedOwner, SmallNarrow DEF CoherenceInv, Valid

\* Every way through translate() is an access, or is not served.
LEMMA TranslateEnters ==
  ASSUME CoherenceInv, SmallVpns,
         NEW t \in Threads, NEW v \in Vpns, NEW write \in BOOLEAN,
         Translate(t, v, write)
  PROVE  \/ ~Valid(page_table, v) /\ page_table' = page_table
         \/ \E gone \in SUBSET (InMemory \ {v}) :
              Enters(page_table, page_table', v, write, gone, access_counter')
<1>1. /\ TypeInv /\ NarrowVpns /\ Sound(page_table)
      /\ mode \in {"flat", "multi"}
  BY SmallNarrow, ModeType DEF CoherenceInv, TypeInv
<1>2. CASE TranslateTLBHit(t, v, write)
  <2>1. PICK w \in Ways : FirstMatch(tlb, v, w)
    BY <1>2 DEF TranslateTLBHit
  <2>2. Valid(page_table, v)
    BY <2>1, SetOfType, SizesAssumption
    DEF CoherenceInv, Copied, FirstMatch, Matches, Valid
  <2> QED
    BY <1>1, <1>2, <2>2, TouchedEnters DEF TranslateTLBHit
<1>3. CASE TranslateTableHit(t, v, write)
  <2>1. Valid(page_table, v)
    BY <1>3 DEF TranslateTableHit, Mapped, Valid
  <2> QED
    BY <1>1, <1>3, <2>1, TouchedEnters DEF TranslateTableHit
<1>4. Fault(t, v, write) => ~Valid(page_table, v)
  BY <1>1 DEF Fault, Mapped, Reachable, NarrowVpns, Valid
<1>5. CASE TranslateFaultFree(t, v, write)
  <2>1. page_table' = WithMapping(page_table, mode, v, Head(free_frames), write,
                                  access_counter')
    BY <1>5 DEF TranslateFaultFree, Load
  <2>2. ~Valid(page_table, v)
    BY <1>4, <1>5 DEF TranslateFaultFree
  <2>3. Enters(page_table, page_table', v, write, {}, access_counter')
    BY <1>1, <2>1, <2>2, WithMappingEnters
  <2> QED
    BY <2>3
<1>6. ASSUME NEW f \in Frames, frame_table[f] >= 0, NEW pt, Sound(pt),
             KeepsTimes(page_table, pt), Fault(t, v, write),
             EvictAndLoad(t, v, write, f, pt)
      PROVE  \E gone \in SUBSET (InMemory \ {v}) :
               Enters(page_table, page_table', v, write, gone, access_counter')
  <2>1. frame_table[f] \in Vpns /\ Valid(page_table, frame_table[f])
    BY <1>6, VictimOf
  <2>2. Enters(page_table, page_table', v, write, {frame_table[f]}, access_counter')
    BY <1>1, <1>4, <1>6, <2>1, EvictAndLoadEnters
  <2>3. {frame_table[f]} \subseteq InMemory \ {v}
    BY <1>4, <1>6, <2>1 DEF InMemory, Page, Valid
  <2> QED
    BY <2>2, <2>3
<1>7. CASE TranslateFaultOldest(t, v, write)
  <2>1. PICK f \in Frames : Oldest(f) /\ EvictAndLoad(t, v, write, f, page_table)
    BY <1>7 DEF TranslateFaultOldest
  <2>2. frame_table[f] >= 0 /\ Fault(t, v, write) /\ KeepsTimes(page_table, page_table)
    BY <1>7, <2>1 DEF TranslateFaultOldest, Oldest, KeepsTimes
  <2> QED
    BY <1>1, <1>6, <2>1, <2>2
<1>8. CASE TranslateFaultClock(t, v, write)
  <2>1. PICK k \in 0 .. 2 * NumFrames - 1 :
          StopsAt(k) /\ EvictAndLoad(t, v, write, HandAt(k), Swept(k))
    BY <1>8 DEF TranslateFaultClock
  <2>2. HandAt(k) \in Frames /\ frame_table[HandAt(k)] >= 0 /\ Fault(t, v, write)
    BY <1>1, <1>8, <2>1, HandAtType, SizesAssumption DEF StopsAt, TranslateFaultClock
  <2>3. Sound(Swept(k)) /\ KeepsTimes(page_table, Swept(k))
    BY <1>1, SweptSound, SweptKeepsTimes
  <2> QED
    BY <1>6, <2>1, <2>2, <2>3
<1>9. CASE TranslateNoFrame(t, v, write)
  BY <1>4, <1>9 DEF TranslateNoFrame
<1> QED
  BY <1>2, <1>3, <1>5, <1>7, <1>8, <1>9 DEF Translate

LEMMA RecordKeeps ==
  ASSUME HistoryInv, CoherenceInv', SmallVpns, mode' = mode,
         access_counter' = access_counter + 1,
         NEW v \in Vpns, NEW write \in BOOLEAN, Record(v, write),
         NEW gone \in SUBSET (InMemory \ {v}),
         Enters(page_table, page_table', v, write, gone, access_counter')
  PROVE  Recorded(page_table, InMemory, access_counter)'
<1> DEFINE S == InMemory
           T == InMemory'
<1>1. /\ Owners = S /\ Owners' = T /\ S \subseteq Vpns /\ T \subseteq Vpns
      /\ \A u \in Vpns : /\ u \in S <=> Valid(page_table, u)
                         /\ u \in T <=> Valid(page_table', u)
  BY OwnersInMemory, OwnersInMemoryNext DEF HistoryInv, InMemory, Page, Valid
<1>2. /\ access_counter \in Nat /\ v \in Nat /\ Vpns \subseteq Nat
      /\ mode \in {"flat", "multi"} /\ page_table \in Tables
  BY SizesAssumption, ModeType DEF HistoryInv, CoherenceInv, TypeInv, Sound
<1>13. access_counter < access_counter'
  BY <1>2
<1>3. \A u \in Vpns : page_table[mode][u].last_access \in Nat
                      /\ page_table[mode][u].load_time \in Nat
  BY <1>2 DEF Tables, PageTableEntry
<1>4. Recorded(page_table, S, access_counter)
  BY DEF HistoryInv
<1> HIDE DEF S, T
<1>5. /\ v \in T /\ T \subseteq S \cup {v} /\ \A u \in T \ {v} : u \in S
      /\ gone = {} <=> S \subseteq T
      /\ v \in S <=> Valid(page_table, v)
  <2>1. \A u \in Vpns : u \in T <=> u = v \/ (u \in S /\ u \notin gone)
    BY <1>1 DEF Enters
  <2>2. gone \subseteq S \ {v} /\ S \subseteq Vpns
    BY <1>1 DEF S
  <2>5. v \in T /\ T \subseteq S \cup {v} /\ \A u \in T \ {v} : u \in S
    BY <1>1, <2>1
  <2>6. gone = {} => S \subseteq T
    BY <1>1, <2>1
  <2>7. ASSUME S \subseteq T, NEW u \in gone PROVE FALSE
    BY <2>1, <2>2, <2>7
  <2> QED
    BY <1>1, <2>5, <2>6, <2>7
<1>6. \A u \in T \ {v} :
        /\ page_table'[mode][u].last_access = page_table[mode][u].last_access
        /\ page_table'[mode][u].load_time = page_table[mode][u].load_time
        /\ page_table'[mode][u].dirty = page_table[mode][u].dirty
        /\ S \subseteq T => page_table'[mode][u].referenced = page_table[mode][u].referenced
  BY <1>1, <1>5 DEF Enters
<1>7. \A u \in S : /\ page_table[mode][u].last_access < access_counter'
                   /\ page_table[mode][u].load_time < access_counter'
  BY <1>1, <1>2, <1>3, <1>4, <1>13 DEF Recorded
<1>8. Latest(recency', T, AccessTimes(page_table'))
  <2>1. recency' = First(v, recency)
    BY <1>1, <1>5 DEF Record
  <2>2. Latest(recency, S, AccessTimes(page_table))
    BY <1>4 DEF Recorded
  <2>3. \A u \in T \ {v} :
          /\ [x \in Vpns |-> page_table'[mode][x].last_access][u]
               = AccessTimes(page_table)[u]
          /\ AccessTimes(page_table)[u]
               < [x \in Vpns |-> page_table'[mode][x].last_access][v]
    BY <1>1, <1>5, <1>6, <1>7 DEF AccessTimes, Enters
  <2>4. AccessTimes(page_table') = [x \in Vpns |-> page_table'[mode][x].last_access]
    BY DEF AccessTimes
  <2> DEFINE bt == [x \in Vpns |-> page_table'[mode][x].last_access]
             at == AccessTimes(page_table)
  <2> HIDE DEF bt, at
  <2>5. Latest(First(v, recency), T, bt)
    <3>1. Latest(recency, S, at) /\ \A u \in T \ {v} : bt[u] = at[u] /\ at[u] < bt[v]
      BY <2>2, <2>3 DEF bt, at
    <3> QED
      BY <1>2, <1>5, <3>1, LatestFirst
  <2> QED
    BY <2>1, <2>4, <2>5 DEF bt
<1>9. Latest(loads', T, LoadTimes(page_table'))
  <2> DEFINE bt == [x \in Vpns |-> page_table'[mode][x].load_time]
             at == LoadTimes(page_table)
  <2>1. Latest(loads, S, at)
    BY <1>4 DEF Recorded
  <2>2. \A u \in T \ {v} : bt[u] = at[u] /\ at[u] < access_counter'
    BY <1>1, <1>5, <1>6, <1>7 DEF LoadTimes
  <2>3. bt[v] = IF v \in S THEN at[v] ELSE access_counter'
    BY <1>5 DEF Enters, LoadTimes
  <2>4. LoadTimes(page_table') = bt
    BY DEF LoadTimes
  <2> HIDE DEF bt, at
  <2>5. CASE v \in S
    <3>1. loads' = loads /\ T \subseteq S
      BY <1>1, <1>5, <2>5 DEF Record
    <3>2. \A u \in T : bt[u] = at[u]
      BY <2>2, <2>3, <2>5
    <3>3. Latest(loads, T, bt)
      BY <2>1, <3>1, <3>2, LatestKept
    <3> QED
      BY <2>4, <3>1, <3>3
  <2>6. CASE v \notin S
    <3>1. loads' = First(v, loads)
      BY <1>1, <1>5, <2>6 DEF Record
    <3>2. \A u \in T \ {v} : bt[u] = at[u] /\ at[u] < bt[v]
      BY <2>2, <2>3, <2>6
    <3>3. Latest(First(v, loads), T, bt)
      BY <1>2, <1>5, <2>1, <3>2, LatestFirst
    <3> QED
      BY <2>4, <3>1, <3>3
  <2> QED
    BY <2>5, <2>6
<1>10. \A u \in T : /\ page_table'[mode][u].last_access <= access_counter'
                    /\ page_table'[mode][u].load_time <= access_counter'
  <2>1. ASSUME NEW u \in T \ {v}
        PROVE  /\ page_table'[mode][u].last_access <= access_counter'
               /\ page_table'[mode][u].load_time <= access_counter'
    BY <1>1, <1>2, <1>3, <1>5, <1>6, <1>7
  <2>2. /\ page_table'[mode][v].last_access <= access_counter'
        /\ page_table'[mode][v].load_time <= access_counter'
    BY <1>2, <1>3, <1>5, <1>7 DEF Enters
  <2> QED
    BY <2>1, <2>2
<1>11. written' = {u \in T : page_table'[mode][u].dirty}
  <2>1. written' = {u \in T : u \in written \/ (u = v /\ write)}
    BY <1>1 DEF Record
  <2>2. \A u \in T \ {v} : u \in written <=> page_table'[mode][u].dirty
    BY <1>4, <1>5, <1>6 DEF Recorded
  <2>3. v \in written <=> Dirty(page_table, v)
    BY <1>4, <1>5 DEF Recorded, Dirty, Valid
  <2>4. page_table'[mode][v].dirty <=> write \/ v \in written
    BY <2>3 DEF Enters
  <2>5. \A u \in T : (u \in written \/ (u = v /\ write)) <=> page_table'[mode][u].dirty
    BY <2>2, <2>4
  <2> QED
    BY <2>1, <2>5
<1>12. \A u \in T : u \in recent' => page_table'[mode][u].referenced
  <2>1. page_table'[mode][v].referenced
    BY DEF Enters
  <2>2. ASSUME NEW u \in T \ {v}, u \in recent'
        PROVE  page_table'[mode][u].referenced
    <3>1. S \subseteq T /\ u \in recent
      BY <1>1, <2>2 DEF Record
    <3> QED
      BY <1>4, <1>5, <1>6, <3>1 DEF Recorded
  <2> QED
    BY <2>1, <2>2
<1> QED
  BY <1>8, <1>9, <1>10, <1>11, <1>12 DEF Recorded, T, AccessTimes, LoadTimes

LEMMA HistoryWatches == [HNext]_<<vars, history>> => [Next]_vars
BY DEF HNext, Next, vars, history

LEMMA HistoryInit == HInit => HistoryInv
<1> SUFFICES ASSUME HInit PROVE HistoryInv
  OBVIOUS
<1>1. CoherenceInv
  BY InitCoherent DEF HInit
<1>2. InMemory = {}
  BY ModeType DEF HInit, Init, InMemory, Page, NoPage
<1> QED
  BY <1>1, <1>2 DEF HInit, HistoryInv, Recorded, Latest

LEMMA HistoryStep ==
  ASSUME SingleMode, SmallVpns
  PROVE  HistoryInv /\ [HNext]_<<vars, history>> => HistoryInv'
<1> SUFFICES ASSUME HistoryInv, [HNext]_<<vars, history>> PROVE HistoryInv'
  OBVIOUS
<1>1. CoherenceInv /\ CoherenceInv'
  BY HistoryWatches, CoherenceStep, SmallNarrow DEF HistoryInv
<1>2. ASSUME UNCHANGED <<mode, page_table, access_counter, history>>
      PROVE  HistoryInv'
  <2>1. Recorded(page_table, InMemory, access_counter)'
    BY <1>2 DEF HistoryInv, Recorded, InMemory, Page, AccessTimes, LoadTimes, history
  <2> QED
    BY <1>1, <2>1 DEF HistoryInv
<1>3. ASSUME NEW t \in Threads, NEW v \in Vpns, NEW write \in BOOLEAN,
             Translate(t, v, write), Record(v, write)
      PROVE  HistoryInv'
  <2>1. mode' = mode /\ access_counter' = access_counter + 1 /\ access_counter \in Nat
    BY <1>1, <1>3
    DEF Translate, TranslateTLBHit, TranslateTableHit, TranslateFaultFree,
        TranslateFaultOldest, TranslateFaultClock, TranslateNoFrame, Fault, Access,
        settings, CoherenceInv, TypeInv
  <2>2. CASE ~Valid(page_table, v) /\ page_table' = page_table
    <3>1. InMemory' = InMemory /\ v \notin InMemory
      BY <2>1, <2>2 DEF InMemory, Page, Valid
    <3>2. Owners = InMemory /\ Owners' = InMemory
      BY <1>1, <3>1, OwnersInMemory, OwnersInMemoryNext
    <3>3. /\ recency' = recency /\ loads' = loads /\ recent' = recent \cup {v}
          /\ written' = {u \in InMemory : u \in written}
      BY <1>3, <3>1, <3>2 DEF Record
    <3>4. Recorded(page_table, InMemory, access_counter)
      BY DEF HistoryInv
    <3>5. written' = written
      BY <3>3, <3>4 DEF Recorded
    <3>6. \A u \in InMemory : /\ page_table[mode][u].last_access \in Nat
                              /\ page_table[mode][u].load_time \in Nat
      BY <1>1, ModeType
      DEF CoherenceInv, TypeInv, Sound, Tables, PageTableEntry, InMemory
    <3>7. \A u \in InMemory : /\ page_table[mode][u].last_access <= access_counter'
                              /\ page_table[mode][u].load_time <= access_counter'
      BY <2>1, <3>4, <3>6 DEF Recorded
    <3>8. Recorded(page_table, InMemory, access_counter)'
      BY <2>1, <2>2, <3>1, <3>3, <3>4, <3>5, <3>7 DEF Recorded, AccessTimes, LoadTimes
    <3> QED
      BY <1>1, <3>8 DEF HistoryInv
  <2>3. CASE \E gone \in SUBSET (InMemory \ {v}) :
               Enters(page_table, page_table', v, write, gone, access_counter')
    <3>1. Recorded(page_table, InMemory, access_counter)'
      BY <1>1, <1>3, <2>1, <2>3, RecordKeeps
    <3> QED
      BY <1>1, <3>1 DEF HistoryInv
  <2> QED
    BY <1>1, <1>3, <2>2, <2>3, TranslateEnters
<1>4. ASSUME NEW t \in Threads, Request(t), UNCHANGED history PROVE HistoryInv'
  BY <1>2, <1>4 DEF Request, settings
<1>5. ASSUME NEW p \in Policies, SetReplacementPolicy(p), UNCHANGED history
      PROVE  HistoryInv'
  BY <1>2, <1>5 DEF SetReplacementPolicy, Command
<1>6. ASSUME NEW m \in Modes, SetMultiLevelPaging(m), UNCHANGED history
      PROVE  HistoryInv'
  <2>1. mode' = mode
    BY <1>1, <1>6 DEF SetMultiLevelPaging, SingleMode, CoherenceInv, TypeInv
  <2> QED
    BY <1>2, <1>6, <2>1 DEF SetMultiLevelPaging, Command
<1>7. CASE UNCHANGED <<vars, history>>
  BY <1>2, <1>7 DEF vars
<1> QED
  BY <1>3, <1>4, <1>5, <1>6, <1>7 DEF HNext

\* A page that leaves memory was chosen by the policy.
LEMMA VictimChosen ==
  ASSUME CoherenceInv, SmallVpns,
         NEW t \in Threads, NEW v \in Vpns, NEW write \in BOOLEAN,
         Translate(t, v, write), NEW u \in Owners, Victim(u)
  PROVE  \/ /\ policy \in {"LRU", "FIFO"}
            /\ \E f \in Frames : /\ Oldest(f) /\ frame_table[f] = u
                                 /\ EvictAndLoad(t, v, write, f, page_table)
         \/ /\ policy = "CLOCK" /\ free_frames = <<>>
            /\ \E k \in 0 .. 2 * NumFrames - 1 :
                 /\ StopsAt(k) /\ \A j \in 0 .. k - 1 : ~StopsAt(j)
                 /\ frame_table[HandAt(k)] = u
                 /\ EvictAndLoad(t, v, write, HandAt(k), Swept(k))
<1>1. /\ frame_table \in [Frames -> Int] /\ free_frames \in Seq(Frames)
      /\ TypeInv /\ FramesAccounted
  BY CoherenceParts DEF CoherenceInv, TypeInv
<1>2. u \notin Owners' /\ u # -1 /\ \E g \in Frames : frame_table[g] = u
  BY DEF Victim, Owners
<1>3. frame_table' # frame_table
  BY <1>2 DEF Owners
<1>4. ASSUME NEW f \in Frames, frame_table' = [frame_table EXCEPT ![f] = ToInt(v)]
      PROVE  frame_table[f] = u
  <2>1. PICK g \in Frames : frame_table[g] = u
    BY <1>2
  <2>2. g # f => frame_table'[g] = u
    BY <1>1, <1>4, <2>1
  <2> QED
    BY <1>2, <2>1, <2>2 DEF Owners
<1>5. ~TranslateFaultFree(t, v, write)
  <2> SUFFICES ASSUME TranslateFaultFree(t, v, write) PROVE FALSE
    OBVIOUS
  <2>1. /\ Head(free_frames) \in Frames /\ 1 \in DOMAIN free_frames
        /\ Head(free_frames) = free_frames[1]
    BY <1>1 DEF TranslateFaultFree
  <2>2. frame_table[Head(free_frames)] = -1
    BY <1>1, <2>1 DEF FramesAccounted
  <2>3. frame_table' = [frame_table EXCEPT ![Head(free_frames)] = ToInt(v)]
    BY DEF TranslateFaultFree, Load
  <2> QED
    BY <1>2, <1>4, <2>1, <2>2, <2>3
<1>6. CASE TranslateFaultOldest(t, v, write)
  <2>1. PICK f \in Frames : Oldest(f) /\ EvictAndLoad(t, v, write, f, page_table)
    BY <1>6 DEF TranslateFaultOldest
  <2>2. frame_table[f] = u
    BY <1>4, <2>1 DEF EvictAndLoad, Load
  <2> QED
    BY <1>6, <2>1, <2>2 DEF TranslateFaultOldest
<1>7. CASE TranslateFaultClock(t, v, write)
  <2>1. PICK k \in 0 .. 2 * NumFrames - 1 :
          /\ StopsAt(k) /\ \A j \in 0 .. k - 1 : ~StopsAt(j)
          /\ EvictAndLoad(t, v, write, HandAt(k), Swept(k))
    BY <1>7 DEF TranslateFaultClock
  <2>2. HandAt(k) \in Frames
    BY <1>1, HandAtType, SizesAssumption
  <2>3. frame_table[HandAt(k)] = u
    BY <1>4, <2>1, <2>2 DEF EvictAndLoad, Load
  <2> QED
    BY <1>7, <2>1, <2>3 DEF TranslateFaultClock
<1> QED
  BY <1>3, <1>5, <1>6, <1>7
  DEF Translate, TranslateTLBHit, TranslateTableHit, TranslateNoFrame

\* In other steps no page leaves.
LEMMA OnlyTranslateEvicts ==
  ASSUME HNext, NEW u \in Owners, Victim(u)
  PROVE  \E t \in Threads, v \in Vpns, write \in BOOLEAN : Translate(t, v, write)
<1>1. frame_table' # frame_table
  BY DEF Victim, Owners
<1> QED
  BY <1>1 DEF HNext, Request, SetReplacementPolicy, SetMultiLevelPaging, Command

\* What the age of a page is, for pages that are in memory.
LEMMA AgeOf ==
  ASSUME HistoryInv, SmallVpns, NEW f \in Frames, NEW u \in Owners,
         frame_table[f] = u
  PROVE  Age(f) = IF policy = "LRU" THEN AccessTimes(page_table)[u]
                                    ELSE LoadTimes(page_table)[u]
<1>1. u \in Vpns /\ page_table[mode][u].valid
  BY OwnersInMemory DEF HistoryInv, InMemory, Page
<1>2. Mapped(mode, u)
  BY <1>1 DEF Mapped, Reachable, SmallVpns
<1> QED
  BY <1>1, <1>2 DEF Age, AccessTimes, LoadTimes

\* With the frame of the oldest page, the one that is last in the list is
\* taken.
LEMMA OldestIsLast ==
  ASSUME HistoryInv, SmallVpns, NEW f \in Frames, Oldest(f),
         NEW seq, NEW at, Latest(seq, InMemory, at),
         \A u \in Owners : at[u] \in Nat,
         \A g \in Frames : \A u \in Owners : frame_table[g] = u => Age(g) = at[u],
         NEW o \in Owners, frame_table[f] \in Owners, o # frame_table[f]
  PROVE  Before(seq, o, frame_table[f])
<1> DEFINE u == frame_table[f]
<1>1. Owners = InMemory /\ Owners \subseteq Vpns
  BY OwnersInMemory DEF HistoryInv, InMemory
<1>2. PICK g \in Frames : frame_table[g] = o
  BY DEF Owners
<1>3. o >= 0 /\ o \in Vpns
  BY <1>1, SizesAssumption
<1>4. Age(f) <= Age(g) /\ Age(f) = at[u] /\ Age(g) = at[o]
  BY <1>2, <1>3 DEF Oldest
<1>5. at[u] \in Nat /\ at[o] \in Nat /\ at[u] <= at[o]
  BY <1>4
<1> HIDE DEF u
<1>6. \/ at[o] < at[u] /\ Before(seq, u, o)
      \/ at[u] < at[o] /\ Before(seq, o, u)
  BY <1>1 DEF Latest, u
<1>7. ~(at[o] < at[u])
  BY <1>5
<1> QED
  BY <1>6, <1>7 DEF u

LEMMA LRUTakes ==
  ASSUME HistoryInv, SmallVpns, HNext, policy = "LRU",
         NEW u \in Owners, Victim(u), NEW o \in Owners \ {u}
  PROVE  Before(recency, o, u)
<1>1. PICK f \in Frames : Oldest(f) /\ frame_table[f] = u
  BY OnlyTranslateEvicts, VictimChosen DEF HistoryInv
<1> DEFINE at == AccessTimes(page_table)
<1>2. Latest(recency, InMemory, at)
  BY DEF HistoryInv, Recorded
<1>3. \A x \in Owners : at[x] \in Nat
  BY OwnersInMemory, ModeType
  DEF AccessTimes, HistoryInv, CoherenceInv, TypeInv, Sound, Tables, PageTableEntry,
      InMemory
<1>4. \A g \in Frames : \A x \in Owners : frame_table[g] = x => Age(g) = at[x]
  BY AgeOf
<1> HIDE DEF at
<1> QED
  BY <1>1, <1>2, <1>3, <1>4, OldestIsLast

LEMMA FIFOTakes ==
  ASSUME HistoryInv, SmallVpns, HNext, policy = "FIFO",
         NEW u \in Owners, Victim(u), NEW o \in Owners \ {u}
  PROVE  Before(loads, o, u)
<1>1. PICK f \in Frames : Oldest(f) /\ frame_table[f] = u
  BY OnlyTranslateEvicts, VictimChosen DEF HistoryInv
<1> DEFINE at == LoadTimes(page_table)
<1>2. Latest(loads, InMemory, at)
  BY DEF HistoryInv, Recorded
<1>3. \A x \in Owners : at[x] \in Nat
  BY OwnersInMemory, ModeType
  DEF LoadTimes, HistoryInv, CoherenceInv, TypeInv, Sound, Tables, PageTableEntry,
      InMemory
<1>4. \A g \in Frames : \A x \in Owners : frame_table[g] = x => Age(g) = at[x]
  BY AgeOf
<1> HIDE DEF at
<1> QED
  BY <1>1, <1>2, <1>3, <1>4, OldestIsLast

\* Where the hand is in its first round and when that begins again.
LEMMA HandRound ==
  ASSUME TypeInv
  PROVE  /\ HandAt(0) = clock_hand /\ HandAt(NumFrames) = clock_hand
         /\ \A j, k \in 0 .. NumFrames - 1 : HandAt(j) = HandAt(k) => j = k
         /\ \A g \in Frames : \E j \in 0 .. NumFrames - 1 : HandAt(j) = g
<1> DEFINE N == NumFrames
           h == clock_hand
<1>1. N \in Nat \ {0} /\ h \in 0 .. N - 1 /\ Frames = 0 .. N - 1
  BY SizesAssumption DEF TypeInv, Frames
<1>2. \A x \in 0 .. N - 1 : x % N = x /\ (x + N) % N = x
  <2> SUFFICES ASSUME NEW x \in 0 .. N - 1 PROVE x % N = x /\ (x + N) % N = x
    OBVIOUS
  <2>1. (0 * N + x) % N = x /\ (1 * N + x) % N = x
    BY <1>1, Division
  <2>2. 0 * N + x = x /\ 1 * N + x = x + N
    BY <1>1
  <2> QED
    BY <2>1, <2>2
<1>3. \A j \in 0 .. N : HandAt(j) = (h + j) % N
  BY DEF HandAt
<1> HIDE DEF N, h
<1>4. \A j \in 0 .. N : HandAt(j) = IF h + j < N THEN h + j ELSE h + j - N
  <2> SUFFICES ASSUME NEW j \in 0 .. N
               PROVE  HandAt(j) = IF h + j < N THEN h + j ELSE h + j - N
    OBVIOUS
  <2>1. CASE h + j < N
    <3>1. h + j \in 0 .. N - 1
      BY <1>1, <2>1
    <3> QED
      BY <1>2, <1>3, <2>1, <3>1
  <2>2. CASE ~(h + j < N)
    <3>1. h + j - N \in 0 .. N - 1 /\ (h + j - N) + N = h + j
      BY <1>1, <2>2
    <3> QED
      BY <1>2, <1>3, <2>2, <3>1
  <2> QED
    BY <2>1, <2>2
<1>5. HandAt(0) = h /\ HandAt(N) = h
  BY <1>1, <1>4
<1>6. \A j, k \in 0 .. N - 1 : HandAt(j) = HandAt(k) => j = k
  BY <1>1, <1>4
<1>7. ASSUME NEW g \in Frames PROVE \E j \in 0 .. N - 1 : HandAt(j) = g
  <2>1. CASE h <= g
    <3>1. g - h \in 0 .. N - 1 /\ HandAt(g - h) = g
      BY <1>1, <1>4, <2>1
    <3> QED
      BY <3>1
  <2>2. CASE ~(h <= g)
    <3>1. g - h + N \in 0 .. N - 1 /\ HandAt(g - h + N) = g
      BY <1>1, <1>4, <2>2
    <3> QED
      BY <3>1
  <2> QED
    BY <2>1, <2>2
<1> QED
  BY <1>5, <1>6, <1>7 DEF N, h

\* The hand comes to a page that was referenced a second time only when it has
\* been everywhere.
LEMMA ClockTakes ==
  ASSUME HistoryInv, SmallVpns, HNext, policy = "CLOCK",
         NEW u \in Owners, Victim(u), u \in recent
  PROVE  /\ frame_table[clock_hand] = u
         /\ \A o \in Owners : page_table[mode][o].referenced
<1> DEFINE N == NumFrames
<1>1. /\ CoherenceInv /\ TypeInv /\ OwnersMatch /\ FramesAccounted
      /\ Owners = InMemory /\ InMemory \subseteq Vpns
  BY CoherenceParts, OwnersInMemory DEF HistoryInv, CoherenceInv, InMemory
<1>2. /\ free_frames = <<>>
      /\ \E k \in 0 .. 2 * N - 1 :
           /\ StopsAt(k) /\ \A j \in 0 .. k - 1 : ~StopsAt(j)
           /\ frame_table[HandAt(k)] = u
  BY <1>1, OnlyTranslateEvicts, VictimChosen
<1>3. PICK k \in 0 .. 2 * N - 1 :
        /\ StopsAt(k) /\ \A j \in 0 .. k - 1 : ~StopsAt(j)
        /\ frame_table[HandAt(k)] = u
  BY <1>2
<1>4. N \in Nat \ {0} /\ k \in Nat
  BY SizesAssumption
<1>5. \A v \in Vpns : Reachable(mode, v)
  BY DEF Reachable, SmallVpns
<1>6. \A g \in Frames : frame_table[g] \in Owners
  <2> SUFFICES ASSUME NEW g \in Frames PROVE frame_table[g] # -1
    BY DEF Owners
  <2>1. DOMAIN free_frames = {}
    BY <1>2
  <2> QED
    BY <1>1, <2>1 DEF FramesAccounted
<1>7. \A v \in Owners : v \in Vpns /\ v >= 0
  BY <1>1, SizesAssumption
<1>8. \A j \in Nat : HandAt(j) \in Frames /\ frame_table[HandAt(j)] \in Owners
  BY <1>1, <1>6, HandAtType
<1>9. \A f, g \in Frames : frame_table[f] = frame_table[g] => f = g
  BY <1>1, <1>6, <1>7, SizesAssumption DEF OwnersMatch
<1>10. page_table[mode][u].referenced
  BY <1>1 DEF HistoryInv, Recorded
<1>11. PICK i \in 0 .. k - 1 : frame_table[HandAt(i)] = u
  BY <1>3, <1>5, <1>7, <1>10 DEF StopsAt
<1>12. HandAt(i) = HandAt(k)
  BY <1>3, <1>4, <1>8, <1>9, <1>11
<1>13. k >= N
  <2>1. k < N => i \in 0 .. N - 1 /\ k \in 0 .. N - 1 /\ i # k
    BY <1>4
  <2> QED
    BY <1>1, <1>4, <1>12, <2>1, HandRound
<1>14. StopsAt(N)
  <2>1. HandAt(0) = HandAt(N) /\ 0 \in 0 .. N - 1
    BY <1>1, <1>4, HandRound
  <2>2. frame_table[HandAt(N)] >= 0
    BY <1>4, <1>7, <1>8
  <2>3. \E j \in 0 .. N - 1 : frame_table[HandAt(j)] = frame_table[HandAt(N)]
    BY <2>1
  <2> QED
    BY <2>2, <2>3 DEF StopsAt
<1>15. k = N
  <2>1. k > N => N \in 0 .. k - 1
    BY <1>4
  <2> QED
    BY <1>3, <1>4, <1>13, <1>14, <2>1
<1>16. frame_table[clock_hand] = u
  BY <1>1, <1>3, <1>15, HandRound
<1>17. ASSUME NEW o \in Owners PROVE page_table[mode][o].referenced
  <2>1. PICK g \in Frames : frame_table[g] = o
    BY DEF Owners
  <2>2. PICK j \in 0 .. N - 1 : HandAt(j) = g
    BY <1>1, HandRound
  <2>3. ~StopsAt(j)
    BY <1>3, <1>15
  <2> QED
    BY <1>5, <1>7, <2>1, <2>2, <2>3 DEF StopsAt
<1> QED
  BY <1>16, <1>17

LEMMA DirtyCosts ==
  ASSUME HistoryInv, SmallVpns, HNext, NEW u \in Owners, Victim(u)
  PROVE  disk_accesses' = disk_accesses + (IF u \in written THEN 2 ELSE 1)
<1>1. /\ CoherenceInv /\ TypeInv /\ Owners = InMemory /\ u \in Vpns
      /\ Reachable(mode, u)
  BY OwnersInMemory DEF HistoryInv, CoherenceInv, InMemory, Reachable, SmallVpns
<1>2. u \in written <=> page_table[mode][u].dirty
  BY <1>1 DEF HistoryInv, Recorded
<1>3. PICK t \in Threads, v \in Vpns, write \in BOOLEAN : Translate(t, v, write)
  BY OnlyTranslateEvicts
<1>4. ASSUME NEW f, frame_table[f] = u, NEW pt, KeepsTimes(page_table, pt),
             EvictAndLoad(t, v, write, f, pt)
      PROVE  disk_accesses' = disk_accesses + (IF u \in written THEN 2 ELSE 1)
  BY <1>1, <1>2, <1>4 DEF EvictAndLoad, KeepsTimes
<1>5. KeepsTimes(page_table, page_table)
  BY DEF KeepsTimes
<1>6. \A k : KeepsTimes(page_table, Swept(k))
  BY <1>1, SweptKeepsTimes
<1> QED
  BY <1>1, <1>3, <1>4, <1>5, <1>6, VictimChosen

\* LRU takes the page whose last access is the longest ago, in either table,
\* through whichever of the TLB, the table and a fault the accesses went, and
\* although its time stamp is kept in the entries that evictions reset.
THEOREM LeastRecentEvicted ==
  ASSUME SingleMode, SmallVpns
  PROVE  HSpec => LRUEvictsLeastRecent
<1>1. HistoryInv /\ [HNext]_<<vars, history>>
        => [policy = "LRU" => \A u \in Owners : Victim(u) =>
              \A o \in Owners \ {u} : Before(recency, o, u)]_vars
  BY LRUTakes DEF vars
<1> QED
  BY <1>1, HistoryInit, HistoryStep, PTL DEF HSpec, LRUEvictsLeastRecent

\* FIFO takes the page that was loaded first, however often it was used.
THEOREM FirstLoadedEvicted ==
  ASSUME SingleMode, SmallVpns
  PROVE  HSpec => FIFOEvictsFirstLoaded
<1>1. HistoryInv /\ [HNext]_<<vars, history>>
        => [policy = "FIFO" => \A u \in Owners : Victim(u) =>
              \A o \in Owners \ {u} : Before(loads, o, u)]_vars
  BY FIFOTakes DEF vars
<1> QED
  BY <1>1, HistoryInit, HistoryStep, PTL DEF HSpec, FIFOEvictsFirstLoaded

\* CLOCK takes a page that was accessed since the last eviction only where the
\* hand started, after a whole round in which every page had been referenced,
\* for any number of frames.
THEOREM SecondChanceGiven ==
  ASSUME SingleMode, SmallVpns
  PROVE  HSpec => ClockGivesSecondChance
<1>1. HistoryInv /\ [HNext]_<<vars, history>>
        => [policy = "CLOCK" => \A u \in Owners : Victim(u) /\ u \in recent =>
              /\ frame_table[clock_hand] = u
              /\ \A o \in Owners : page_table[mode][o].referenced]_vars
  BY ClockTakes DEF vars
<1> QED
  BY <1>1, HistoryInit, HistoryStep, PTL DEF HSpec, ClockGivesSecondChance

\* Taking a frame costs the disk access of a write-back exactly when its page
\* was written since it was loaded; with two modes a run shows otherwise.
THEOREM DirtyPagesWrittenBack ==
  ASSUME SingleMode, SmallVpns
  PROVE  HSpec => DirtyWrittenBack
<1>1. HistoryInv /\ [HNext]_<<vars, history>>
        => [\A u \in Owners : Victim(u) =>
              disk_accesses' = disk_accesses + (IF u \in written THEN 2 ELSE 1)]_vars
  BY DirtyCosts DEF vars
<1> QED
  BY <1>1, HistoryInit, HistoryStep, PTL DEF HSpec, DirtyWrittenBack
=============================================================================
