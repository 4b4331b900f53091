------------------------------- MODULE Pipeline -------------------------------
(***************************************************************************)
(* Reads and writes from end to end: translate of VirtualMemory, then, if  *)
(* it has an answer, request of CacheHierarchy.  This is what the command  *)
(* line, TraceBenchmark::run and the workers of ThreadedBenchmark::run do. *)
(*                                                                         *)
(* Both modules' steps are taken as they are; here they meet in the two    *)
(* places where the code's components do: a fault that evicts a page has   *)
(* the lines of the frame invalidated, block by block, while it still has  *)
(* page_table_mutex, and the request is for an address in the frame that   *)
(* translate answered.                                                     *)
(***************************************************************************)
EXTENDS CacheHierarchy

CONSTANTS
  Vpns, FlatPages, MultiPages, WalkLimit, IntMod, NumFrames, TlbSets, TlbWays,
  Modes, PagePolicies, RegionPages, MaxAccess,     \* of VirtualMemory
  Offsets                                          \* of the accesses in a page

VARIABLES
  mode, page_policy, page_table, frame_table, free_frames, clock_hand, tlb,
  timer, accesses, page_faults, page_hits, disk_accesses, region, inflight,
  cached,
  is_write       \* the kind of each thread's access

MMU == INSTANCE VirtualMemory WITH
  Policies <- PagePolicies, policy <- page_policy, access_counter <- accesses

mvars == <<mode, page_policy, page_table, frame_table, free_frames, clock_hand,
           tlb, timer, accesses, page_faults, page_hits, disk_accesses, region,
           inflight, cached>>
pvars == <<vars, mvars, is_write>>

ASSUME PipelineAssumption ==
  /\ Offsets \subseteq 0 .. PageSize - 1
  /\ FrameStarts = {f * PageSize : f \in MMU!Frames}
  /\ {f + o : f \in FrameStarts, o \in Offsets} \subseteq Addresses

\* What VirtualMemory assumes of its constants.
ASSUME MMUAssumption ==
  /\ NumFrames \in Nat \ {0} /\ TlbSets \in Nat \ {0} /\ TlbWays \in Nat \ {0}
  /\ Vpns \subseteq Nat /\ RegionPages \subseteq Vpns
  /\ {FlatPages, MultiPages, WalkLimit, IntMod, MaxAccess} \subseteq Nat
  /\ IntMod > 0 /\ FlatPages <= IntMod \div 2
  /\ \A v \in Vpns : MMU!ToInt(v) >= 0 => MMU!ToInt(v) \in Vpns
  /\ Modes = {"flat", "multi"} => \A v \in Vpns : v < FlatPages
  /\ Modes # {} /\ Modes \subseteq {"flat", "multi"}
  /\ PagePolicies # {} /\ PagePolicies \subseteq {"LRU", "FIFO", "CLOCK"}

PInit ==
  /\ Init /\ MMU!Init
  /\ is_write = [t \in Threads |-> FALSE]

\* page_table_mutex is free: nobody is in the middle of an eviction.
Unlocked == \A t \in Threads : ~InRange(t)

\* translate() from its lock on.  One that evicts goes on with the lines of the
\* frame it takes; the other updates it makes are seen by nobody before it
\* unlocks.
Translate(t, v, write) ==
  /\ pc[t] = "idle" /\ Unlocked
  /\ is_write' = [is_write EXCEPT ![t] = write]
  /\ \/ /\ \/ MMU!TranslateTLBHit(t, v, write)
           \/ MMU!TranslateTableHit(t, v, write)
           \/ MMU!TranslateFaultFree(t, v, write)
           \/ MMU!TranslateNoFrame(t, v, write)
        /\ UNCHANGED vars
     \/ /\ \/ MMU!TranslateFaultOldest(t, v, write)
           \/ MMU!TranslateFaultClock(t, v, write)
        /\ \E r \in inflight' :
             r.thread = t /\ StartRange(t, r.frame * PageSize)

\* request() with the physical address: its first step.
BeginRequest(t) ==
  \E r \in inflight, offset \in Offsets :
    /\ r.thread = t
    /\ Start(t, r.frame * PageSize + offset, is_write[t])
    /\ MMU!Request(t)
    /\ UNCHANGED is_write

\* A later step of the request, or of the eviction.
Continue(t) ==
  /\ pc[t] # "idle"
  /\ Request(t) \/ InvalidateRange(t)
  /\ UNCHANGED <<mvars, is_write>>

PNext ==
  \/ \E t \in Threads :
       \/ \E v \in Vpns, write \in BOOLEAN : Translate(t, v, write)
       \/ BeginRequest(t)
       \/ Continue(t)
  \/ \E p \in Policies :
       SetPolicy(p) /\ inflight = {} /\ UNCHANGED <<mvars, is_write>>

PSpec == PInit /\ [][PNext]_pvars

-----------------------------------------------------------------------------

\* "Invalidate cache lines associated with this physical frame"
\* (VirtualMemory.cpp:197): unless an eviction is under way, the frame of a
\* valid line has an owner, and lines of that frame were asked for since the
\* owner has it.  So no line is left of the page that had the frame before, and
\* VirtualMemory's cached says truly what the caches may hold.
LinesBelong ==
  Unlocked =>
    \A l \in Levels : \A s \in Sets(l) : \A w \in Ways(l) :
      LET line == lines[l][s][w]
          f    == (line.block * BlockSize[l]) \div PageSize
      IN  line.valid => /\ frame_table[f] \in Vpns
                        /\ [frame |-> f, vpn |-> frame_table[f]] \in cached
=============================================================================
