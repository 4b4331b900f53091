------------------------ MODULE VirtualMemoryHistory ------------------------
(***************************************************************************)
(* VirtualMemory with a record of what the users did, kept beside the      *)
(* code's own time stamps and bits, to say what the replacement policies   *)
(* promise in terms of the accesses themselves.                            *)
(***************************************************************************)
EXTENDS VirtualMemory, StdList

VARIABLES
  recency,   \* the pages ever accessed, the last one first
  loads,     \* the pages ever loaded, the last one first
  written,   \* the pages written since they were loaded
  recent     \* the pages accessed since the last eviction

history == <<recency, loads, written, recent>>

HInit == Init /\ recency = <<>> /\ loads = <<>> /\ written = {} /\ recent = {}

\* The pages that have a frame.
Owners == {frame_table[f] : f \in Frames} \ {-1}

Victim(u) == u \in Owners /\ u \notin Owners'

First(v, seq) == <<v>> \o Without(seq, v)

\* An access that is served, and what it loads and evicts.
Record(v, write) ==
  /\ recency' = IF v \in Owners' THEN First(v, recency) ELSE recency
  /\ loads' = IF v \in Owners' \ Owners THEN First(v, loads) ELSE loads
  /\ written' = {u \in Owners' : u \in written \/ (u = v /\ write)}
  /\ recent' = IF Owners \subseteq Owners' THEN recent \cup {v} ELSE {v}

HNext ==
  \/ \E t \in Threads, v \in Vpns, write \in BOOLEAN :
       Translate(t, v, write) /\ Record(v, write)
  \/ \E t \in Threads : Request(t) /\ UNCHANGED history
  \/ \E p \in Policies : SetReplacementPolicy(p) /\ UNCHANGED history
  \/ \E m \in Modes : SetMultiLevelPaging(m) /\ UNCHANGED history

HSpec == HInit /\ [][HNext]_<<vars, history>>

-----------------------------------------------------------------------------

\* LRU takes the frame of the page whose last access, by whatever path it was
\* served, is the longest ago.
LRUEvictsLeastRecent ==
  [][policy = "LRU" => \A u \in Owners : Victim(u) =>
       \A o \in Owners \ {u} : Before(recency, o, u)]_vars

\* FIFO takes the frame of the page that was loaded first, however often it
\* was used since.
FIFOEvictsFirstLoaded ==
  [][policy = "FIFO" => \A u \in Owners : Victim(u) =>
       \A o \in Owners \ {u} : Before(loads, o, u)]_vars

\* CLOCK gives a second chance: a page accessed since the last eviction is
\* taken only if the hand started at it and came back, having found that
\* every page had been referenced.
ClockGivesSecondChance ==
  [][policy = "CLOCK" => \A u \in Owners : Victim(u) /\ u \in recent =>
       /\ frame_table[clock_hand] = u
       /\ \A o \in Owners : page_table[mode][o].referenced]_vars

\* "writes back dirty pages": taking a frame costs a disk access beyond the
\* one of the fault exactly when its page was written since it was loaded.
DirtyWrittenBack ==
  [][\A u \in Owners : Victim(u) =>
       disk_accesses' = disk_accesses + (IF u \in written THEN 2 ELSE 1)]_vars
=============================================================================
