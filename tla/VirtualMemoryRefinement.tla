----------------------- MODULE VirtualMemoryRefinement -----------------------
(* VirtualMemory, with its TLB, tables and policies, implements DemandPaging. *)
EXTENDS VirtualMemory

MappedPages == {v \in Vpns : Mapped(mode, v)}

Abstract == INSTANCE DemandPaging WITH
  Pages    <- Vpns,
  Pinned   <- {v \in Vpns : ToInt(v) < 0},
  resident <- [v \in MappedPages |-> page_table[mode][v].frame],
  dirty    <- {v \in MappedPages : page_table[mode][v].dirty},
  hits     <- page_hits,
  faults   <- page_faults,
  disk     <- disk_accesses,
  answers  <- inflight

\* translate() keeps what DemandPaging promises: the TLB, the two tables, the
\* choice of the victim and the changes of policy or protection in between
\* are invisible, and every fault and write-back is counted exactly.  A page
\* whose number reads as a negative int cannot be chosen as a victim, and with
\* such pages in all frames translate() gives up.
ImplementsDemandPaging == Abstract!Spec
=============================================================================
