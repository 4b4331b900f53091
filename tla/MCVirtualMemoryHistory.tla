----------------------- MODULE MCVirtualMemoryHistory -----------------------
(* Small instances of VirtualMemoryHistory.                                *)
EXTENDS VirtualMemoryHistory

FourPages  == 0 .. 3
ThreePages == 0 .. 2
=============================================================================
