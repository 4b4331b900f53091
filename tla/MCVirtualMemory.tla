--------------------------- MODULE MCVirtualMemory ---------------------------
(* With IntMod = 8 the frame table has 6 as -2 and 7 as -1, which is also  *)
(* its mark of a free frame.                                               *)
EXTENDS VirtualMemoryRefinement, TLC

SomePages == {0, 1, 6, 7}

ThreadSymmetry == Permutations(Threads)
=============================================================================
