------------------------ MODULE MCMultiLevelPageTable ------------------------
(* Page numbers that need more than an int: with IntMod = 8 the frame table *)
(* has 8 as 0, 6 as -2 and 7 as -1; 16 is beyond the reach of walk(), whose *)
(* four levels have an index of one bit each.                               *)
EXTENDS MultiLevelPageTable

WidePages == {0, 6, 7, 8, 16}
FourBits == <<1, 1, 1, 1>>
=============================================================================
