------------------------------ MODULE MCPipeline ------------------------------
(* Blocks of 1, 2 and 4 addresses, as main.cpp's of 8, 16 and 32 bytes, in *)
(* fewer sets; level 1 has one way, as there, the others two.  A page of    *)
(* eight addresses is two blocks of level 3, as the pages of 64 bytes are.  *)
EXTENDS Pipeline

Blocks == <<1, 2, 4>>
SetsOfLevels == <<2, 1, 1>>
WaysOfLevels == <<1, 2, 2>>
ThreePages == 0 .. 2
TwoPages == 0 .. 1
TwoFrames == 0 .. 15
=============================================================================
