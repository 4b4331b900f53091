-------------------------- MODULE MCCacheHierarchy --------------------------
(* Blocks of 1, 2 and 4 addresses, as main.cpp's of 8, 16 and 32 bytes, in *)
(* fewer sets; level 1 has one way, as there, the others two.              *)
EXTENDS CacheHierarchy

Blocks == <<1, 2, 4>>
SetsOfLevels == <<2, 1, 1>>
WaysOfLevels == <<1, 2, 2>>
=============================================================================
