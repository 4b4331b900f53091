---------------------------- MODULE MCMMapManager ----------------------------
(* Addresses are below 18, pages have two bytes: 17 is rounded to 0, and   *)
(* 16 bytes from 4 on end at 2.                                            *)
EXTENDS MMapManager

SomeProts == {{"read"}, {"read", "write"}}
=============================================================================
