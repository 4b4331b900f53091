--------------------------- MODULE MCBuddyAllocator ---------------------------
(* Pages of two bytes: a memory of 15 bytes is rounded up to eight pages,  *)
(* one of 0 bytes to one page, and requests need one, two or four pages.   *)
EXTENDS BuddyAllocator

Sizes == {1, 3, 6}
=============================================================================
