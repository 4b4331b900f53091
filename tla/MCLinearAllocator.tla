-------------------------- MODULE MCLinearAllocator --------------------------
(* A memory of four or seven bytes, or of none, and requests of one to three. *)
EXTENDS LinearAllocator

Sizes == 1 .. 3
=============================================================================
