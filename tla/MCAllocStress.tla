---------------------------- MODULE MCAllocStress ----------------------------
(* Slabs of four bytes have four, two or one slots; a request of three     *)
(* bytes gets four.                                                        *)
EXTENDS AllocStress

ThreeSizes == <<1, 2, 4>>
Sizes == {1, 2, 3}
=============================================================================
