---------------------------------- MODULE Sums ----------------------------------
(***************************************************************************)
(* Sums of natural numbers, as the size of a set that has so many members  *)
(* for each of them: what a fold adds up, in a form a proof can count.     *)
(***************************************************************************)
EXTENDS Integers, FiniteSets

Units(f) == UNION {{x} \X (1 .. f[x]) : x \in DOMAIN f}

Total(f) == Cardinality(Units(f))
=============================================================================
