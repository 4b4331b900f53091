-------------------------------- MODULE StdList --------------------------------
(***************************************************************************)
(* The lists of free memory that the allocators keep, a std::list or one   *)
(* of their own: sequences, the front first.                               *)
(***************************************************************************)
EXTENDS Integers, Sequences

In(seq) == {seq[i] : i \in DOMAIN seq}

NoRepeats(seq) == \A i, j \in DOMAIN seq : seq[i] = seq[j] => i = j

Before(seq, x, y) == \E i, j \in DOMAIN seq : i < j /\ seq[i] = x /\ seq[j] = y

\* Taking e out, of a list that has it once at most.
Without(seq, e) ==
  IF \E i \in DOMAIN seq : seq[i] = e
  THEN LET i == CHOOSE i \in DOMAIN seq : seq[i] = e
       IN  [j \in 1 .. Len(seq) - 1 |-> IF j < i THEN seq[j] ELSE seq[j + 1]]
  ELSE seq
=============================================================================
