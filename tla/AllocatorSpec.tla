---------------------------- MODULE AllocatorSpec ----------------------------
(***************************************************************************)
(* What the interface of src/Allocator.h promises, whichever allocator is  *)
(* behind it: an allocation gets an id that no block has had since the     *)
(* memory was initialised, and bytes of the memory that no other live      *)
(* block has, for as long as it lives; freeing takes back that block and   *)
(* no other; initialising ends the life of all of them.  That the bytes    *)
(* are as many as were asked for is said next to each allocator, which     *)
(* knows the request.                                                      *)
(***************************************************************************)
EXTENDS Naturals

VARIABLES
  live,       \* the [addr, size] of each live block, by its id
  given,      \* the ids given out since the last initialisation
  capacity    \* the bytes of the memory

vars == <<live, given, capacity>>

Bytes(b) == b.addr .. b.addr + b.size - 1

Apart(b, c) == b.addr + b.size <= c.addr \/ c.addr + c.size <= b.addr

Init == live = [i \in {} |-> 0] /\ given = {} /\ capacity = 0

Allocate ==
  /\ \E id \in (DOMAIN live)' \ given :
       LET b == live'[id] IN
       /\ given' = given \cup {id}
       /\ live' = [i \in DOMAIN live \cup {id} |-> IF i = id THEN b ELSE live[i]]
       /\ b.size > 0
       /\ b.addr + b.size <= capacity
       /\ \A i \in DOMAIN live : Apart(live[i], b)
  /\ UNCHANGED capacity

Free ==
  /\ \E id \in DOMAIN live : live' = [i \in DOMAIN live \ {id} |-> live[i]]
  /\ UNCHANGED <<given, capacity>>

\* An initialisation with no memory may leave the ids and the size as they are.
Reset ==
  /\ live' = [i \in {} |-> 0]
  /\ given' \in { {}, given }
  /\ capacity' \in Nat

Next == Allocate \/ Free \/ Reset

Spec == Init /\ [][Next]_vars
=============================================================================
