------------------------------- MODULE SpinLock -------------------------------
(***************************************************************************)
(* The spin lock of src/ThreadSafety.h: what lets CacheHierarchy take the  *)
(* calls on a set as single steps.  A thread in lock() tries test_and_set  *)
(* until it finds the flag clear; the attempts, and no others, are atomic. *)
(***************************************************************************)
EXTENDS Naturals

CONSTANTS
  Threads,
  SPIN_LIMIT

VARIABLES
  flag_,
  pc,       \* "outside", "locking" in the loop of lock(), or "inside"
  spins     \* a local of lock()

vars == <<flag_, pc, spins>>

Init ==
  /\ flag_ = FALSE
  /\ pc = [t \in Threads |-> "outside"]
  /\ spins = [t \in Threads |-> 0]

Lock(t) ==
  /\ pc[t] = "outside"
  /\ pc' = [pc EXCEPT ![t] = "locking"]
  /\ spins' = [spins EXCEPT ![t] = 0]
  /\ UNCHANGED flag_

\* The flag was set: the thread spins, and yields after SPIN_LIMIT times.
Spin(t) ==
  /\ pc[t] = "locking"
  /\ flag_
  /\ spins' = [spins EXCEPT ![t] = IF @ + 1 > SPIN_LIMIT THEN 0 ELSE @ + 1]
  /\ UNCHANGED <<flag_, pc>>

\* The flag was clear and is set now.
Acquire(t) ==
  /\ pc[t] = "locking"
  /\ ~flag_
  /\ flag_' = TRUE
  /\ pc' = [pc EXCEPT ![t] = "inside"]
  /\ UNCHANGED spins

\* try_lock(), when it answers true; else it changes nothing.
TryLock(t) ==
  /\ pc[t] = "outside"
  /\ ~flag_
  /\ flag_' = TRUE
  /\ pc' = [pc EXCEPT ![t] = "inside"]
  /\ UNCHANGED spins

\* Only the guard of the thread that is inside calls unlock().
Unlock(t) ==
  /\ pc[t] = "inside"
  /\ flag_' = FALSE
  /\ pc' = [pc EXCEPT ![t] = "outside"]
  /\ UNCHANGED spins

Next ==
  \E t \in Threads :
    Lock(t) \/ Spin(t) \/ Acquire(t) \/ TryLock(t) \/ Unlock(t)

Spec == Init /\ [][Next]_vars

-----------------------------------------------------------------------------

\* Every variable has its type, and no thread spins longer than the limit
\* before it yields.
TypeOK ==
  /\ flag_ \in BOOLEAN
  /\ pc \in [Threads -> {"outside", "locking", "inside"}]
  /\ spins \in [Threads -> 0 .. SPIN_LIMIT]

\* At most one thread is between lock() and unlock().
MutualExclusion ==
  \A t, u \in Threads : pc[t] = "inside" /\ pc[u] = "inside" => t = u

\* The flag is clear only when nobody is inside.
FlagKeeps == \A t \in Threads : pc[t] = "inside" => flag_

IInv == TypeOK /\ MutualExclusion /\ FlagKeeps
=============================================================================
