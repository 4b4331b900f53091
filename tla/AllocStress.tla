----------------------------- MODULE AllocStress -----------------------------
(***************************************************************************)
(* The slab allocator under its callers: the command line's thread Main,   *)
(* one command after the other, and the workers of the benchmarks, between *)
(* whose start and join Main only waits.  A worker makes so many           *)
(* operations, frees its own blocks only, then frees what it has left and  *)
(* ends; Main adds up.                                                     *)
(*                                                                         *)
(* This is the allocator's half of ThreadedBenchmark::run; in              *)
(* run_alloc_stress no operation is a Skip.  my_blocks and stats are a     *)
(* worker's locals: nobody sees when they change within a call, so they do *)
(* so with one of the call's steps.  The coin is a choice.                 *)
(***************************************************************************)
EXTENDS SlabAllocator, Sums, FiniteSetsExt

CONSTANTS Main, OpsPerThread

Workers == Threads \ {Main}

ASSUME StressAssumption ==
  /\ Main \in Threads /\ Workers # {} /\ IsFiniteSet(Workers)
  /\ OpsPerThread \in Nat

VARIABLES
  phase,       \* of Main
  my_blocks,   \* the ids a worker has; the vector is in the order of the ids
  stats, result,
  before       \* what the last benchmark found when it began

locals == <<my_blocks, stats>>
svars == <<vars, phase, locals, result, before>>

NoStats == [allocs |-> 0, alloc_fails |-> 0, frees |-> 0, total_ops |-> 0]

Allocated == Total(total_allocations)
Freed == Total(total_frees)

NothingFound == [id_map |-> Nothing, allocated |-> 0, freed |-> 0]

SInit ==
  /\ Init
  /\ phase = "uninitialized"
  /\ my_blocks = [t \in Workers |-> {}]
  /\ stats = [t \in Workers |-> NoStats]
  /\ result = NoStats
  /\ before = NothingFound

-----------------------------------------------------------------------------
(* The commands.                                                           *)

Prompt == phase \in {"cli", "joined"} /\ pc[Main] = "idle"

\* A command that is no benchmark.  Of the last one's result nothing but its
\* report depends, so it is forgotten here.
Command ==
  /\ phase' = "cli"
  /\ result' = NoStats
  /\ before' = NothingFound
  /\ UNCHANGED locals

InitCommand(size) ==
  (phase = "uninitialized" \/ Prompt) /\ InitMemory(size) /\ Command

MallocCommand(c) == Prompt /\ Reserve(Main, c) /\ Command

FreeCommand(id) == Prompt /\ Erase(Main, id) /\ Command

CommandReturns == (Publish(Main) \/ Release(Main)) /\ Command

\* MaxId must leave room for every operation to be an allocation.
Start ==
  /\ Prompt
  /\ next_id + Cardinality(Workers) * OpsPerThread <= MaxId + 1
  /\ phase' = "workers"
  /\ result' = NoStats
  /\ before' = [id_map |-> id_map, allocated |-> Allocated, freed |-> Freed]
  /\ UNCHANGED <<vars, locals>>

-----------------------------------------------------------------------------
(* The steps of a worker.                                                  *)

Looping(t) == phase = "workers" /\ stats[t].total_ops < OpsPerThread

Malloc(t, c) ==
  Looping(t) /\ Reserve(t, c) /\ UNCHANGED <<phase, locals, result, before>>

MallocReturns(t) ==
  /\ Publish(t)
  /\ my_blocks' = [my_blocks EXCEPT ![t] = @ \cup {next_id}]
  /\ stats' = [stats EXCEPT ![t].allocs = @ + 1, ![t].total_ops = @ + 1]
  /\ UNCHANGED <<phase, result, before>>

MallocFails(t, c) ==
  /\ Looping(t)
  /\ AllocateFails(t, c)
  /\ stats' = [stats EXCEPT ![t].allocs = @ + 1, ![t].alloc_fails = @ + 1,
                            ![t].total_ops = @ + 1]
  /\ UNCHANGED <<phase, my_blocks, result, before>>

FreeOwn(t, id) ==
  /\ Erase(t, id)
  /\ my_blocks' = [my_blocks EXCEPT ![t] = @ \ {id}]
  /\ UNCHANGED <<phase, stats, result, before>>

Free(t) == Looping(t) /\ \E id \in my_blocks[t] : FreeOwn(t, id)

\* A read, a write, or a free when there is nothing to free.
Skip(t) ==
  /\ Looping(t) /\ pc[t] = "idle"
  /\ stats' = [stats EXCEPT ![t].total_ops = @ + 1]
  /\ UNCHANGED <<vars, phase, my_blocks, result, before>>

\* After its last operation a worker frees what it has, in the vector's order.
CleanUp(t) ==
  /\ phase = "workers" /\ ~Looping(t)
  /\ my_blocks[t] # {}
  /\ FreeOwn(t, Min(my_blocks[t]))

FreeReturns(t) ==
  /\ Release(t)
  /\ stats' = [stats EXCEPT ![t].frees = @ + 1,
                            ![t].total_ops = IF Looping(t) THEN @ + 1 ELSE @]
  /\ UNCHANGED <<phase, my_blocks, result, before>>

Work(t) ==
  \/ \E size \in Requests, c \in Caches :
       CacheFor(size, c) /\ (Malloc(t, c) \/ MallocFails(t, c))
  \/ MallocReturns(t)
  \/ Free(t)
  \/ Skip(t)
  \/ CleanUp(t)
  \/ FreeReturns(t)

Finished(t) ==
  phase = "workers" /\ ~Looping(t) /\ pc[t] = "idle" /\ my_blocks[t] = {}

\* All workers are joined, their statistics added up and their locals gone.
Join ==
  /\ \A t \in Workers : Finished(t)
  /\ phase' = "joined"
  /\ result' = [f \in DOMAIN NoStats |-> Total([t \in Workers |-> stats[t][f]])]
  /\ stats' = [t \in Workers |-> NoStats]
  /\ UNCHANGED <<vars, my_blocks, before>>

SNext ==
  \/ \E size \in MemSizes : InitCommand(size)
  \/ \E size \in Requests, c \in Caches : CacheFor(size, c) /\ MallocCommand(c)
  \/ \E id \in DOMAIN id_map : FreeCommand(id)
  \/ CommandReturns
  \/ Start
  \/ \E t \in Workers : Work(t)
  \/ Join

\* The operating system runs every thread that can run; the user need not type
\* anything.  A mutex need not be fair: the others' operations, and so the calls
\* that may overtake, are finite.
SSpec ==
  /\ SInit /\ [][SNext]_svars
  /\ \A t \in Workers : WF_svars(Work(t))
  /\ WF_svars(Join)

-----------------------------------------------------------------------------

\* "Each thread maintains its own list of allocated block IDs": while they run,
\* every id that was not there before is in the list of exactly one worker, and
\* what the user had allocated is left alone, so that no worker frees another's
\* block, the user's, or one twice.
OwnBlocks ==
  phase = "workers" =>
    /\ \A t, u \in Workers : t # u => my_blocks[t] \cap my_blocks[u] = {}
    /\ DOMAIN id_map \ DOMAIN before.id_map = UNION {my_blocks[t] : t \in Workers}
    /\ \A id \in DOMAIN before.id_map :
         id \in DOMAIN id_map /\ id_map[id] = before.id_map[id]

\* When the workers have been joined the user's blocks are all there is, at
\* their old places, every slot but theirs is free, and three counts kept apart
\* agree: those the workers made, those the caches made of allocations and
\* those of frees.
AllReturned ==
  phase = "joined" =>
    /\ id_map = before.id_map
    /\ Total([s \in DOMAIN slabs |-> slabs[s].num_used]) = Cardinality(DOMAIN id_map)
    /\ \A s \in DOMAIN slabs :
         slabs[s].num_used = 0 => s \in In(empty[slabs[s].cache])
    /\ result.total_ops = Cardinality(Workers) * OpsPerThread
    /\ result.allocs - result.alloc_fails = result.frees
    /\ Allocated - before.allocated = result.frees
    /\ Freed - before.freed = result.frees

\* Once the workers run, the benchmark ends: no worker waits for ever for a
\* cache's lock, or for an id that another one holds.
BenchmarkEnds == phase = "workers" ~> phase = "joined"
=============================================================================
