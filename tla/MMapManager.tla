----------------------------- MODULE MMapManager -----------------------------
(***************************************************************************)
(* The regions of src/MMap.cpp: do_mmap, do_munmap and do_mprotect, and    *)
(* the questions the MMU asks of them.  A region is never taken out of the *)
(* vector, only marked inactive, and an address once handed out is not     *)
(* handed out again.                                                       *)
(*                                                                         *)
(* Addresses and lengths are unsigned numbers of 64 bits that wrap around, *)
(* with 2^64 as the constant AddrMod.  Left out: the permission to execute,*)
(* which nothing checks, the totals that are only printed, and the files,  *)
(* on which no answer to the MMU depends.                                  *)
(***************************************************************************)
EXTENDS Integers, Sequences

CONSTANTS
  PageSize,     \* PAGE_SIZE
  AddrMod,      \* 2^64
  Base, Limit,  \* the constructor's: VIRTUAL_MEM_SIZE / 2 and VIRTUAL_MEM_SIZE
  Lengths,      \* the lengths asked for
  FixedAt,      \* the addresses asked for with MAP_FIXED
  Prots,        \* the protections asked for
  MaxRegions    \* bound on the number of regions ever made

ASSUME MMapAssumption ==
  /\ {PageSize, AddrMod, Base, Limit, MaxRegions} \subseteq Nat
  /\ PageSize > 0
  /\ AddrMod % PageSize = 0 /\ Base % PageSize = 0
  /\ Base <= Limit /\ 2 * Limit < AddrMod
  /\ Lengths \subseteq 0 .. AddrMod - 1
  /\ FixedAt \subseteq 0 .. AddrMod - 1
  /\ Prots \subseteq SUBSET {"read", "write"}

VARIABLES regions, next_addr

vars == <<regions, next_addr>>

Address == 0 .. AddrMod - 1

\* fixed is MM_MAP_FIXED in the flags.
MMapRegion == [start_addr : Address, length : Address, prot : Prots,
               fixed : BOOLEAN, active : BOOLEAN]

Plus(a, b) == (a + b) % AddrMod

Init ==
  /\ regions = <<>>
  /\ next_addr = Base

-----------------------------------------------------------------------------
(* The questions                                                           *)

End(r) == Plus(r.start_addr, r.length)

Has(r, addr) == r.active /\ r.start_addr <= addr /\ addr < End(r)

\* Of the regions that fit, a search finds the one earliest in the vector.
First(i, fitting) == i \in fitting /\ \A j \in fitting : i <= j

FirstHas(i, addr) == First(i, {j \in DOMAIN regions : Has(regions[j], addr)})

contains(addr) == \E i \in DOMAIN regions : Has(regions[i], addr)

\* An address in no region is left to the MMU.
check_access(addr, is_write) ==
  \A i \in DOMAIN regions :
    FirstHas(i, addr) =>
      (IF is_write THEN "write" ELSE "read") \in regions[i].prot

\* What the MMU makes of the two answers for an address.
Verdict(addr) ==
  <<contains(addr), check_access(addr, FALSE), check_access(addr, TRUE)>>

-----------------------------------------------------------------------------
(* do_mmap                                                                 *)

\* Faulty: the length is taken as it is.
Unaligned(length) == length

\* length + PAGE_SIZE - 1 wraps first: the largest lengths become 0.
Aligned(length) == (Plus(length, PageSize - 1) \div PageSize) * PageSize

Added(start, length, prot, fixed) ==
  /\ Len(regions) < MaxRegions
  /\ regions' = Append(regions, [start_addr |-> start, length |-> length,
                                 prot |-> prot, fixed |-> fixed, active |-> TRUE])

\* Faulty: the region is recorded with the length that was asked for.
MMapLengthAsked(length, prot) ==
  /\ length # 0
  /\ Plus(next_addr, Aligned(length)) <= Limit
  /\ Added(next_addr, length, prot, FALSE)
  /\ next_addr' = Plus(next_addr, Aligned(length))

\* Faulty: the next address is moved by the length that was asked for.
MMapUnaligned(length, prot) ==
  /\ length # 0
  /\ Plus(next_addr, Aligned(length)) <= Limit
  /\ Added(next_addr, Aligned(length), prot, FALSE)
  /\ next_addr' = Plus(next_addr, length)

\* The end that is compared with the limit has wrapped around, too.
MMap(length, prot) ==
  /\ length # 0
  /\ Plus(next_addr, Aligned(length)) <= Limit
  /\ Added(next_addr, Aligned(length), prot, FALSE)
  /\ next_addr' = Plus(next_addr, Aligned(length))

Overlaps(r, addr, length) ==
  r.active /\ addr < End(r) /\ Plus(addr, length) > r.start_addr

\* No command of the CLI gives MAP_FIXED.  next_addr does not learn of the
\* region.
MMapFixed(addr, length, prot) ==
  /\ length # 0
  /\ Plus(addr, Aligned(length)) <= Limit
  /\ \A i \in DOMAIN regions : ~Overlaps(regions[i], addr, Aligned(length))
  /\ Added(addr, Aligned(length), prot, TRUE)
  /\ UNCHANGED next_addr

-----------------------------------------------------------------------------
(* do_munmap and do_mprotect                                               *)

\* Only the start of a region will do.
MUnmap(addr) ==
  /\ \E i \in DOMAIN regions :
       /\ First(i, {j \in DOMAIN regions :
                     regions[j].active /\ regions[j].start_addr = addr})
       /\ regions' = [regions EXCEPT ![i].active = FALSE]
  /\ UNCHANGED next_addr

\* Faulty: all regions that begin at or below the address are changed.
MProtectAll(addr, new_prot) ==
  /\ contains(addr)
  /\ regions' = [i \in DOMAIN regions |->
                   IF regions[i].start_addr <= addr
                   THEN [regions[i] EXCEPT !.prot = new_prot] ELSE regions[i]]
  /\ UNCHANGED next_addr

MProtect(addr, new_prot) ==
  /\ \E i \in DOMAIN regions :
       /\ FirstHas(i, addr)
       /\ regions' = [regions EXCEPT ![i].prot = new_prot]
  /\ UNCHANGED next_addr

Next ==
  \/ \E length \in Lengths, prot \in Prots :
       \/ MMap(length, prot)
       \/ \E addr \in FixedAt : MMapFixed(addr, length, prot)
  \/ \E addr \in Address : MUnmap(addr)
  \/ \E addr \in Address, prot \in Prots : MProtect(addr, prot)

Spec == Init /\ [][Next]_vars

-----------------------------------------------------------------------------

\* Every variable has its type, which is narrower than u64: a region is a number
\* of whole pages long, the rounding having wrapped or not, and the next address
\* is the start of a page, as that of every region is that do_mmap placed there.
TypeOK ==
  /\ regions \in Seq(MMapRegion)
  /\ next_addr \in Address /\ next_addr % PageSize = 0
  /\ \A i \in DOMAIN regions :
       /\ regions[i].length % PageSize = 0
       /\ ~regions[i].fixed => regions[i].start_addr % PageSize = 0

\* A length with which the end of a region, or the rounded length, may wrap.
Huge(r) == r.length = 0 \/ r.length > Limit

\* Active regions have no address in common, the ones that do_mmap placed lie
\* between "base = lowest address that mmap can hand out" and the next address,
\* and that is within the limit.  Two things break this: a length near 2^64,
\* after which next_addr goes back, and a region placed by do_mmap over one
\* with a fixed address, which it does not look for.
RegionsApart ==
  (\A i \in DOMAIN regions : ~Huge(regions[i])) =>
    /\ Base <= next_addr /\ next_addr <= Limit
    /\ \A i \in DOMAIN regions :
         ~regions[i].fixed => /\ Base <= regions[i].start_addr
                              /\ End(regions[i]) <= next_addr
    /\ \A i, j \in DOMAIN regions, addr \in Address :
         i < j /\ Has(regions[i], addr) /\ Has(regions[j], addr)
           => regions[i].fixed /\ ~regions[j].fixed

\* All addresses of a page get the same answers, so that the MMU may check the
\* one address it is given and then work by page; only a region fixed at an
\* address within a page can divide one.
PagesUniform ==
  \/ \E i \in DOMAIN regions :
       regions[i].fixed /\ regions[i].start_addr % PageSize # 0
  \/ \A addr \in Address : Verdict(addr) = Verdict(addr - (addr % PageSize))

\* One call concerns one region: the answers for an address outside of it stay,
\* even where regions overlap.
OneRegionChanges ==
  [][\E i \in DOMAIN regions' : \A addr \in Address :
       Verdict(addr)' # Verdict(addr) =>
         \/ Has(regions'[i], addr)
         \/ i \in DOMAIN regions /\ Has(regions[i], addr)]_vars
=============================================================================
