----------------------------- MODULE MMapProofs -----------------------------
(***************************************************************************)
(* Theorems about MMapManager, for any widths, limits, pages and requests. *)
(***************************************************************************)
EXTENDS MMapManager, TLAPS

-----------------------------------------------------------------------------
(* Arithmetic                                                              *)

\* A number is a number of whole pages and a rest.
LEMMA Division ==
  ASSUME NEW x \in Nat, NEW p \in Nat, p > 0
  PROVE  /\ x \div p \in Nat
         /\ x = (x \div p) * p + (x % p)
         /\ x % p \in 0 .. p - 1
  BY SMT

LEMMA Multiple ==
  ASSUME NEW k \in Int, NEW p \in Nat, p > 0
  PROVE  (k * p) % p = 0
  BY SMT

LEMMA Positive ==
  /\ PageSize \in Nat /\ PageSize > 0
  /\ AddrMod \in Nat /\ Base \in Nat /\ Limit \in Nat
  BY MMapAssumption

\* What do_mmap makes of a length is a whole number of pages that fits.
LEMMA RoundedDown ==
  ASSUME NEW x \in Nat, NEW p \in Nat, p > 0
  PROVE  /\ (x \div p) * p \in 0 .. x
         /\ ((x \div p) * p) % p = 0
  BY SMT

\* A sum within the width does not wrap.
LEMMA PlusSmall ==
  ASSUME NEW a \in Nat, NEW b \in Nat, a + b < AddrMod
  PROVE  Plus(a, b) = a + b
  BY Positive DEF Plus

LEMMA PlusAddress ==
  ASSUME NEW a \in Nat, NEW b \in Nat
  PROVE  Plus(a, b) \in Address
<1>1. AddrMod > 0
  BY MMapAssumption
<1> QED
  BY <1>1, Positive DEF Plus, Address

\* Sums of whole pages are whole pages, wrapped or not.
LEMMA PlusPages ==
  ASSUME NEW a \in Address, NEW b \in Address,
         a % PageSize = 0, b % PageSize = 0
  PROVE  Plus(a, b) % PageSize = 0
<1> DEFINE i == a \div PageSize
           j == b \div PageSize
           m == AddrMod \div PageSize
<1>1. i \in Nat /\ a = i * PageSize
  BY Positive, Division DEF Address
<1>2. j \in Nat /\ b = j * PageSize
  BY Positive, Division DEF Address
<1>3. m \in Nat /\ AddrMod = m * PageSize
  BY Positive, Division, MMapAssumption
<1>4. Plus(a, b) = a + b \/ Plus(a, b) = a + b - AddrMod
  BY Positive DEF Plus, Address
<1> HIDE DEF i, j, m
<1>5. a + b = (i + j) * PageSize /\ a + b - AddrMod = (i + j - m) * PageSize
  BY <1>1, <1>2, <1>3, Positive
<1>6. i + j \in Int /\ i + j - m \in Int
  BY <1>1, <1>2, <1>3
<1>7. (a + b) % PageSize = 0
  BY <1>5, <1>6, Positive, Multiple
<1>8. (a + b - AddrMod) % PageSize = 0
  BY <1>5, <1>6, Positive, Multiple
<1> QED
  BY <1>4, <1>7, <1>8

\* A page lies on one side of a boundary between pages.
LEMMA PageOnOneSide ==
  ASSUME NEW x \in Nat, NEW b \in Nat, b % PageSize = 0
  PROVE  /\ x - (x % PageSize) \in 0 .. x
         /\ b <= x <=> b <= x - (x % PageSize)
<1> DEFINE i == b \div PageSize
           j == x \div PageSize
           d == x % PageSize
<1>1. i \in Nat /\ b = i * PageSize
  BY Positive, Division
<1>2. j \in Nat /\ x = j * PageSize + d /\ d \in 0 .. PageSize - 1
  BY Positive, Division
<1> HIDE DEF i, j, d
<1>3. ASSUME i <= j PROVE i * PageSize <= j * PageSize
  BY <1>1, <1>2, <1>3, Positive
<1>4. ASSUME i >= j + 1 PROVE i * PageSize >= j * PageSize + PageSize
  BY <1>1, <1>2, <1>4, Positive
<1>5. j * PageSize \in Nat /\ i * PageSize \in Nat
  BY <1>1, <1>2, Positive
<1>6. x - d \in 0 .. x /\ (b <= x <=> b <= x - d)
  BY <1>1, <1>2, <1>3, <1>4, <1>5, Positive
<1> QED
  BY <1>6 DEF d

-----------------------------------------------------------------------------
(* Types, to begin with those of the code                                  *)

Typed ==
  /\ regions \in Seq(MMapRegion)
  /\ next_addr \in Address

LEMMA AlignedAddress ==
  ASSUME NEW length \in Lengths
  PROVE  Aligned(length) \in Address /\ Aligned(length) % PageSize = 0
<1> DEFINE x == Plus(length, PageSize - 1)
<1>1. length \in Nat /\ PageSize - 1 \in Nat
  BY Positive, MMapAssumption
<1>2. x \in Address
  BY <1>1, PlusAddress
<1> HIDE DEF x
<1>3. /\ (x \div PageSize) * PageSize \in 0 .. x
      /\ ((x \div PageSize) * PageSize) % PageSize = 0
  BY <1>2, Positive, RoundedDown DEF Address
<1>4. (x \div PageSize) * PageSize \in Address
  BY <1>2, <1>3, Positive DEF Address
<1> QED
  BY <1>3, <1>4 DEF Aligned, x

\* What a call makes of the vector: one more region or a change of one.
LEMMA AddedTyped ==
  ASSUME Typed, NEW start \in Address, NEW length \in Address,
         NEW prot \in Prots, NEW fixed \in BOOLEAN,
         Added(start, length, prot, fixed)
  PROVE  /\ regions' \in Seq(MMapRegion)
         /\ Len(regions') = Len(regions) + 1
         /\ \A i \in DOMAIN regions : regions'[i] = regions[i]
         /\ regions'[Len(regions')] =
              [start_addr |-> start, length |-> length, prot |-> prot,
               fixed |-> fixed, active |-> TRUE]
<1> DEFINE r == [start_addr |-> start, length |-> length, prot |-> prot,
                 fixed |-> fixed, active |-> TRUE]
<1>1. r \in MMapRegion
  BY DEF MMapRegion
<1>2. regions' = Append(regions, r) /\ regions \in Seq(MMapRegion)
  BY DEF Added, Typed
<1> HIDE DEF r
<1>3. /\ regions' \in Seq(MMapRegion)
      /\ Len(regions') = Len(regions) + 1
      /\ \A i \in DOMAIN regions : regions'[i] = regions[i]
      /\ regions'[Len(regions')] = r
  BY <1>1, <1>2
<1> QED
  BY <1>3 DEF r

LEMMA ChangedTyped ==
  ASSUME Typed, NEW i \in DOMAIN regions, NEW r \in MMapRegion,
         regions' = [regions EXCEPT ![i] = r]
  PROVE  /\ regions' \in Seq(MMapRegion)
         /\ DOMAIN regions' = DOMAIN regions
         /\ regions'[i] = r
         /\ \A j \in DOMAIN regions : j # i => regions'[j] = regions[j]
  BY DEF Typed

LEMMA MUnmapOne ==
  ASSUME Typed, NEW addr \in Address, MUnmap(addr)
  PROVE  \E i \in DOMAIN regions :
           /\ regions'[i] = [regions[i] EXCEPT !.active = FALSE]
           /\ regions' \in Seq(MMapRegion)
           /\ DOMAIN regions' = DOMAIN regions
           /\ \A j \in DOMAIN regions : j # i => regions'[j] = regions[j]
<1>1. PICK i \in DOMAIN regions : regions' = [regions EXCEPT ![i].active = FALSE]
  BY DEF MUnmap
<1> DEFINE r == [regions[i] EXCEPT !.active = FALSE]
<1>2. r \in MMapRegion
  <2>1. regions[i] \in MMapRegion
    BY DEF Typed
  <2> QED
    BY <2>1 DEF MMapRegion
<1>3. regions' = [regions EXCEPT ![i] = r]
  BY <1>1
<1> HIDE DEF r
<1>4. /\ regions' \in Seq(MMapRegion)
      /\ DOMAIN regions' = DOMAIN regions
      /\ regions'[i] = r
      /\ \A j \in DOMAIN regions : j # i => regions'[j] = regions[j]
  BY <1>2, <1>3, ChangedTyped
<1> QED
  BY <1>4 DEF r

LEMMA MProtectOne ==
  ASSUME Typed, NEW addr \in Address, NEW prot \in Prots, MProtect(addr, prot)
  PROVE  \E i \in DOMAIN regions :
           /\ Has(regions[i], addr)
           /\ regions'[i] = [regions[i] EXCEPT !.prot = prot]
           /\ regions' \in Seq(MMapRegion)
           /\ DOMAIN regions' = DOMAIN regions
           /\ \A j \in DOMAIN regions : j # i => regions'[j] = regions[j]
<1>1. PICK i \in DOMAIN regions :
        FirstHas(i, addr) /\ regions' = [regions EXCEPT ![i].prot = prot]
  BY DEF MProtect
<1> DEFINE r == [regions[i] EXCEPT !.prot = prot]
<1>2. r \in MMapRegion
  <2>1. regions[i] \in MMapRegion
    BY DEF Typed
  <2> QED
    BY <2>1 DEF MMapRegion
<1>3. regions' = [regions EXCEPT ![i] = r]
  BY <1>1
<1> HIDE DEF r
<1>4. /\ regions' \in Seq(MMapRegion)
      /\ DOMAIN regions' = DOMAIN regions
      /\ regions'[i] = r
      /\ \A j \in DOMAIN regions : j # i => regions'[j] = regions[j]
  BY <1>2, <1>3, ChangedTyped
<1>5. Has(regions[i], addr)
  BY <1>1 DEF FirstHas, First
<1> QED
  BY <1>4, <1>5 DEF r

LEMMA TypedKept == Spec => []Typed
<1>1. Init => Typed
  BY MMapAssumption DEF Init, Typed, Address
<1>2. Typed /\ [Next]_vars => Typed'
  <2> SUFFICES ASSUME Typed, [Next]_vars PROVE Typed'
    OBVIOUS
  <2> USE DEF Typed
  <2>1. ASSUME NEW length \in Lengths, NEW prot \in Prots, MMap(length, prot)
        PROVE  Typed'
    <3>1. Plus(next_addr, Aligned(length)) \in Address
      BY AlignedAddress, PlusAddress DEF Address
    <3> QED
      BY <2>1, <3>1, AlignedAddress, AddedTyped DEF MMap
  <2>2. ASSUME NEW length \in Lengths, NEW prot \in Prots, NEW addr \in FixedAt,
               MMapFixed(addr, length, prot)
        PROVE  Typed'
    <3>1. addr \in Address
      BY MMapAssumption DEF Address
    <3> QED
      BY <2>2, <3>1, AlignedAddress, AddedTyped DEF MMapFixed
  <2>3. ASSUME NEW addr \in Address, MUnmap(addr) PROVE Typed'
    BY <2>3, MUnmapOne DEF MUnmap
  <2>4. ASSUME NEW addr \in Address, NEW prot \in Prots, MProtect(addr, prot)
        PROVE  Typed'
    BY <2>4, MProtectOne DEF MProtect
  <2>5. CASE UNCHANGED vars
    BY <2>5 DEF vars
  <2> QED
    BY <2>1, <2>2, <2>3, <2>4, <2>5 DEF Next
<1> QED
  BY <1>1, <1>2, PTL DEF Spec

-----------------------------------------------------------------------------
(* Regions apart                                                           *)

Small == \A i \in DOMAIN regions : ~Huge(regions[i])

LEMMA RegionOfType ==
  ASSUME Typed, NEW i \in DOMAIN regions
  PROVE  /\ regions[i] \in MMapRegion
         /\ regions[i].start_addr \in Address /\ regions[i].length \in Address
         /\ regions[i].active \in BOOLEAN /\ regions[i].fixed \in BOOLEAN
         /\ regions[i].prot \in Prots
         /\ End(regions[i]) \in Address
<1>1. regions[i] \in MMapRegion
  BY DEF Typed
<1>2. /\ regions[i].start_addr \in Address /\ regions[i].length \in Address
      /\ regions[i].active \in BOOLEAN /\ regions[i].fixed \in BOOLEAN
      /\ regions[i].prot \in Prots
  BY <1>1 DEF MMapRegion
<1>3. regions[i].start_addr \in Nat /\ regions[i].length \in Nat
  BY <1>2, Positive DEF Address
<1>4. End(regions[i]) \in Address
  BY <1>3, PlusAddress DEF End
<1> QED
  BY <1>1, <1>2, <1>4

\* Taking a region out of use, or its protection, moves none.
LEMMA KeptApart ==
  ASSUME Typed, RegionsApart, UNCHANGED next_addr,
         DOMAIN regions' = DOMAIN regions,
         \A j \in DOMAIN regions :
           /\ regions'[j].start_addr = regions[j].start_addr
           /\ regions'[j].length = regions[j].length
           /\ regions'[j].fixed = regions[j].fixed
           /\ regions'[j].active => regions[j].active
  PROVE  RegionsApart'
<1>1. Small' => Small
  BY DEF Small, Huge
<1>2. \A j \in DOMAIN regions : End(regions'[j]) = End(regions[j])
  BY DEF End
<1>3. \A j \in DOMAIN regions, addr \in Address :
        Has(regions'[j], addr) => Has(regions[j], addr)
  BY <1>2 DEF Has
<1> QED
  BY <1>1, <1>2, <1>3 DEF RegionsApart, Small

LEMMA MMapApart ==
  ASSUME Typed, RegionsApart, NEW length \in Lengths, NEW prot \in Prots,
         MMap(length, prot)
  PROVE  RegionsApart'
<1> DEFINE A == Aligned(length)
           n == Len(regions')
<1>1. A \in Address /\ next_addr \in Address
  BY AlignedAddress DEF Typed
<1>2. /\ Plus(next_addr, A) <= Limit
      /\ next_addr' = Plus(next_addr, A)
      /\ Added(next_addr, A, prot, FALSE)
  BY DEF MMap
<1>3. /\ regions' \in Seq(MMapRegion) /\ n = Len(regions) + 1
      /\ \A i \in DOMAIN regions : regions'[i] = regions[i]
      /\ regions'[n] = [start_addr |-> next_addr, length |-> A, prot |-> prot,
                        fixed |-> FALSE, active |-> TRUE]
  BY <1>1, <1>2, AddedTyped
<1>4. /\ DOMAIN regions' = DOMAIN regions \cup {n}
      /\ DOMAIN regions \subseteq Nat /\ n \in Nat
      /\ \A i \in DOMAIN regions : i < n
  BY <1>3 DEF Typed
<1> HIDE DEF A, n
<1> SUFFICES ASSUME Small' PROVE RegionsApart'
  BY DEF RegionsApart, Small
<1>5. Small
  BY <1>3, <1>4 DEF Small
<1>6. Base <= next_addr /\ next_addr <= Limit
  BY <1>5 DEF RegionsApart, Small
<1>7. A <= Limit
  <2>1. ~Huge(regions'[n])
    BY <1>4 DEF Small
  <2> QED
    BY <1>1, <1>3, <2>1, Positive DEF Huge, Address
<1>8. next_addr' = next_addr + A
  <2>1. next_addr + A < AddrMod
    BY <1>1, <1>6, <1>7, MMapAssumption DEF Address
  <2> QED
    BY <1>1, <1>2, <2>1, PlusSmall DEF Address
<1>9. Base <= next_addr' /\ next_addr' <= Limit /\ next_addr <= next_addr'
  BY <1>1, <1>2, <1>6, <1>8, Positive DEF Address
<1>10. End(regions'[n]) = next_addr'
  BY <1>2, <1>3 DEF End
<1>11. \A i \in DOMAIN regions :
         ~regions[i].fixed => /\ Base <= regions[i].start_addr
                              /\ End(regions[i]) <= next_addr
  BY <1>5 DEF RegionsApart, Small
<1>12. ASSUME NEW i \in DOMAIN regions', ~regions'[i].fixed
       PROVE  Base <= regions'[i].start_addr /\ End(regions'[i]) <= next_addr'
  <2>1. CASE i = n
    BY <2>1, <1>1, <1>2, <1>3, <1>6, <1>8, <1>10 DEF Address
  <2>2. CASE i \in DOMAIN regions
    <3>1. End(regions[i]) \in Nat
      BY <2>2, RegionOfType DEF Address
    <3> QED
      BY <2>2, <3>1, <1>1, <1>3, <1>8, <1>9, <1>11, <1>12 DEF Address
  <2> QED
    BY <2>1, <2>2, <1>4
<1>13. ASSUME NEW i \in DOMAIN regions', NEW j \in DOMAIN regions',
              NEW addr \in Address,
              i < j, Has(regions'[i], addr), Has(regions'[j], addr)
       PROVE  regions'[i].fixed /\ ~regions'[j].fixed
  <2>1. i \in DOMAIN regions
    BY <1>4, <1>13
  <2>2. CASE j \in DOMAIN regions
    BY <2>1, <2>2, <1>3, <1>5, <1>13 DEF RegionsApart, Small
  <2>3. CASE j = n
    <3>1. ~regions'[j].fixed /\ next_addr <= addr
      BY <2>3, <1>3, <1>13 DEF Has
    <3>2. addr < End(regions[i]) /\ End(regions[i]) \in Nat
      BY <2>1, <1>3, <1>13, RegionOfType DEF Has, Address
    <3>3. regions[i].fixed
      BY <2>1, <3>1, <3>2, <1>1, <1>11, RegionOfType DEF Address
    <3> QED
      BY <2>1, <3>1, <3>3, <1>3
  <2> QED
    BY <2>2, <2>3, <1>4
<1> QED
  BY <1>9, <1>12, <1>13 DEF RegionsApart

LEMMA MMapFixedApart ==
  ASSUME Typed, RegionsApart, NEW length \in Lengths, NEW prot \in Prots,
         NEW addr \in FixedAt, MMapFixed(addr, length, prot)
  PROVE  RegionsApart'
<1> DEFINE A == Aligned(length)
           n == Len(regions')
<1>1. A \in Address /\ addr \in Address
  BY AlignedAddress, MMapAssumption DEF Address
<1>2. /\ \A i \in DOMAIN regions : ~Overlaps(regions[i], addr, A)
      /\ Added(addr, A, prot, TRUE) /\ next_addr' = next_addr
  BY DEF MMapFixed
<1>3. /\ regions' \in Seq(MMapRegion) /\ n = Len(regions) + 1
      /\ \A i \in DOMAIN regions : regions'[i] = regions[i]
      /\ regions'[n] = [start_addr |-> addr, length |-> A, prot |-> prot,
                        fixed |-> TRUE, active |-> TRUE]
  BY <1>1, <1>2, AddedTyped
<1>4. /\ DOMAIN regions' = DOMAIN regions \cup {n}
      /\ DOMAIN regions \subseteq Nat /\ n \in Nat
      /\ \A i \in DOMAIN regions : i < n
  BY <1>3 DEF Typed
<1> HIDE DEF A, n
<1> SUFFICES ASSUME Small' PROVE RegionsApart'
  BY DEF RegionsApart, Small
<1>5. Small
  BY <1>3, <1>4 DEF Small
<1>6. ASSUME NEW i \in DOMAIN regions', ~regions'[i].fixed
      PROVE  Base <= regions'[i].start_addr /\ End(regions'[i]) <= next_addr'
  <2>1. i \in DOMAIN regions
    BY <1>3, <1>4, <1>6
  <2> QED
    BY <2>1, <1>2, <1>3, <1>5, <1>6 DEF RegionsApart, Small
<1>7. ASSUME NEW i \in DOMAIN regions', NEW j \in DOMAIN regions',
             NEW a \in Address,
             i < j, Has(regions'[i], a), Has(regions'[j], a)
      PROVE  regions'[i].fixed /\ ~regions'[j].fixed
  <2>1. i \in DOMAIN regions /\ regions'[i] = regions[i]
    BY <1>3, <1>4, <1>7
  <2>2. CASE j \in DOMAIN regions
    BY <2>1, <2>2, <1>3, <1>5, <1>7 DEF RegionsApart, Small
  <2>3. ASSUME j = n PROVE FALSE
    <3>1. addr <= a /\ a < Plus(addr, A)
      BY <2>3, <1>3, <1>7 DEF Has, End
    <3>2. /\ regions[i].active /\ regions[i].start_addr <= a
          /\ a < End(regions[i])
      BY <2>1, <1>7 DEF Has
    <3>3. addr < End(regions[i]) /\ Plus(addr, A) > regions[i].start_addr
      <4>1. /\ {addr, a, A, Plus(addr, A), End(regions[i])} \subseteq Nat
            /\ regions[i].start_addr \in Nat
        <5>1. addr \in Nat /\ a \in Nat /\ A \in Nat
          BY <1>1, Positive DEF Address
        <5>2. /\ Plus(addr, A) \in Address /\ End(regions[i]) \in Address
              /\ regions[i].start_addr \in Address
          BY <2>1, <5>1, PlusAddress, RegionOfType
        <5> QED
          BY <5>1, <5>2, Positive DEF Address
      <4> QED
        BY <3>1, <3>2, <4>1
    <3> QED
      BY <2>1, <3>2, <3>3, <1>2 DEF Overlaps
  <2> QED
    BY <2>2, <2>3, <1>4
<1> QED
  BY <1>2, <1>5, <1>6, <1>7 DEF RegionsApart, Small

\* Regions do not overlap and what do_mmap placed lies within its limits, but
\* for what RegionsApart excepts: the invariant is inductive with the types.
THEOREM RegionsStayApart == Spec => []RegionsApart
<1>1. Init => RegionsApart
  BY MMapAssumption DEF Init, RegionsApart
<1>2. Typed /\ RegionsApart /\ [Next]_vars => RegionsApart'
  <2> SUFFICES ASSUME Typed, RegionsApart, [Next]_vars PROVE RegionsApart'
    OBVIOUS
  <2>1. ASSUME NEW addr \in Address, MUnmap(addr) PROVE RegionsApart'
    <3>1. UNCHANGED next_addr
      BY <2>1 DEF MUnmap
    <3>2. PICK i \in DOMAIN regions :
            /\ regions'[i] = [regions[i] EXCEPT !.active = FALSE]
            /\ DOMAIN regions' = DOMAIN regions
            /\ \A j \in DOMAIN regions : j # i => regions'[j] = regions[j]
      BY <2>1, MUnmapOne
    <3>3. regions[i] \in MMapRegion
      BY RegionOfType
    <3> QED
      BY <3>1, <3>2, <3>3, KeptApart DEF MMapRegion
  <2>2. ASSUME NEW addr \in Address, NEW prot \in Prots, MProtect(addr, prot)
        PROVE  RegionsApart'
    <3>1. UNCHANGED next_addr
      BY <2>2 DEF MProtect
    <3>2. PICK i \in DOMAIN regions :
            /\ regions'[i] = [regions[i] EXCEPT !.prot = prot]
            /\ DOMAIN regions' = DOMAIN regions
            /\ \A j \in DOMAIN regions : j # i => regions'[j] = regions[j]
      BY <2>2, MProtectOne
    <3>3. regions[i] \in MMapRegion
      BY RegionOfType
    <3> QED
      BY <3>1, <3>2, <3>3, KeptApart DEF MMapRegion
  <2>3. CASE UNCHANGED vars
    BY <2>3, KeptApart DEF vars
  <2> QED
    BY <2>1, <2>2, <2>3, MMapApart, MMapFixedApart DEF Next
<1> QED
  BY <1>1, <1>2, TypedKept, PTL DEF Spec

-----------------------------------------------------------------------------
(* Pages                                                                   *)

PagesInv ==
  /\ next_addr % PageSize = 0
  /\ \A i \in DOMAIN regions :
       /\ regions[i].length % PageSize = 0
       /\ ~regions[i].fixed => regions[i].start_addr % PageSize = 0

LEMMA PagesInvImplies ==
  ASSUME Typed, PagesInv
  PROVE  PagesUniform
<1> SUFFICES ASSUME \A i \in DOMAIN regions :
                      ~(regions[i].fixed /\ regions[i].start_addr % PageSize # 0),
                    NEW addr \in Address
             PROVE  Verdict(addr) = Verdict(addr - (addr % PageSize))
  BY DEF PagesUniform
<1> DEFINE page == addr - (addr % PageSize)
<1>1. addr \in Nat
  BY Positive DEF Address
<1>2. \A i \in DOMAIN regions : Has(regions[i], addr) <=> Has(regions[i], page)
  <2> SUFFICES ASSUME NEW i \in DOMAIN regions
               PROVE  Has(regions[i], addr) <=> Has(regions[i], page)
    OBVIOUS
  <2> DEFINE s == regions[i].start_addr
             e == End(regions[i])
  <2>1. s \in Address /\ regions[i].length \in Address /\ e \in Address
    BY RegionOfType
  <2>2. s % PageSize = 0 /\ regions[i].length % PageSize = 0
    BY DEF PagesInv
  <2>3. e % PageSize = 0
    BY <2>1, <2>2, PlusPages DEF End
  <2>4. s \in Nat /\ e \in Nat
    BY <2>1, Positive DEF Address
  <2> HIDE DEF s, e
  <2>5. (s <= addr <=> s <= page) /\ (e <= addr <=> e <= page) /\ page \in Nat
    BY <1>1, <2>2, <2>3, <2>4, PageOnOneSide
  <2>6. (addr < e) <=> (page < e)
    BY <1>1, <2>4, <2>5
  <2> QED
    BY <2>5, <2>6 DEF Has, s, e
<1> HIDE DEF page
<1>3. contains(addr) <=> contains(page)
  BY <1>2 DEF contains
<1>4. \A i \in DOMAIN regions : FirstHas(i, addr) <=> FirstHas(i, page)
  BY <1>2 DEF FirstHas, First
<1>5. /\ check_access(addr, FALSE) <=> check_access(page, FALSE)
      /\ check_access(addr, TRUE) <=> check_access(page, TRUE)
  BY <1>4 DEF check_access
<1>6. Verdict(addr) = Verdict(page)
  BY <1>3, <1>5 DEF Verdict, contains, check_access
<1> QED
  BY <1>6 DEF page

\* do_mmap makes whole pages only, however the lengths round and wrap.
LEMMA PagesKept == Spec => []PagesInv
<1>1. Init => PagesInv
  BY MMapAssumption DEF Init, PagesInv
<1>2. Typed /\ PagesInv /\ [Next]_vars => PagesInv'
  <2> SUFFICES ASSUME Typed, PagesInv, [Next]_vars PROVE PagesInv'
    OBVIOUS
  <2> DEFINE Last(start, length, fixed) ==
               /\ DOMAIN regions' = DOMAIN regions \cup {Len(regions')}
               /\ \A i \in DOMAIN regions : regions'[i] = regions[i]
               /\ regions'[Len(regions')].start_addr = start
               /\ regions'[Len(regions')].length = length
               /\ regions'[Len(regions')].fixed = fixed
  <2>1. ASSUME NEW start \in Address, NEW length \in Address,
               NEW prot \in Prots, NEW fixed \in BOOLEAN,
               Added(start, length, prot, fixed)
        PROVE  Last(start, length, fixed)
    <3>1. /\ regions' \in Seq(MMapRegion)
          /\ Len(regions') = Len(regions) + 1
          /\ \A i \in DOMAIN regions : regions'[i] = regions[i]
          /\ regions'[Len(regions')] =
               [start_addr |-> start, length |-> length, prot |-> prot,
                fixed |-> fixed, active |-> TRUE]
      BY <2>1, AddedTyped
    <3>2. DOMAIN regions' = DOMAIN regions \cup {Len(regions')}
      BY <3>1 DEF Typed
    <3> QED
      BY <3>1, <3>2
  <2>2. next_addr \in Address /\ next_addr % PageSize = 0
    BY DEF Typed, PagesInv
  <2>3. ASSUME NEW length \in Lengths, NEW prot \in Prots, MMap(length, prot)
        PROVE  PagesInv'
    <3> DEFINE A == Aligned(length)
    <3>1. A \in Address /\ A % PageSize = 0
      BY AlignedAddress
    <3>2. next_addr' = Plus(next_addr, A) /\ Last(next_addr, A, FALSE)
      BY <2>1, <2>2, <2>3, <3>1 DEF MMap
    <3> HIDE DEF A
    <3>3. next_addr' % PageSize = 0
      BY <2>2, <3>1, <3>2, PlusPages
    <3> QED
      BY <2>2, <3>1, <3>2, <3>3 DEF PagesInv
  <2>4. ASSUME NEW length \in Lengths, NEW prot \in Prots, NEW addr \in FixedAt,
               MMapFixed(addr, length, prot)
        PROVE  PagesInv'
    <3> DEFINE A == Aligned(length)
    <3>1. A \in Address /\ A % PageSize = 0 /\ addr \in Address
      BY AlignedAddress, MMapAssumption DEF Address
    <3>2. next_addr' = next_addr /\ Last(addr, A, TRUE)
      BY <2>1, <2>4, <3>1 DEF MMapFixed
    <3> HIDE DEF A
    <3> QED
      BY <2>2, <3>1, <3>2 DEF PagesInv
  <2>5. ASSUME UNCHANGED next_addr, DOMAIN regions' = DOMAIN regions,
               \A j \in DOMAIN regions :
                 /\ regions'[j].start_addr = regions[j].start_addr
                 /\ regions'[j].length = regions[j].length
                 /\ regions'[j].fixed = regions[j].fixed
        PROVE  PagesInv'
    BY <2>5 DEF PagesInv
  <2>6. ASSUME NEW addr \in Address, MUnmap(addr) PROVE PagesInv'
    <3>1. UNCHANGED next_addr
      BY <2>6 DEF MUnmap
    <3>2. PICK i \in DOMAIN regions :
            /\ regions'[i] = [regions[i] EXCEPT !.active = FALSE]
            /\ DOMAIN regions' = DOMAIN regions
            /\ \A j \in DOMAIN regions : j # i => regions'[j] = regions[j]
      BY <2>6, MUnmapOne
    <3>3. regions[i] \in MMapRegion
      BY RegionOfType
    <3> QED
      BY <2>5, <3>1, <3>2, <3>3 DEF MMapRegion
  <2>7. ASSUME NEW addr \in Address, NEW prot \in Prots, MProtect(addr, prot)
        PROVE  PagesInv'
    <3>1. UNCHANGED next_addr
      BY <2>7 DEF MProtect
    <3>2. PICK i \in DOMAIN regions :
            /\ regions'[i] = [regions[i] EXCEPT !.prot = prot]
            /\ DOMAIN regions' = DOMAIN regions
            /\ \A j \in DOMAIN regions : j # i => regions'[j] = regions[j]
      BY <2>7, MProtectOne
    <3>3. regions[i] \in MMapRegion
      BY RegionOfType
    <3> QED
      BY <2>5, <3>1, <3>2, <3>3 DEF MMapRegion
  <2>8. CASE UNCHANGED vars
    BY <2>5, <2>8 DEF vars
  <2> QED
    BY <2>3, <2>4, <2>6, <2>7, <2>8 DEF Next
<1> QED
  BY <1>1, <1>2, TypedKept, PTL DEF Spec

\* Every variable keeps its type, regions and the next address being whole
\* pages, whatever is asked for: see TypeOK.
THEOREM TypeCorrect == Spec => []TypeOK
<1>1. Typed /\ PagesInv => TypeOK
  BY DEF Typed, PagesInv, TypeOK
<1> QED
  BY <1>1, TypedKept, PagesKept, PTL

\* The questions about an address have the same answers for its whole page:
\* no boundary of a region lies within it.
THEOREM PagesHaveOneAnswer == Spec => []PagesUniform
<1>1. Typed /\ PagesInv => PagesUniform
  BY PagesInvImplies
<1> QED
  BY <1>1, TypedKept, PagesKept, PTL

-----------------------------------------------------------------------------
(* One region                                                              *)

\* A region that does not have the address, before or after, has no part in
\* what is said of the address.
LEMMA OtherAddressesSame ==
  ASSUME NEW i \in DOMAIN regions', NEW addr \in Address,
         DOMAIN regions' = DOMAIN regions \cup {i},
         \A j \in DOMAIN regions : j # i => regions'[j] = regions[j],
         ~Has(regions'[i], addr),
         i \in DOMAIN regions => ~Has(regions[i], addr)
  PROVE  Verdict(addr)' = Verdict(addr)
<1>1. \A j \in DOMAIN regions :
        /\ Has(regions'[j], addr) <=> Has(regions[j], addr)
        /\ Has(regions[j], addr) => regions'[j] = regions[j]
  OBVIOUS
<1>2. contains(addr)' <=> contains(addr)
  BY <1>1 DEF contains
<1>3. \A j \in DOMAIN regions : FirstHas(j, addr)' <=> FirstHas(j, addr)
  BY <1>1 DEF FirstHas, First
<1>4. \A j \in DOMAIN regions' :
        FirstHas(j, addr)' => j \in DOMAIN regions /\ regions'[j] = regions[j]
  BY <1>1 DEF FirstHas, First
<1>5. \A j \in DOMAIN regions : FirstHas(j, addr) => regions'[j] = regions[j]
  BY <1>1 DEF FirstHas, First
<1>6. /\ check_access(addr, FALSE)' <=> check_access(addr, FALSE)
      /\ check_access(addr, TRUE)' <=> check_access(addr, TRUE)
  BY <1>3, <1>4, <1>5 DEF check_access
<1> QED
  BY <1>2, <1>6 DEF Verdict, contains, check_access

\* A call changes the answers for the addresses of one region.
THEOREM CallsConcernOneRegion == Spec => OneRegionChanges
<1> DEFINE Changes ==
             \E i \in DOMAIN regions' : \A addr \in Address :
               Verdict(addr)' # Verdict(addr) =>
                 \/ Has(regions'[i], addr)
                 \/ i \in DOMAIN regions /\ Has(regions[i], addr)
<1>1. Typed /\ [Next]_vars => [Changes]_vars
  <2> SUFFICES ASSUME Typed, Next PROVE Changes
    OBVIOUS
  <2>1. ASSUME NEW i \in DOMAIN regions', DOMAIN regions' = DOMAIN regions \cup {i},
               \A j \in DOMAIN regions : j # i => regions'[j] = regions[j]
        PROVE  Changes
    BY <2>1, OtherAddressesSame
  <2>2. ASSUME NEW start \in Address, NEW length \in Address,
               NEW prot \in Prots, NEW fixed \in BOOLEAN,
               Added(start, length, prot, fixed)
        PROVE  Changes
    <3>1. /\ regions' \in Seq(MMapRegion)
          /\ Len(regions') = Len(regions) + 1
          /\ \A i \in DOMAIN regions : regions'[i] = regions[i]
      BY <2>2, AddedTyped
    <3>2. /\ DOMAIN regions' = DOMAIN regions \cup {Len(regions')}
          /\ Len(regions') \in DOMAIN regions'
      BY <3>1 DEF Typed
    <3> QED
      BY <2>1, <3>1, <3>2
  <2>3. ASSUME NEW length \in Lengths, NEW prot \in Prots, MMap(length, prot)
        PROVE  Changes
    BY <2>2, <2>3, AlignedAddress DEF MMap, Typed
  <2>4. ASSUME NEW length \in Lengths, NEW prot \in Prots, NEW addr \in FixedAt,
               MMapFixed(addr, length, prot)
        PROVE  Changes
    <3>1. addr \in Address
      BY MMapAssumption DEF Address
    <3> QED
      BY <2>2, <2>4, <3>1, AlignedAddress DEF MMapFixed
  <2>5. ASSUME NEW addr \in Address, MUnmap(addr) PROVE Changes
    <3>1. PICK i \in DOMAIN regions :
            /\ DOMAIN regions' = DOMAIN regions
            /\ \A j \in DOMAIN regions : j # i => regions'[j] = regions[j]
      BY <2>5, MUnmapOne
    <3> QED
      BY <2>1, <3>1
  <2>6. ASSUME NEW addr \in Address, NEW prot \in Prots, MProtect(addr, prot)
        PROVE  Changes
    <3>1. PICK i \in DOMAIN regions :
            /\ DOMAIN regions' = DOMAIN regions
            /\ \A j \in DOMAIN regions : j # i => regions'[j] = regions[j]
      BY <2>6, MProtectOne
    <3> QED
      BY <2>1, <3>1
  <2> QED
    BY <2>3, <2>4, <2>5, <2>6 DEF Next
<1> QED
  BY <1>1, TypedKept, PTL DEF Spec, OneRegionChanges
=============================================================================
