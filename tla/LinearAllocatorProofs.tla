----------------------- MODULE LinearAllocatorProofs -----------------------
(***************************************************************************)
(* Theorems about LinearAllocator, for any memory sizes, requests and      *)
(* strategies: the list tiles the memory, the id map is exact, freeing     *)
(* leaves no free neighbours, and the allocator implements AllocatorSpec.  *)
(***************************************************************************)
EXTENDS LinearAllocator, TLAPS

-----------------------------------------------------------------------------
(* A list of blocks, apart from the variables.                             *)

\* Block x stands between its neighbours (the body of Tiled).
Linked(bs, size, x) ==
  LET end == x + bs[x].mem_size IN
  /\ bs[x].mem_size > 0
  /\ end <= size
  /\ end = size => bs[x].next = Null
  /\ end < size => /\ bs[x].next = end
                   /\ end \in DOMAIN bs
                   /\ bs[end].prev = x
  /\ x > 0 => /\ bs[x].prev \in DOMAIN bs
              /\ bs[bs[x].prev].next = x
  /\ \A y \in DOMAIN bs : x < y => end <= y

\* A typed list that tiles its memory, from block 0 on.
Tiles(bs, size) ==
  /\ DOMAIN bs \subseteq Nat
  /\ \A x \in DOMAIN bs : bs[x] \in Block
  /\ DOMAIN bs # {} => 0 \in DOMAIN bs /\ bs[0].prev = Null
  /\ \A x \in DOMAIN bs : Linked(bs, size, x)

\* Block x and the one behind it are both free.
FreePair(bs, x) ==
  /\ bs[x].is_free
  /\ bs[x].next # Null
  /\ bs[bs[x].next].is_free

\* What a block carries for its user.
SameUse(bs, cs, x) ==
  /\ cs[x].is_free = bs[x].is_free
  /\ cs[x].Id = bs[x].Id
  /\ cs[x].req_size = bs[x].req_size

\* A block that carries nothing.
Unused(cs, x) == cs[x].is_free /\ cs[x].Id = 0 /\ cs[x].req_size = 0

LEMMA BlockFields ==
  ASSUME NEW b \in Block
  PROVE  /\ b.mem_size \in Nat /\ b.req_size \in Nat /\ b.Id \in Nat
         /\ b.is_free \in BOOLEAN
         /\ b.next \in Nat \cup {Null} /\ b.prev \in Nat \cup {Null}
  BY DEF Block

\* The neighbours of a block, and where they stand.
LEMMA Neighbours ==
  ASSUME NEW bs, NEW size \in Nat, Tiles(bs, size), NEW a \in DOMAIN bs
  PROVE  /\ a \in Nat /\ bs[a].mem_size \in Nat \ {0}
         /\ a + bs[a].mem_size <= size
         /\ bs[a].next # Null => /\ bs[a].next = a + bs[a].mem_size
                                 /\ bs[a].next \in DOMAIN bs
                                 /\ bs[bs[a].next].prev = a
         /\ bs[a].prev # Null => /\ bs[a].prev \in DOMAIN bs
                                 /\ bs[bs[a].prev].next = a
         /\ bs[a].next = Null => a + bs[a].mem_size = size
         /\ a > 0 => bs[a].prev # Null
<1>1. bs[a] \in Block /\ a \in Nat /\ Linked(bs, size, a)
  BY DEF Tiles
<1>2. bs[a].mem_size \in Nat /\ bs[a].next \in Nat \cup {Null}
  BY <1>1, BlockFields
<1>3. a = 0 => bs[a].prev = Null
  BY DEF Tiles
<1>4. a > 0 => bs[a].prev \in DOMAIN bs /\ DOMAIN bs \subseteq Nat
  BY <1>1 DEF Linked, Tiles
<1> QED
  BY <1>1, <1>2, <1>3, <1>4 DEF Linked, Null

-----------------------------------------------------------------------------
(* Absorb                                                                  *)

\* Absorbing changes the size and the two links that meet it, nothing else.
LEMMA AbsorbFields ==
  ASSUME NEW bs, NEW size \in Nat, Tiles(bs, size),
         NEW a \in DOMAIN bs, bs[a].next # Null,
         NEW n, n = bs[a].next,
         NEW cs, cs = Absorb(bs, a)
  PROVE  /\ DOMAIN cs = DOMAIN bs \ {n}
         /\ a \in DOMAIN cs
         /\ n \in DOMAIN bs /\ n # a /\ bs[n].next # a
         /\ cs[a].mem_size = bs[a].mem_size + bs[n].mem_size
         /\ cs[a].next = bs[n].next /\ cs[a].prev = bs[a].prev
         /\ \A x \in DOMAIN cs : cs[x] \in Block /\ SameUse(bs, cs, x)
         /\ \A x \in DOMAIN cs \ {a} :
              /\ cs[x].mem_size = bs[x].mem_size
              /\ cs[x].next = bs[x].next
              /\ cs[x].prev = IF x = bs[n].next THEN a ELSE bs[x].prev
<1>1. /\ n \in DOMAIN bs /\ a \in Nat /\ n \in Nat /\ n > a
      /\ bs[n].next # Null => bs[n].next > n
  BY Neighbours
<1>2. n # a /\ bs[n].next # a
  BY <1>1 DEF Null
<1>3. \A x \in DOMAIN bs : bs[x] \in Block
  BY DEF Tiles
<1>4. DOMAIN cs = DOMAIN bs \ {n}
  BY DEF Absorb
<1>5. a \in DOMAIN cs
  BY <1>2, <1>4
<1>6. cs[a] = [bs[a] EXCEPT !.mem_size = @ + bs[n].mem_size, !.next = bs[n].next]
  BY <1>5, <1>4 DEF Absorb
<1>7. \A x \in DOMAIN cs \ {a} :
        cs[x] = IF x = bs[n].next THEN [bs[x] EXCEPT !.prev = a] ELSE bs[x]
  BY <1>4 DEF Absorb
<1>8. /\ cs[a].mem_size = bs[a].mem_size + bs[n].mem_size
      /\ cs[a].next = bs[n].next /\ cs[a].prev = bs[a].prev
      /\ cs[a] \in Block /\ SameUse(bs, cs, a)
  <2> DEFINE m == bs[a].mem_size + bs[n].mem_size
             l == bs[n].next
  <2>1. bs[a] \in Block /\ bs[n] \in Block
    BY <1>1, <1>3
  <2>2. m \in Nat /\ l \in Nat \cup {Null}
    BY <2>1, BlockFields
  <2>3. cs[a] = [bs[a] EXCEPT !.mem_size = m, !.next = l]
    BY <1>6
  <2> HIDE DEF m, l
  <2>4. cs[a].mem_size = m /\ cs[a].next = l /\ cs[a].prev = bs[a].prev
    BY <2>1, <2>3 DEF Block
  <2>5. cs[a] \in Block /\ SameUse(bs, cs, a)
    BY <2>1, <2>2, <2>3 DEF Block, SameUse
  <2> QED
    BY <2>4, <2>5 DEF m, l
<1>9. ASSUME NEW x \in DOMAIN cs \ {a}
      PROVE  /\ cs[x].mem_size = bs[x].mem_size
             /\ cs[x].next = bs[x].next
             /\ cs[x].prev = IF x = bs[n].next THEN a ELSE bs[x].prev
             /\ cs[x] \in Block /\ SameUse(bs, cs, x)
  <2>1. bs[x] \in Block
    BY <1>3, <1>4
  <2> QED
    BY <1>1, <1>7, <2>1 DEF Block, SameUse
<1> QED
  BY <1>1, <1>2, <1>4, <1>5, <1>8, <1>9

\* A block that takes in the one behind it leaves the memory tiled.
LEMMA AbsorbTiles ==
  ASSUME NEW bs, NEW size \in Nat, Tiles(bs, size),
         NEW a \in DOMAIN bs, bs[a].next # Null
  PROVE  Tiles(Absorb(bs, a), size)
<1> DEFINE n == bs[a].next
           cs == Absorb(bs, a)
<1>1. /\ DOMAIN cs = DOMAIN bs \ {n}
      /\ a \in DOMAIN cs
      /\ n \in DOMAIN bs /\ n # a /\ bs[n].next # a
      /\ cs[a].mem_size = bs[a].mem_size + bs[n].mem_size
      /\ cs[a].next = bs[n].next /\ cs[a].prev = bs[a].prev
      /\ \A x \in DOMAIN cs : cs[x] \in Block
      /\ \A x \in DOMAIN cs \ {a} :
           /\ cs[x].mem_size = bs[x].mem_size
           /\ cs[x].next = bs[x].next
           /\ cs[x].prev = IF x = bs[n].next THEN a ELSE bs[x].prev
  BY AbsorbFields
<1> HIDE DEF cs
<1>2. DOMAIN cs \subseteq Nat
  BY <1>1 DEF Tiles
<1>3. /\ n = a + bs[a].mem_size /\ a \in Nat /\ bs[n].prev = a
      /\ bs[a].mem_size \in Nat \ {0} /\ bs[n].mem_size \in Nat \ {0}
      /\ n \in Nat
  BY Neighbours, <1>1
<1>4. \A x \in DOMAIN bs : Linked(bs, size, x) /\ bs[x].mem_size \in Nat /\ x \in Nat
  BY Neighbours DEF Tiles
<1>5. 0 \in DOMAIN cs /\ cs[0].prev = Null
  <2>1. 0 \in DOMAIN bs /\ bs[0].prev = Null /\ n # 0
    BY <1>3 DEF Tiles
  <2>2. bs[n].next # 0
    BY <1>1, <1>3, Neighbours DEF Null
  <2> QED
    BY <1>1, <2>1, <2>2
<1>6. Linked(cs, size, a)
  <2> DEFINE end == a + cs[a].mem_size
  <2>1. end = n + bs[n].mem_size /\ cs[a].mem_size > 0
    BY <1>1, <1>3
  <2>2. Linked(bs, size, n) /\ Linked(bs, size, a)
    BY <1>1, <1>4
  <2>3. end <= size /\ (end = size => cs[a].next = Null)
    BY <1>1, <2>1, <2>2 DEF Linked
  <2>4. end < size => cs[a].next = end /\ end \in DOMAIN cs /\ cs[end].prev = a
    <3> SUFFICES ASSUME end < size
                 PROVE  cs[a].next = end /\ end \in DOMAIN cs /\ cs[end].prev = a
      OBVIOUS
    <3>1. bs[n].next = end /\ end \in DOMAIN bs
      BY <2>1, <2>2 DEF Linked
    <3>2. end # n /\ end # a
      BY <2>1, <1>3
    <3> QED
      BY <1>1, <3>1, <3>2
  <2>5. a > 0 => cs[a].prev \in DOMAIN cs /\ cs[cs[a].prev].next = a
    <3> SUFFICES ASSUME a > 0
                 PROVE  cs[a].prev \in DOMAIN cs /\ cs[cs[a].prev].next = a
      OBVIOUS
    <3> DEFINE p == bs[a].prev
    <3>1. p \in DOMAIN bs /\ bs[p].next = a
      BY <2>2 DEF Linked
    <3>2. p # n
      BY <3>1, <1>1
    <3>3. p # a
      BY <3>1, <1>1
    <3> QED
      BY <1>1, <3>1, <3>2, <3>3
  <2>6. ASSUME NEW y \in DOMAIN cs, a < y
        PROVE  end <= y
    <3>1. y \in DOMAIN bs /\ y # n /\ y \in Nat
      BY <1>1, <1>4
    <3>2. n <= y
      BY <2>2, <2>6, <3>1, <1>3 DEF Linked
    <3>3. n < y
      BY <3>1, <3>2, <1>3
    <3> QED
      BY <2>1, <2>2, <3>1, <3>3 DEF Linked
  <2> QED
    BY <2>1, <2>3, <2>4, <2>5, <2>6 DEF Linked
<1>7. ASSUME NEW x \in DOMAIN cs, x # a
      PROVE  Linked(cs, size, x)
  <2> DEFINE end == x + cs[x].mem_size
  <2>1. /\ x \in DOMAIN bs /\ x # n /\ x \in Nat
        /\ cs[x].mem_size = bs[x].mem_size /\ cs[x].next = bs[x].next
        /\ cs[x].prev = IF x = bs[n].next THEN a ELSE bs[x].prev
    BY <1>1, <1>4, <1>7
  <2>2. Linked(bs, size, x) /\ bs[x].mem_size \in Nat
    BY <1>4, <2>1
  <2>3. bs[x].next # n
    BY <2>1, <2>2, <1>3, <1>7, Neighbours DEF Null
  <2>4. cs[x].mem_size > 0 /\ end <= size /\ (end = size => cs[x].next = Null)
    BY <2>1, <2>2 DEF Linked
  <2>5. end < size => cs[x].next = end /\ end \in DOMAIN cs /\ cs[end].prev = x
    <3> SUFFICES ASSUME end < size
                 PROVE  cs[x].next = end /\ end \in DOMAIN cs /\ cs[end].prev = x
      OBVIOUS
    <3>1. bs[x].next = end /\ end \in DOMAIN bs /\ bs[end].prev = x
      BY <2>1, <2>2 DEF Linked
    <3>2. end \in DOMAIN cs
      BY <1>1, <3>1, <2>3
    <3>3. end # bs[n].next
      <4> SUFFICES ASSUME end = bs[n].next
                   PROVE  FALSE
        OBVIOUS
      <4>1. bs[n].next # Null
        BY <3>1, <1>4 DEF Null
      <4>2. bs[bs[n].next].prev = n
        BY <4>1, <1>1, Neighbours
      <4> QED
        BY <4>2, <3>1, <2>1
    <3>4. cs[end].prev = x
      BY <1>1, <3>1, <3>2, <3>3
    <3> QED
      BY <2>1, <3>1, <3>2, <3>4
  <2>6. x > 0 => cs[x].prev \in DOMAIN cs /\ cs[cs[x].prev].next = x
    <3> SUFFICES ASSUME x > 0
                 PROVE  cs[x].prev \in DOMAIN cs /\ cs[cs[x].prev].next = x
      OBVIOUS
    <3>1. CASE x = bs[n].next
      BY <3>1, <1>1, <2>1
    <3>2. CASE x # bs[n].next
      <4>1. bs[x].prev \in DOMAIN bs /\ bs[bs[x].prev].next = x
        BY <2>2 DEF Linked
      <4>2. bs[x].prev # n /\ bs[x].prev # a
        BY <4>1, <3>2, <2>1
      <4> QED
        BY <4>1, <4>2, <3>2, <2>1, <1>1
    <3> QED
      BY <3>1, <3>2
  <2>7. \A y \in DOMAIN cs : x < y => end <= y
    BY <1>1, <2>1, <2>2 DEF Linked
  <2> QED
    BY <2>4, <2>5, <2>6, <2>7 DEF Linked
<1>8. \A x \in DOMAIN cs : Linked(cs, size, x)
  BY <1>6, <1>7
<1>9. Tiles(cs, size)
  BY <1>1, <1>2, <1>5, <1>8 DEF Tiles
<1> QED
  BY <1>9 DEF cs

-----------------------------------------------------------------------------
(* Coalesced                                                               *)

\* Absorbing a free block behind a free one takes away the pair they made.
LEMMA AbsorbPairs ==
  ASSUME NEW bs, NEW size \in Nat, Tiles(bs, size),
         NEW a \in DOMAIN bs, FreePair(bs, a),
         NEW cs, cs = Absorb(bs, a)
  PROVE  /\ Tiles(cs, size) /\ a \in DOMAIN cs
         /\ DOMAIN cs \subseteq DOMAIN bs
         /\ \A x \in DOMAIN cs : SameUse(bs, cs, x)
         /\ \A x \in DOMAIN bs : ~bs[x].is_free =>
              x \in DOMAIN cs /\ cs[x].mem_size = bs[x].mem_size
         /\ cs[a].prev = bs[a].prev
         /\ FreePair(cs, a) => FreePair(bs, bs[a].next)
         /\ \A x \in DOMAIN cs \ {a} :
              /\ cs[x].next = bs[x].next
              /\ FreePair(cs, x) => FreePair(bs, x)
<1> DEFINE n == bs[a].next
<1>1. /\ DOMAIN cs = DOMAIN bs \ {n}
      /\ a \in DOMAIN cs
      /\ n \in DOMAIN bs /\ n # a /\ bs[n].next # a
      /\ cs[a].next = bs[n].next /\ cs[a].prev = bs[a].prev
      /\ \A x \in DOMAIN cs : SameUse(bs, cs, x)
      /\ \A x \in DOMAIN cs \ {a} :
           /\ cs[x].mem_size = bs[x].mem_size
           /\ cs[x].next = bs[x].next
  BY AbsorbFields DEF FreePair
<1>2. Tiles(cs, size)
  BY AbsorbTiles DEF FreePair
<1>3. bs[a].is_free /\ bs[n].is_free
  BY DEF FreePair
<1>4. \A x \in DOMAIN bs : ~bs[x].is_free =>
        x \in DOMAIN cs /\ cs[x].mem_size = bs[x].mem_size
  BY <1>1, <1>3
<1>5. FreePair(cs, a) => FreePair(bs, n)
  <2> SUFFICES ASSUME FreePair(cs, a)
               PROVE  FreePair(bs, n)
    OBVIOUS
  <2>1. cs[a].next # Null /\ cs[cs[a].next].is_free
    BY DEF FreePair
  <2>2. cs[a].next \in DOMAIN cs
    BY <1>1, <1>2, <2>1, Neighbours
  <2> QED
    BY <1>1, <1>3, <2>1, <2>2 DEF FreePair, SameUse
<1>6. ASSUME NEW x \in DOMAIN cs \ {a}, FreePair(cs, x)
      PROVE  FreePair(bs, x)
  <2>1. cs[x].is_free /\ cs[x].next # Null /\ cs[cs[x].next].is_free
    BY <1>6 DEF FreePair
  <2>2. cs[x].next \in DOMAIN cs
    BY <1>2, <2>1, Neighbours
  <2> QED
    BY <1>1, <2>1, <2>2 DEF FreePair, SameUse
<1> QED
  BY <1>1, <1>2, <1>4, <1>5, <1>6

\* A block just freed, with no other pair of free neighbours than those it
\* makes, is coalesced with both: the memory stays tiled, no pair is left,
\* and every block in use is still there and as large as it was.
LEMMA CoalescedTiles ==
  ASSUME NEW bs, NEW size \in Nat, Tiles(bs, size),
         NEW a \in DOMAIN bs, bs[a].is_free,
         \A x \in DOMAIN bs : FreePair(bs, x) => x = a \/ bs[x].next = a,
         NEW cs, cs = Coalesced(bs, a)
  PROVE  /\ Tiles(cs, size)
         /\ DOMAIN cs \subseteq DOMAIN bs /\ DOMAIN cs # {}
         /\ \A x \in DOMAIN cs : SameUse(bs, cs, x) /\ ~FreePair(cs, x)
         /\ \A x \in DOMAIN bs : ~bs[x].is_free =>
              x \in DOMAIN cs /\ cs[x].mem_size = bs[x].mem_size
<1> DEFINE behind == IF FreeAt(bs, bs[a].next) THEN Absorb(bs, a) ELSE bs
<1>1. /\ Tiles(behind, size) /\ a \in DOMAIN behind
      /\ DOMAIN behind \subseteq DOMAIN bs
      /\ \A x \in DOMAIN behind : SameUse(bs, behind, x)
      /\ \A x \in DOMAIN bs : ~bs[x].is_free =>
           x \in DOMAIN behind /\ behind[x].mem_size = bs[x].mem_size
      /\ \A x \in DOMAIN behind : FreePair(behind, x) => behind[x].next = a
  <2>1. CASE ~FreeAt(bs, bs[a].next)
    <3>1. behind = bs /\ ~FreePair(bs, a)
      BY <2>1 DEF FreeAt, FreePair
    <3> QED
      BY <3>1 DEF SameUse
  <2>2. CASE FreeAt(bs, bs[a].next)
    <3> DEFINE n == bs[a].next
    <3>1. FreePair(bs, a) /\ behind = Absorb(bs, a)
      BY <2>2 DEF FreeAt, FreePair
    <3> HIDE DEF behind
    <3>2. /\ Tiles(behind, size) /\ a \in DOMAIN behind
          /\ DOMAIN behind \subseteq DOMAIN bs
          /\ \A x \in DOMAIN behind : SameUse(bs, behind, x)
          /\ \A x \in DOMAIN bs : ~bs[x].is_free =>
               x \in DOMAIN behind /\ behind[x].mem_size = bs[x].mem_size
          /\ FreePair(behind, a) => FreePair(bs, n)
          /\ \A x \in DOMAIN behind \ {a} :
               /\ behind[x].next = bs[x].next
               /\ FreePair(behind, x) => FreePair(bs, x)
      BY <3>1, AbsorbPairs
    <3>3. n \in DOMAIN bs /\ n # a /\ bs[n].next # a
      <4>1. /\ n \in DOMAIN bs /\ a \in Nat /\ n \in Nat /\ n > a
            /\ bs[n].next # Null => bs[n].next > n
        BY <3>1, Neighbours DEF FreePair
      <4> QED
        BY <4>1 DEF Null
    <3>4. ~FreePair(behind, a)
      BY <3>2, <3>3
    <3> QED
      BY <3>2, <3>4
  <2> QED
    BY <2>1, <2>2
<1>2. cs = IF FreeAt(behind, behind[a].prev)
           THEN Absorb(behind, behind[a].prev) ELSE behind
  BY DEF Coalesced
<1> HIDE DEF behind
<1>3. CASE ~FreeAt(behind, behind[a].prev)
  <2>1. cs = behind
    BY <1>2, <1>3
  <2>2. \A x \in DOMAIN behind : ~FreePair(behind, x)
    <3> SUFFICES ASSUME NEW x \in DOMAIN behind, FreePair(behind, x)
                 PROVE  FALSE
      OBVIOUS
    <3>1. behind[x].next = a /\ behind[x].is_free /\ behind[x].next # Null
      BY <1>1 DEF FreePair
    <3>2. behind[a].prev = x
      BY <1>1, <3>1, Neighbours
    <3>3. x # Null
      BY <1>1 DEF Tiles, Null
    <3> QED
      BY <1>3, <3>1, <3>2, <3>3 DEF FreeAt
  <2> QED
    BY <1>1, <2>1, <2>2
<1>4. CASE FreeAt(behind, behind[a].prev)
  <2> DEFINE p == behind[a].prev
  <2>1. p \in DOMAIN behind /\ behind[p].next = a /\ behind[p].is_free
    BY <1>1, <1>4, Neighbours DEF FreeAt
  <2>2. behind[a].is_free /\ a # Null
    BY <1>1 DEF SameUse, Tiles, Null
  <2>3. FreePair(behind, p) /\ cs = Absorb(behind, p)
    BY <1>2, <1>4, <2>1, <2>2 DEF FreePair
  <2> HIDE DEF p
  <2>4. /\ Tiles(cs, size)
        /\ DOMAIN cs \subseteq DOMAIN behind /\ p \in DOMAIN cs
        /\ \A x \in DOMAIN cs : SameUse(behind, cs, x)
        /\ \A x \in DOMAIN behind : ~behind[x].is_free =>
             x \in DOMAIN cs /\ cs[x].mem_size = behind[x].mem_size
        /\ FreePair(cs, p) => FreePair(behind, a)
        /\ \A x \in DOMAIN cs \ {p} : FreePair(cs, x) => FreePair(behind, x)
    BY <1>1, <2>1, <2>3, AbsorbPairs
  <2>5. ASSUME NEW x \in DOMAIN cs, FreePair(cs, x)
        PROVE  FALSE
    <3>1. CASE x = p
      <4>1. behind[a].next = a /\ behind[a].next # Null
        BY <2>4, <2>5, <3>1, <1>1 DEF FreePair
      <4> QED
        BY <4>1, <1>1, Neighbours
    <3>2. CASE x # p
      <4>1. behind[x].next = a /\ x \in DOMAIN behind
        BY <2>4, <2>5, <3>2, <1>1
      <4>2. behind[a].prev = x
        BY <4>1, <2>2, <1>1, Neighbours
      <4> QED
        BY <4>2, <3>2 DEF p
    <3> QED
      BY <3>1, <3>2
  <2>6. \A x \in DOMAIN cs : SameUse(bs, cs, x)
    BY <2>4, <1>1 DEF SameUse
  <2>7. \A x \in DOMAIN bs : ~bs[x].is_free =>
          x \in DOMAIN cs /\ cs[x].mem_size = bs[x].mem_size
    BY <2>4, <1>1 DEF SameUse
  <2> QED
    BY <2>4, <2>5, <2>6, <2>7, <1>1
<1> QED
  BY <1>3, <1>4

-----------------------------------------------------------------------------
(* Split                                                                   *)

\* Changing what blocks carry, and neither sizes nor links, moves nothing.
LEMMA RelabelTiles ==
  ASSUME NEW bs, NEW size \in Nat, Tiles(bs, size),
         NEW cs, DOMAIN cs = DOMAIN bs,
         \A x \in DOMAIN bs : /\ cs[x] \in Block
                              /\ cs[x].mem_size = bs[x].mem_size
                              /\ cs[x].next = bs[x].next
                              /\ cs[x].prev = bs[x].prev
  PROVE  Tiles(cs, size)
<1>1. ASSUME NEW x \in DOMAIN cs
      PROVE  Linked(cs, size, x)
  <2>1. Linked(bs, size, x)
    BY DEF Tiles
  <2> QED
    BY <2>1 DEF Linked
<1> QED
  BY <1>1 DEF Tiles

\* What the split leaves: block a of the size, and the rest r behind it.
IsSplit(cs, a, size, r) ==
  /\ DOMAIN cs = DOMAIN blocks \cup {r}
  /\ r \in Nat /\ r \notin DOMAIN blocks /\ r > a
  /\ \A x \in DOMAIN cs : cs[x] \in Block
  /\ cs[a].mem_size = size /\ cs[a].next = r /\ cs[a].prev = blocks[a].prev
  /\ cs[r].mem_size = blocks[a].mem_size - size
  /\ cs[r].next = blocks[a].next /\ cs[r].prev = a
  /\ Unused(cs, r)
  /\ \A x \in DOMAIN blocks : SameUse(blocks, cs, x)
  /\ \A x \in DOMAIN blocks \ {a} :
       /\ cs[x].mem_size = blocks[x].mem_size
       /\ cs[x].next = blocks[x].next
       /\ cs[x].prev = IF x = blocks[a].next THEN r ELSE blocks[x].prev

LEMMA SplitFields ==
  ASSUME NEW total \in Nat, Tiles(blocks, total),
         NEW a \in DOMAIN blocks, NEW size \in Nat \ {0},
         blocks[a].mem_size > size
  PROVE  IsSplit(Split(a, size), a, size, a + size)
<1> DEFINE r == a + size
           cs == Split(a, size)
<1>1. /\ a \in Nat /\ blocks[a].mem_size \in Nat
      /\ blocks[a].next # Null => /\ blocks[a].next = a + blocks[a].mem_size
                                  /\ blocks[a].next \in DOMAIN blocks
  BY Neighbours
<1>2. \A x \in DOMAIN blocks : x \in Nat /\ blocks[x] \in Block
  BY DEF Tiles
<1>3. r \in Nat /\ r > a /\ r < a + blocks[a].mem_size
  BY <1>1
<1>4. r \notin DOMAIN blocks
  <2>1. \A y \in DOMAIN blocks : a < y => a + blocks[a].mem_size <= y
    BY DEF Tiles, Linked
  <2> QED
    BY <1>1, <1>3, <2>1
<1>5. DOMAIN cs = DOMAIN blocks \cup {r}
  BY DEF Split
<1>6. cs[r] = FreeBlock(blocks[a].mem_size - size, blocks[a].next, a)
  BY <1>3, <1>4 DEF Split
<1>7. cs[a] = [blocks[a] EXCEPT !.mem_size = size, !.next = r]
  BY <1>3, <1>4 DEF Split
<1>8. \A x \in DOMAIN blocks \ {a} :
        cs[x] = IF x = blocks[a].next THEN [blocks[x] EXCEPT !.prev = r]
                                      ELSE blocks[x]
  BY <1>3, <1>4 DEF Split
<1>9. /\ cs[r] \in Block
      /\ cs[r].mem_size = blocks[a].mem_size - size
      /\ cs[r].next = blocks[a].next /\ cs[r].prev = a
      /\ Unused(cs, r)
  <2> DEFINE m == blocks[a].mem_size - size
             l == blocks[a].next
  <2>1. m \in Nat
    BY <1>1
  <2>2. l \in Nat \cup {Null}
    BY <1>2, BlockFields
  <2>3. cs[r] = FreeBlock(m, l, a)
    BY <1>6
  <2> HIDE DEF m, l
  <2>4. cs[r] \in Block
    BY <1>1, <2>1, <2>2, <2>3 DEF FreeBlock, Block
  <2>5. /\ cs[r].mem_size = m /\ cs[r].next = l /\ cs[r].prev = a
        /\ Unused(cs, r)
    BY <2>3 DEF FreeBlock, Unused
  <2> QED
    BY <2>4, <2>5 DEF m, l
<1>10. /\ cs[a] \in Block /\ SameUse(blocks, cs, a)
       /\ cs[a].mem_size = size /\ cs[a].next = r
       /\ cs[a].prev = blocks[a].prev
  BY <1>2, <1>3, <1>7 DEF Block, SameUse
<1>11. ASSUME NEW x \in DOMAIN blocks \ {a}
       PROVE  /\ cs[x] \in Block /\ SameUse(blocks, cs, x)
              /\ cs[x].mem_size = blocks[x].mem_size
              /\ cs[x].next = blocks[x].next
              /\ cs[x].prev = IF x = blocks[a].next THEN r ELSE blocks[x].prev
  <2>1. blocks[x] \in Block
    BY <1>2
  <2> QED
    BY <1>3, <1>8, <2>1 DEF Block, SameUse
<1> QED
  BY <1>3, <1>4, <1>5, <1>9, <1>10, <1>11 DEF IsSplit

\* The split leaves the memory tiled.
LEMMA SplitTiles ==
  ASSUME NEW total \in Nat, Tiles(blocks, total),
         NEW a \in DOMAIN blocks, NEW size \in Nat \ {0},
         blocks[a].mem_size > size
  PROVE  Tiles(Split(a, size), total)
<1> DEFINE r == a + size
           n == blocks[a].next
           cs == Split(a, size)
<1>1. /\ DOMAIN cs = DOMAIN blocks \cup {r}
      /\ r \in Nat /\ r \notin DOMAIN blocks /\ r > a
      /\ \A x \in DOMAIN cs : cs[x] \in Block
      /\ cs[a].mem_size = size /\ cs[a].next = r
      /\ cs[a].prev = blocks[a].prev
      /\ cs[r].mem_size = blocks[a].mem_size - size
      /\ cs[r].next = n /\ cs[r].prev = a
      /\ \A x \in DOMAIN blocks \ {a} :
           /\ cs[x].mem_size = blocks[x].mem_size
           /\ cs[x].next = blocks[x].next
           /\ cs[x].prev = IF x = n THEN r ELSE blocks[x].prev
  <2>1. IsSplit(cs, a, size, r)
    BY SplitFields
  <2> QED
    BY <2>1 DEF IsSplit
<1> HIDE DEF cs
<1>2. \A x \in DOMAIN blocks :
        Linked(blocks, total, x) /\ blocks[x].mem_size \in Nat /\ x \in Nat
  BY Neighbours DEF Tiles
<1>3. /\ a \in Nat /\ blocks[a].mem_size \in Nat
      /\ a + blocks[a].mem_size <= total
  BY Neighbours
<1>4. DOMAIN cs \subseteq Nat /\ 0 \in DOMAIN cs
  BY <1>1, <1>2 DEF Tiles
<1>5. cs[0].prev = Null
  <2>1. 0 \in DOMAIN blocks /\ blocks[0].prev = Null
    BY DEF Tiles
  <2>2. n # 0
    BY <1>3, Neighbours DEF Null
  <2> QED
    BY <1>1, <2>1, <2>2
<1>6. Linked(cs, total, a)
  <2>1. r < total
    BY <1>3
  <2>2. a > 0 => cs[a].prev \in DOMAIN cs /\ cs[cs[a].prev].next = a
    <3>1. a > 0 => blocks[a].prev \in DOMAIN blocks /\ blocks[blocks[a].prev].next = a
      BY <1>2 DEF Linked
    <3>2. blocks[a].next # a
      BY <1>3, Neighbours DEF Null
    <3> QED
      BY <1>1, <3>1, <3>2
  <2>3. ASSUME NEW y \in DOMAIN cs, a < y
        PROVE  r <= y
    <3>1. y \in DOMAIN blocks => a + blocks[a].mem_size <= y
      BY <1>2, <2>3 DEF Linked
    <3> QED
      BY <1>1, <1>2, <1>3, <3>1
  <2> QED
    BY <1>1, <2>1, <2>2, <2>3 DEF Linked
<1>7. Linked(cs, total, r)
  <2> DEFINE end == r + cs[r].mem_size
  <2>1. end = a + blocks[a].mem_size /\ cs[r].mem_size > 0
    BY <1>1, <1>3
  <2>2. end <= total /\ (end = total => cs[r].next = Null)
    BY <1>1, <1>2, <2>1 DEF Linked
  <2>3. end < total => cs[r].next = end /\ end \in DOMAIN cs /\ cs[end].prev = r
    <3>1. end < total => n = end /\ end \in DOMAIN blocks
      BY <1>2, <2>1 DEF Linked
    <3>2. end # a
      BY <2>1, <1>1, <1>3
    <3> QED
      BY <1>1, <3>1, <3>2
  <2>4. ASSUME NEW y \in DOMAIN cs, r < y
        PROVE  end <= y
    <3>1. y \in DOMAIN blocks /\ a < y
      BY <1>1, <1>2, <1>3, <2>4
    <3> QED
      BY <1>2, <2>1, <3>1 DEF Linked
  <2>5. cs[r].prev \in DOMAIN cs /\ cs[cs[r].prev].next = r
    BY <1>1
  <2> QED
    BY <2>1, <2>2, <2>3, <2>4, <2>5 DEF Linked
<1>8. ASSUME NEW x \in DOMAIN cs, x # a, x # r
      PROVE  Linked(cs, total, x)
  <2> DEFINE end == x + cs[x].mem_size
  <2>1. /\ x \in DOMAIN blocks /\ x \in Nat
        /\ cs[x].mem_size = blocks[x].mem_size /\ cs[x].next = blocks[x].next
        /\ cs[x].prev = IF x = n THEN r ELSE blocks[x].prev
    BY <1>1, <1>2, <1>8
  <2>2. Linked(blocks, total, x) /\ blocks[x].mem_size \in Nat
    BY <1>2, <2>1
  <2>3. cs[x].mem_size > 0 /\ end <= total /\ (end = total => cs[x].next = Null)
    BY <2>1, <2>2 DEF Linked
  <2>4. end < total => cs[x].next = end /\ end \in DOMAIN cs /\ cs[end].prev = x
    <3> SUFFICES ASSUME end < total
                 PROVE  cs[x].next = end /\ end \in DOMAIN cs /\ cs[end].prev = x
      OBVIOUS
    <3>1. blocks[x].next = end /\ end \in DOMAIN blocks /\ blocks[end].prev = x
      BY <2>1, <2>2 DEF Linked
    <3>2. end # n
      <4> SUFFICES ASSUME end = n
                   PROVE  FALSE
        OBVIOUS
      <4>1. n # Null
        BY <3>1, <1>2 DEF Null
      <4>2. blocks[n].prev = a
        BY <4>1, Neighbours
      <4> QED
        BY <4>2, <3>1, <1>8
    <3>3. cs[end].prev = x
      BY <1>1, <3>1, <3>2
    <3> QED
      BY <1>1, <2>1, <3>1, <3>3
  <2>5. x > 0 => cs[x].prev \in DOMAIN cs /\ cs[cs[x].prev].next = x
    <3> SUFFICES ASSUME x > 0
                 PROVE  cs[x].prev \in DOMAIN cs /\ cs[cs[x].prev].next = x
      OBVIOUS
    <3>1. CASE x = n
      BY <3>1, <1>1, <2>1
    <3>2. CASE x # n
      <4>1. blocks[x].prev \in DOMAIN blocks /\ blocks[blocks[x].prev].next = x
        BY <2>2 DEF Linked
      <4>2. blocks[x].prev # a
        BY <4>1, <3>2
      <4> QED
        BY <4>1, <4>2, <3>2, <2>1, <1>1
    <3> QED
      BY <3>1, <3>2
  <2>6. ASSUME NEW y \in DOMAIN cs, x < y
        PROVE  end <= y
    <3>1. CASE y \in DOMAIN blocks
      BY <2>1, <2>2, <2>6, <3>1 DEF Linked
    <3>2. CASE y = r
      <4>1. x < a
        <5>1. a < x => a + blocks[a].mem_size <= x
          BY <1>2, <2>1 DEF Linked
        <5> QED
          BY <5>1, <1>8, <1>3, <2>1, <2>6, <3>2
      <4>2. end <= a
        BY <2>1, <2>2, <4>1 DEF Linked
      <4> QED
        BY <4>2, <3>2, <1>3, <2>1, <2>2
    <3> QED
      BY <3>1, <3>2, <1>1
  <2> QED
    BY <2>3, <2>4, <2>5, <2>6 DEF Linked
<1>9. Tiles(cs, total)
  BY <1>1, <1>4, <1>5, <1>6, <1>7, <1>8 DEF Tiles
<1> QED
  BY <1>9 DEF cs

-----------------------------------------------------------------------------
(* The inductive invariant                                                 *)

\* Id 0 marks a free block, so it is never given out.
IInv ==
  /\ TypeOK
  /\ Tiled
  /\ IdMapExact
  /\ NoAdjacentFree
  /\ next_Id > 0

LEMMA InvTiles ==
  ASSUME IInv
  PROVE  /\ Tiles(blocks, total_size) /\ total_size \in Nat
         /\ \A x \in DOMAIN blocks : ~FreePair(blocks, x)
         /\ head = IF DOMAIN blocks = {} THEN Null ELSE 0
<1>1. /\ DOMAIN blocks \subseteq Nat /\ total_size \in Nat
      /\ \A x \in DOMAIN blocks : blocks[x] \in Block
  BY DEF IInv, TypeOK
<1>2. head = IF DOMAIN blocks = {} THEN Null ELSE 0
  BY DEF IInv, Tiled
<1>3. DOMAIN blocks # {} => 0 \in DOMAIN blocks /\ blocks[0].prev = Null
  BY DEF IInv, Tiled
<1>4. ASSUME NEW x \in DOMAIN blocks
      PROVE  Linked(blocks, total_size, x)
  BY DEF IInv, Tiled, Linked
<1>5. \A x \in DOMAIN blocks : ~FreePair(blocks, x)
  BY DEF IInv, NoAdjacentFree, FreePair
<1> QED
  BY <1>1, <1>2, <1>3, <1>4, <1>5 DEF Tiles

\* And back, after a step.
LEMMA TilesInv ==
  ASSUME Tiles(blocks, total_size)', total_size' \in Nat,
         (\A x \in DOMAIN blocks : ~FreePair(blocks, x))',
         head' = IF DOMAIN blocks' = {} THEN Null ELSE 0
  PROVE  /\ Tiled' /\ NoAdjacentFree'
         /\ (DOMAIN blocks)' \subseteq Nat
         /\ \A x \in DOMAIN blocks' : blocks'[x] \in Block
         /\ head' \in Nat \cup {Null}
<1>1. ASSUME NEW x \in DOMAIN blocks'
      PROVE  Linked(blocks, total_size, x)'
  BY DEF Tiles
<1>2. head' = Null <=> DOMAIN blocks' = {}
  BY DEF Null
<1>3. head' # Null => head' = 0 /\ 0 \in DOMAIN blocks' /\ blocks'[0].prev = Null
  BY DEF Tiles
<1>4. Tiled'
  BY <1>1, <1>2, <1>3 DEF Tiled, Linked
<1>5. NoAdjacentFree'
  BY DEF NoAdjacentFree, FreePair
<1> QED
  BY <1>4, <1>5 DEF Tiles

\* What allocate() does to the list: block a, which was free, is in use under
\* the new id and is exactly as large as was asked; every other block is as it
\* was, and a block that is new is free.
LEMMA AllocateBlocks ==
  ASSUME IInv, NEW size \in Requests, NEW algo \in Algos, Allocate(size, algo)
  PROVE  \E a \in DOMAIN blocks :
           /\ blocks[a].is_free
           /\ DOMAIN blocks \subseteq DOMAIN blocks'
           /\ Tiles(blocks', total_size)
           /\ \A x \in DOMAIN blocks' : ~FreePair(blocks', x)
           /\ ~blocks'[a].is_free /\ blocks'[a].Id = next_Id
           /\ blocks'[a].mem_size = size /\ blocks'[a].req_size = size
           /\ \A x \in DOMAIN blocks \ {a} :
                /\ SameUse(blocks, blocks', x)
                /\ blocks'[x].mem_size = blocks[x].mem_size
           /\ \A x \in DOMAIN blocks' \ DOMAIN blocks :
                Unused(blocks', x)
           /\ id_map' = [i \in DOMAIN id_map \cup {next_Id} |->
                           IF i = next_Id THEN a ELSE id_map[i]]
<1>1. PICK a \in DOMAIN blocks :
        /\ Chosen(a, size, algo)
        /\ blocks' = [Split(a, size) EXCEPT
                        ![a] = [@ EXCEPT !.is_free = FALSE, !.Id = next_Id,
                                         !.req_size = size]]
        /\ id_map' = [i \in DOMAIN id_map \cup {next_Id} |->
                        IF i = next_Id THEN a ELSE id_map[i]]
  BY DEF Allocate
<1> DEFINE cs == Split(a, size)
           r == a + size
<1>2. blocks[a].is_free /\ blocks[a].mem_size >= size
  BY <1>1 DEF Chosen, Fits
<1>3. /\ Tiles(blocks, total_size) /\ total_size \in Nat
      /\ size \in Nat \ {0} /\ next_Id \in Nat
      /\ \A x \in DOMAIN blocks : ~FreePair(blocks, x)
  BY InvTiles, LinearAssumption DEF IInv, TypeOK
<1>4. /\ DOMAIN blocks \subseteq DOMAIN cs
      /\ Tiles(cs, total_size)
      /\ cs[a].mem_size = size
      /\ \A x \in DOMAIN blocks : SameUse(blocks, cs, x)
      /\ \A x \in DOMAIN blocks \ {a} :
           cs[x].mem_size = blocks[x].mem_size
      /\ \A x \in DOMAIN cs \ DOMAIN blocks :
           Unused(cs, x)
      /\ \A x \in DOMAIN cs : FreePair(cs, x) => x = a
  <2>1. CASE blocks[a].mem_size > size
    <3>1. IsSplit(cs, a, size, r) /\ Tiles(cs, total_size)
      BY <1>3, <2>1, SplitFields, SplitTiles
    <3> HIDE DEF r, cs
    <3>2. /\ DOMAIN cs = DOMAIN blocks \cup {r}
          /\ r \notin DOMAIN blocks
          /\ cs[a].mem_size = size /\ cs[a].next = r
          /\ cs[r].next = blocks[a].next
          /\ Unused(cs, r)
          /\ \A x \in DOMAIN blocks : SameUse(blocks, cs, x)
          /\ \A x \in DOMAIN blocks \ {a} :
               /\ cs[x].mem_size = blocks[x].mem_size
               /\ cs[x].next = blocks[x].next
      BY <3>1 DEF IsSplit
    <3>3. ASSUME NEW x \in DOMAIN cs, FreePair(cs, x), x # a
          PROVE  FALSE
      <4>1. cs[x].is_free /\ cs[x].next # Null /\ cs[cs[x].next].is_free
        BY <3>3 DEF FreePair
      <4>2. CASE x = r
        <5>1. blocks[a].next # Null /\ blocks[a].next \in DOMAIN blocks
          BY <4>1, <4>2, <3>2, <1>3, Neighbours
        <5>2. FreePair(blocks, a)
          BY <5>1, <4>1, <4>2, <3>2, <1>2 DEF FreePair, SameUse
        <5> QED
          BY <5>2, <1>3
      <4>3. CASE x # r
        <5>1. x \in DOMAIN blocks /\ cs[x].next = blocks[x].next
          BY <3>2, <3>3, <4>3
        <5>2. blocks[x].next \in DOMAIN blocks
          BY <5>1, <4>1, <1>3, Neighbours
        <5>3. FreePair(blocks, x)
          BY <5>1, <5>2, <4>1, <3>2 DEF FreePair, SameUse
        <5> QED
          BY <5>1, <5>3, <1>3
      <4> QED
        BY <4>2, <4>3
    <3> QED
      BY <3>1, <3>2, <3>3
  <2>2. CASE ~(blocks[a].mem_size > size)
    <3>1. cs = blocks
      BY <2>2 DEF Split
    <3>2. blocks[a].mem_size = size
      BY <1>2, <1>3, <2>2, Neighbours
    <3> QED
      BY <3>1, <3>2, <1>3 DEF SameUse
  <2> QED
    BY <2>1, <2>2
<1>5. blocks' = [cs EXCEPT ![a] = [@ EXCEPT !.is_free = FALSE, !.Id = next_Id,
                                            !.req_size = size]]
  BY <1>1
<1> HIDE DEF cs
<1>6. /\ DOMAIN blocks' = DOMAIN cs
      /\ blocks'[a] = [cs[a] EXCEPT !.is_free = FALSE, !.Id = next_Id,
                                    !.req_size = size]
      /\ \A x \in DOMAIN cs \ {a} : blocks'[x] = cs[x]
  BY <1>4, <1>5
<1>7. \A x \in DOMAIN cs : cs[x] \in Block
  BY <1>4 DEF Tiles
<1>8. /\ blocks'[a] \in Block
      /\ ~blocks'[a].is_free /\ blocks'[a].Id = next_Id
      /\ blocks'[a].req_size = size
      /\ blocks'[a].mem_size = cs[a].mem_size
      /\ blocks'[a].next = cs[a].next
      /\ blocks'[a].prev = cs[a].prev
  <2>1. cs[a] \in Block
    BY <1>4, <1>7
  <2> QED
    BY <2>1, <1>3, <1>6 DEF Block
<1>9. Tiles(blocks', total_size)
  <2>1. \A x \in DOMAIN cs : /\ blocks'[x] \in Block
                             /\ blocks'[x].mem_size = cs[x].mem_size
                             /\ blocks'[x].next = cs[x].next
                             /\ blocks'[x].prev = cs[x].prev
    BY <1>6, <1>7, <1>8
  <2> QED
    BY <2>1, <1>3, <1>4, <1>6, RelabelTiles
<1>10. ASSUME NEW x \in DOMAIN blocks', FreePair(blocks', x)
       PROVE  FALSE
  <2>1. /\ blocks'[x].is_free /\ blocks'[x].next # Null
        /\ blocks'[blocks'[x].next].is_free
    BY <1>10 DEF FreePair
  <2>2. x # a /\ blocks'[x].next # a
    BY <1>8, <2>1
  <2>3. blocks'[x].next \in DOMAIN cs
    BY <1>3, <1>6, <1>9, <2>1, Neighbours
  <2>4. FreePair(cs, x)
    BY <1>6, <2>1, <2>2, <2>3 DEF FreePair
  <2> QED
    BY <1>4, <1>6, <2>2, <2>4
<1>11. /\ \A x \in DOMAIN blocks \ {a} :
            /\ SameUse(blocks, blocks', x)
            /\ blocks'[x].mem_size = blocks[x].mem_size
       /\ \A x \in DOMAIN blocks' \ DOMAIN blocks :
            Unused(blocks', x)
  BY <1>4, <1>6 DEF SameUse, Unused
<1> QED
  BY <1>1, <1>2, <1>4, <1>6, <1>8, <1>9, <1>10, <1>11

\* What deallocate() does to the list: blocks disappear or grow only if they
\* are free, the one that was freed among them, and no other use changes.
LEMMA DeallocateBlocks ==
  ASSUME IInv, NEW id, Deallocate(id)
  PROVE  LET a == id_map[id] IN
         /\ id \in DOMAIN id_map /\ a \in DOMAIN blocks
         /\ ~blocks[a].is_free /\ blocks[a].Id = id
         /\ DOMAIN blocks' \subseteq DOMAIN blocks /\ DOMAIN blocks' # {}
         /\ Tiles(blocks', total_size)
         /\ \A x \in DOMAIN blocks' : ~FreePair(blocks', x)
         /\ a \in DOMAIN blocks' => Unused(blocks', a)
         /\ \A x \in DOMAIN blocks' \ {a} : SameUse(blocks, blocks', x)
         /\ \A x \in DOMAIN blocks \ {a} : ~blocks[x].is_free =>
              /\ x \in DOMAIN blocks'
              /\ blocks'[x].mem_size = blocks[x].mem_size
<1> DEFINE a == id_map[id]
           bs == [blocks EXCEPT
                   ![a] = [@ EXCEPT !.is_free = TRUE, !.Id = 0, !.req_size = 0]]
<1>1. /\ id \in DOMAIN id_map /\ a \in DOMAIN blocks
      /\ ~blocks[a].is_free /\ blocks[a].Id = id
  BY DEF Deallocate, IInv, IdMapExact
<1>2. /\ Tiles(blocks, total_size) /\ total_size \in Nat
      /\ \A x \in DOMAIN blocks : blocks[x] \in Block
      /\ \A x \in DOMAIN blocks : ~FreePair(blocks, x)
  BY InvTiles DEF Tiles
<1>3. blocks' = Coalesced(bs, a)
  BY DEF Deallocate
<1>4. /\ DOMAIN bs = DOMAIN blocks
      /\ bs[a] = [blocks[a] EXCEPT !.is_free = TRUE, !.Id = 0, !.req_size = 0]
      /\ \A x \in DOMAIN blocks \ {a} : bs[x] = blocks[x]
  BY <1>1
<1> HIDE DEF a, bs
<1>5. /\ bs[a] \in Block /\ Unused(bs, a)
      /\ bs[a].mem_size = blocks[a].mem_size
      /\ bs[a].next = blocks[a].next
      /\ bs[a].prev = blocks[a].prev
  <2>1. blocks[a] \in Block
    BY <1>1, <1>2
  <2>2. Unused(bs, a)
    BY <2>1, <1>4 DEF Block, Unused
  <2>3. /\ bs[a].mem_size = blocks[a].mem_size
        /\ bs[a].next = blocks[a].next /\ bs[a].prev = blocks[a].prev
    BY <2>1, <1>4 DEF Block
  <2>4. bs[a] \in Block
    <3>1. bs[a] = [mem_size |-> blocks[a].mem_size, req_size |-> 0,
                   is_free |-> TRUE, Id |-> 0,
                   next |-> blocks[a].next, prev |-> blocks[a].prev]
      BY <2>1, <1>4 DEF Block
    <3> QED
      BY <2>1, <3>1, BlockFields DEF Block
  <2> QED
    BY <2>2, <2>3, <2>4
<1>6. Tiles(bs, total_size)
  <2>1. \A x \in DOMAIN blocks : /\ bs[x] \in Block
                                 /\ bs[x].mem_size = blocks[x].mem_size
                                 /\ bs[x].next = blocks[x].next
                                 /\ bs[x].prev = blocks[x].prev
    BY <1>2, <1>4, <1>5
  <2> QED
    BY <2>1, <1>2, <1>4, RelabelTiles
<1>7. ASSUME NEW x \in DOMAIN bs, FreePair(bs, x), x # a, bs[x].next # a
      PROVE  FALSE
  <2>1. bs[x].is_free /\ bs[x].next # Null /\ bs[bs[x].next].is_free
    BY <1>7 DEF FreePair
  <2>2. bs[x].next \in DOMAIN blocks
    BY <1>2, <1>4, <1>6, <2>1, Neighbours
  <2>3. FreePair(blocks, x)
    BY <1>4, <1>7, <2>1, <2>2 DEF FreePair
  <2> QED
    BY <1>2, <1>4, <2>3
<1>8. /\ Tiles(blocks', total_size)
      /\ DOMAIN blocks' \subseteq DOMAIN bs /\ DOMAIN blocks' # {}
      /\ \A x \in DOMAIN blocks' : SameUse(bs, blocks', x) /\ ~FreePair(blocks', x)
      /\ \A x \in DOMAIN bs : ~bs[x].is_free =>
           x \in DOMAIN blocks' /\ blocks'[x].mem_size = bs[x].mem_size
  <2>1. a \in DOMAIN bs /\ bs[a].is_free
    BY <1>1, <1>4, <1>5 DEF Unused
  <2> QED
    BY <2>1, <1>2, <1>3, <1>6, <1>7, CoalescedTiles
<1>9. /\ a \in DOMAIN blocks' => Unused(blocks', a)
      /\ \A x \in DOMAIN blocks' \ {a} : SameUse(blocks, blocks', x)
      /\ \A x \in DOMAIN blocks \ {a} : ~blocks[x].is_free =>
           /\ x \in DOMAIN blocks'
           /\ blocks'[x].mem_size = blocks[x].mem_size
  BY <1>4, <1>5, <1>8 DEF SameUse, Unused
<1> QED
  BY <1>1, <1>4, <1>8, <1>9 DEF a

LEMMA InitMemoryInv ==
  ASSUME IInv, NEW size \in MemSizes, InitMemory(size)
  PROVE  IInv'
<1>1. size \in Nat
  BY LinearAssumption
<1>2. CASE size = 0
  BY <1>2 DEF InitMemory, IInv, TypeOK, Tiled, IdMapExact, NoAdjacentFree, Nothing
<1>3. CASE size # 0
  <2>1. /\ DOMAIN blocks' = {0} /\ blocks'[0] = FreeBlock(size, Null, Null)
        /\ head' = 0 /\ total_size' = size /\ next_Id' = 1
        /\ total_alloc_attempts' = 0 /\ successful_allocations' = 0
        /\ id_map' = Nothing /\ DOMAIN id_map' = {}
    BY <1>3 DEF InitMemory, Nothing
  <2>2. /\ blocks'[0] \in Block /\ Unused(blocks', 0)
        /\ blocks'[0].mem_size = size
        /\ blocks'[0].next = Null /\ blocks'[0].prev = Null
    BY <1>1, <2>1 DEF FreeBlock, Block, Unused
  <2>3. Linked(blocks, total_size, 0)'
    BY <1>1, <1>3, <2>1, <2>2 DEF Linked
  <2>4. Tiles(blocks, total_size)'
    BY <2>1, <2>2, <2>3 DEF Tiles
  <2>5. (\A x \in DOMAIN blocks : ~FreePair(blocks, x))'
    BY <2>1, <2>2 DEF FreePair
  <2>6. /\ Tiled' /\ NoAdjacentFree'
        /\ (DOMAIN blocks)' \subseteq Nat
        /\ \A x \in DOMAIN blocks' : blocks'[x] \in Block
        /\ head' \in Nat \cup {Null}
    BY <1>1, <2>1, <2>4, <2>5, TilesInv
  <2>7. TypeOK'
    BY <1>1, <2>1, <2>6 DEF TypeOK
  <2>8. IdMapExact'
    BY <2>1, <2>2 DEF IdMapExact, Unused
  <2> QED
    BY <2>1, <2>6, <2>7, <2>8 DEF IInv
<1> QED
  BY <1>2, <1>3

LEMMA AllocateInv ==
  ASSUME IInv, NEW size \in Requests, NEW algo \in Algos, Allocate(size, algo)
  PROVE  IInv'
<1>1. PICK a \in DOMAIN blocks :
        /\ blocks[a].is_free
        /\ DOMAIN blocks \subseteq DOMAIN blocks'
        /\ Tiles(blocks', total_size)
        /\ \A x \in DOMAIN blocks' : ~FreePair(blocks', x)
        /\ ~blocks'[a].is_free /\ blocks'[a].Id = next_Id
        /\ blocks'[a].mem_size = size /\ blocks'[a].req_size = size
        /\ \A x \in DOMAIN blocks \ {a} :
             /\ SameUse(blocks, blocks', x)
             /\ blocks'[x].mem_size = blocks[x].mem_size
        /\ \A x \in DOMAIN blocks' \ DOMAIN blocks : Unused(blocks', x)
        /\ id_map' = [i \in DOMAIN id_map \cup {next_Id} |->
                        IF i = next_Id THEN a ELSE id_map[i]]
  BY AllocateBlocks
<1>2. /\ next_Id' = next_Id + 1
      /\ total_alloc_attempts' = total_alloc_attempts + 1
      /\ successful_allocations' = successful_allocations + 1
      /\ head' = head /\ total_size' = total_size
  BY DEF Allocate
<1>3. /\ next_Id \in Nat \ {0} /\ total_size \in Nat
      /\ total_alloc_attempts \in Nat /\ successful_allocations \in Nat
      /\ DOMAIN id_map \subseteq Nat \ {0}
      /\ \A i \in DOMAIN id_map : id_map[i] \in DOMAIN blocks
  BY DEF IInv, TypeOK
<1>4. /\ Tiled' /\ NoAdjacentFree'
      /\ (DOMAIN blocks)' \subseteq Nat
      /\ \A x \in DOMAIN blocks' : blocks'[x] \in Block
      /\ head' \in Nat \cup {Null}
  <2>1. head' = IF DOMAIN blocks' = {} THEN Null ELSE 0
    BY <1>1, <1>2, InvTiles
  <2>2. Tiles(blocks, total_size)'
    BY <1>1, <1>2
  <2>3. total_size' \in Nat
    BY <1>2, <1>3
  <2>4. (\A x \in DOMAIN blocks : ~FreePair(blocks, x))'
    BY <1>1
  <2> QED
    BY <2>1, <2>2, <2>3, <2>4, TilesInv
<1>5. /\ DOMAIN id_map' = DOMAIN id_map \cup {next_Id}
      /\ id_map'[next_Id] = a
      /\ \A i \in DOMAIN id_map : i # next_Id => id_map'[i] = id_map[i]
  BY <1>1
<1>6. TypeOK'
  <2>1. DOMAIN id_map' \subseteq Nat \ {0}
    BY <1>3, <1>5
  <2>2. \A i \in DOMAIN id_map' : id_map'[i] \in DOMAIN blocks'
    BY <1>1, <1>3, <1>5
  <2>3. {next_Id, total_size, total_alloc_attempts, successful_allocations}'
           \subseteq Nat
    BY <1>2, <1>3
  <2> QED
    BY <1>4, <2>1, <2>2, <2>3 DEF TypeOK
<1>7. IdMapExact'
  <2>1. ASSUME NEW i \in DOMAIN id_map'
        PROVE  /\ id_map'[i] \in DOMAIN blocks'
               /\ ~blocks'[id_map'[i]].is_free
               /\ blocks'[id_map'[i]].Id = i
               /\ i < next_Id'
    <3>1. CASE i = next_Id
      BY <1>1, <1>2, <1>3, <1>5, <3>1
    <3>2. CASE i # next_Id
      <4>1. /\ i \in DOMAIN id_map /\ id_map'[i] = id_map[i]
            /\ id_map[i] \in DOMAIN blocks
            /\ ~blocks[id_map[i]].is_free /\ blocks[id_map[i]].Id = i
            /\ i < next_Id
        BY <1>5, <3>2 DEF IInv, IdMapExact
      <4>2. id_map[i] # a
        BY <1>1, <4>1
      <4> QED
        BY <1>1, <1>2, <1>3, <4>1, <4>2 DEF SameUse
    <3> QED
      BY <3>1, <3>2
  <2>2. ASSUME NEW x \in DOMAIN blocks'
        PROVE  IF blocks'[x].is_free
               THEN blocks'[x].Id = 0 /\ blocks'[x].req_size = 0
               ELSE /\ blocks'[x].Id \in DOMAIN id_map'
                    /\ id_map'[blocks'[x].Id] = x
                    /\ blocks'[x].req_size = blocks'[x].mem_size
    <3>1. CASE x = a
      BY <1>1, <1>5, <3>1
    <3>2. CASE x \in DOMAIN blocks \ {a}
      <4>1. IF blocks[x].is_free
            THEN blocks[x].Id = 0 /\ blocks[x].req_size = 0
            ELSE /\ blocks[x].Id \in DOMAIN id_map
                 /\ id_map[blocks[x].Id] = x
                 /\ blocks[x].req_size = blocks[x].mem_size
        BY <3>2 DEF IInv, IdMapExact
      <4>2. next_Id \notin DOMAIN id_map
        BY <1>3 DEF IInv, IdMapExact
      <4> QED
        BY <1>1, <1>5, <3>2, <4>1, <4>2 DEF SameUse
    <3>3. CASE x \notin DOMAIN blocks
      BY <1>1, <3>3 DEF Unused
    <3> QED
      BY <3>1, <3>2, <3>3
  <2> QED
    BY <2>1, <2>2 DEF IdMapExact
<1> QED
  BY <1>2, <1>3, <1>4, <1>6, <1>7 DEF IInv

LEMMA DeallocateInv ==
  ASSUME IInv, NEW id, Deallocate(id)
  PROVE  IInv'
<1> DEFINE a == id_map[id]
<1>1. /\ id \in DOMAIN id_map /\ a \in DOMAIN blocks
      /\ ~blocks[a].is_free /\ blocks[a].Id = id
      /\ DOMAIN blocks' \subseteq DOMAIN blocks /\ DOMAIN blocks' # {}
      /\ Tiles(blocks', total_size)
      /\ \A x \in DOMAIN blocks' : ~FreePair(blocks', x)
      /\ a \in DOMAIN blocks' => Unused(blocks', a)
      /\ \A x \in DOMAIN blocks' \ {a} : SameUse(blocks, blocks', x)
      /\ \A x \in DOMAIN blocks \ {a} : ~blocks[x].is_free =>
           /\ x \in DOMAIN blocks'
           /\ blocks'[x].mem_size = blocks[x].mem_size
  BY DeallocateBlocks
<1>2. /\ id_map' = [i \in DOMAIN id_map \ {id} |-> id_map[i]]
      /\ UNCHANGED <<head, next_Id, total_size, total_alloc_attempts,
                     successful_allocations>>
  BY DEF Deallocate
<1>3. /\ {next_Id, total_size, total_alloc_attempts, successful_allocations}
           \subseteq Nat
      /\ next_Id > 0
      /\ DOMAIN id_map \subseteq Nat \ {0}
      /\ \A i \in DOMAIN id_map : id_map[i] \in DOMAIN blocks
  BY DEF IInv, TypeOK
<1>4. /\ Tiled' /\ NoAdjacentFree'
      /\ (DOMAIN blocks)' \subseteq Nat
      /\ \A x \in DOMAIN blocks' : blocks'[x] \in Block
      /\ head' \in Nat \cup {Null}
  <2>1. head' = IF DOMAIN blocks' = {} THEN Null ELSE 0
    <3>1. DOMAIN blocks # {} /\ DOMAIN blocks' # {}
      BY <1>1
    <3> QED
      BY <3>1, <1>2, InvTiles
  <2>2. Tiles(blocks, total_size)'
    BY <1>1, <1>2
  <2>3. total_size' \in Nat
    BY <1>2, <1>3
  <2>4. (\A x \in DOMAIN blocks : ~FreePair(blocks, x))'
    BY <1>1
  <2> QED
    BY <2>1, <2>2, <2>3, <2>4, TilesInv
<1>5. /\ DOMAIN id_map' = DOMAIN id_map \ {id}
      /\ \A i \in DOMAIN id_map \ {id} : id_map'[i] = id_map[i]
  BY <1>2
<1>6. ASSUME NEW i \in DOMAIN id_map'
      PROVE  /\ id_map'[i] = id_map[i]
             /\ id_map[i] \in DOMAIN blocks' \ {a}
             /\ ~blocks'[id_map[i]].is_free
             /\ blocks'[id_map[i]].Id = i
             /\ i < next_Id
  <2>1. /\ i \in DOMAIN id_map /\ i # id
        /\ id_map[i] \in DOMAIN blocks
        /\ ~blocks[id_map[i]].is_free /\ blocks[id_map[i]].Id = i
        /\ i < next_Id
    BY <1>5 DEF IInv, IdMapExact
  <2>2. id_map[i] # a
    BY <1>1, <2>1
  <2> QED
    BY <1>1, <1>5, <2>1, <2>2 DEF SameUse
<1>7. TypeOK'
  <2>1. DOMAIN id_map' \subseteq Nat \ {0}
    BY <1>3, <1>5
  <2>2. \A i \in DOMAIN id_map' : id_map'[i] \in DOMAIN blocks'
    BY <1>6
  <2>3. {next_Id, total_size, total_alloc_attempts, successful_allocations}'
           \subseteq Nat
    BY <1>2, <1>3
  <2> QED
    BY <1>4, <2>1, <2>2, <2>3 DEF TypeOK
<1>8. IdMapExact'
  <2>1. ASSUME NEW x \in DOMAIN blocks'
        PROVE  IF blocks'[x].is_free
               THEN blocks'[x].Id = 0 /\ blocks'[x].req_size = 0
               ELSE /\ blocks'[x].Id \in DOMAIN id_map'
                    /\ id_map'[blocks'[x].Id] = x
                    /\ blocks'[x].req_size = blocks'[x].mem_size
    <3>1. CASE x = a
      BY <1>1, <3>1 DEF Unused
    <3>2. CASE x # a
      <4>1. IF blocks[x].is_free
            THEN blocks[x].Id = 0 /\ blocks[x].req_size = 0
            ELSE /\ blocks[x].Id \in DOMAIN id_map
                 /\ id_map[blocks[x].Id] = x
                 /\ blocks[x].req_size = blocks[x].mem_size
        BY <1>1 DEF IInv, IdMapExact
      <4>2. SameUse(blocks, blocks', x)
        BY <1>1, <3>2
      <4> QED
        BY <1>1, <1>5, <3>2, <4>1, <4>2 DEF SameUse
    <3> QED
      BY <3>1, <3>2
  <2> QED
    BY <1>2, <1>6, <2>1 DEF IdMapExact
<1> QED
  BY <1>2, <1>3, <1>4, <1>7, <1>8 DEF IInv

LEMMA Invariant == Spec => []IInv
<1>1. Init => IInv
  BY DEF Init, IInv, TypeOK, Tiled, IdMapExact, NoAdjacentFree, Nothing, Null
<1>2. IInv /\ [Next]_vars => IInv'
  <2> SUFFICES ASSUME IInv, [Next]_vars
               PROVE  IInv'
    OBVIOUS
  <2>1. ASSUME NEW size \in Requests, AllocateFails(size)
        PROVE  IInv'
    BY <2>1 DEF AllocateFails, IInv, TypeOK, Tiled, IdMapExact, NoAdjacentFree
  <2>2. CASE UNCHANGED vars
    BY <2>2 DEF vars, IInv, TypeOK, Tiled, IdMapExact, NoAdjacentFree
  <2> QED
    BY <2>1, <2>2, InitMemoryInv, AllocateInv, DeallocateInv DEF Next
<1> QED
  BY <1>1, <1>2, PTL DEF Spec

-----------------------------------------------------------------------------
(* Theorems                                                                *)

\* Every variable keeps its type, whatever init, allocate and deallocate do.
THEOREM TypeCorrect == Spec => []TypeOK
<1>1. IInv => TypeOK
  BY DEF IInv
<1> QED
  BY <1>1, Invariant, PTL

\* allocate's split and deallocate's two merges keep the list a tiling of the
\* memory that can be walked in both directions: no byte is lost, none is in
\* two blocks.
THEOREM MemoryTiled == Spec => []Tiled
<1>1. IInv => Tiled
  BY DEF IInv
<1> QED
  BY <1>1, Invariant, PTL

\* id_map_ leads from the live ids to the blocks in use, and to each of them.
THEOREM IdsExact == Spec => []IdMapExact
<1>1. IInv => IdMapExact
  BY DEF IInv
<1> QED
  BY <1>1, Invariant, PTL

\* deallocate() never leaves two free blocks side by side.
THEOREM NoFreeNeighbours == Spec => []NoAdjacentFree
<1>1. IInv => NoAdjacentFree
  BY DEF IInv
<1> QED
  BY <1>1, Invariant, PTL

-----------------------------------------------------------------------------
(* The linear allocator implements AllocatorSpec                           *)

\* The live blocks of the promise.
Live == [i \in DOMAIN id_map |->
           [addr |-> id_map[i], size |-> blocks[id_map[i]].mem_size]]

LEMMA InitMemoryResets ==
  ASSUME IInv, NEW size \in MemSizes, InitMemory(size)
  PROVE  Promise!Reset
<1>1. size \in Nat /\ total_size \in Nat
  BY LinearAssumption DEF IInv, TypeOK
<1>2. DOMAIN id_map' = {}
  BY DEF InitMemory, Nothing
<1>3. Live' = [i \in {} |-> 0]
  BY <1>2 DEF Live
<1>4. (1 .. next_Id - 1)' \in { {}, 1 .. next_Id - 1 }
  BY DEF InitMemory
<1>5. total_size' \in Nat
  BY <1>1 DEF InitMemory
<1> QED
  BY <1>3, <1>4, <1>5 DEF Promise!Reset, Live

LEMMA AllocateKeepsPromise ==
  ASSUME IInv, NEW size \in Requests, NEW algo \in Algos, Allocate(size, algo)
  PROVE  Promise!Allocate
<1>1. PICK a \in DOMAIN blocks :
        /\ blocks[a].is_free
        /\ DOMAIN blocks \subseteq DOMAIN blocks'
        /\ Tiles(blocks', total_size)
        /\ blocks'[a].mem_size = size
        /\ \A x \in DOMAIN blocks \ {a} : blocks'[x].mem_size = blocks[x].mem_size
        /\ id_map' = [i \in DOMAIN id_map \cup {next_Id} |->
                        IF i = next_Id THEN a ELSE id_map[i]]
  BY AllocateBlocks
<1>2. next_Id' = next_Id + 1 /\ total_size' = total_size
  BY DEF Allocate
<1>3. /\ next_Id \in Nat \ {0} /\ total_size \in Nat
      /\ size \in Nat \ {0}
      /\ Tiles(blocks, total_size)
  BY InvTiles, LinearAssumption DEF IInv, TypeOK
<1>4. \A i \in DOMAIN id_map : /\ id_map[i] \in DOMAIN blocks \ {a}
                               /\ i < next_Id /\ i \in Nat
  BY <1>1 DEF IInv, IdMapExact, TypeOK
<1> DEFINE b == [addr |-> a, size |-> size]
<1>5. DOMAIN id_map' = DOMAIN id_map \cup {next_Id} /\ next_Id \notin DOMAIN id_map
  BY <1>1, <1>3, <1>4
<1>6. /\ DOMAIN Live' = DOMAIN id_map \cup {next_Id}
      /\ Live'[next_Id] = b
  BY <1>1, <1>5 DEF Live
<1>7. ASSUME NEW i \in DOMAIN id_map
      PROVE  Live'[i] = Live[i]
  <2>1. id_map'[i] = id_map[i] /\ i \in DOMAIN id_map'
    BY <1>1, <1>5
  <2>2. blocks'[id_map[i]].mem_size = blocks[id_map[i]].mem_size
    BY <1>1, <1>4
  <2> QED
    BY <2>1, <2>2 DEF Live
<1>8. Live' = [i \in DOMAIN Live \cup {next_Id} |-> IF i = next_Id THEN b ELSE Live[i]]
  <2>1. Live' = [i \in DOMAIN Live' |-> Live'[i]]
    BY DEF Live
  <2>2. DOMAIN Live = DOMAIN id_map
    BY DEF Live
  <2> QED
    BY <1>5, <1>6, <1>7, <2>1, <2>2
<1>9. (1 .. next_Id - 1)' = (1 .. next_Id - 1) \cup {next_Id}
  BY <1>2, <1>3
<1>10. a + size <= total_size
  <2>1. a \in DOMAIN blocks'
    BY <1>1
  <2> QED
    BY <1>1, <1>3, <2>1, Neighbours
<1>11. ASSUME NEW i \in DOMAIN id_map
       PROVE  \/ id_map[i] + blocks[id_map[i]].mem_size <= a
              \/ a + size <= id_map[i]
  <2> DEFINE x == id_map[i]
  <2>1. x \in DOMAIN blocks' /\ x \in DOMAIN blocks /\ x # a /\ a \in DOMAIN blocks'
    BY <1>1, <1>4
  <2>2. /\ blocks'[x].mem_size = blocks[x].mem_size
        /\ x < a => x + blocks'[x].mem_size <= a
        /\ a < x => a + blocks'[a].mem_size <= x
    BY <1>1, <2>1 DEF Tiles, Linked
  <2>3. x \in Nat /\ a \in Nat
    BY <1>3, <2>1 DEF Tiles
  <2> QED
    BY <1>1, <2>1, <2>2, <2>3
<1>12. next_Id \in (DOMAIN Live)' \ (1 .. next_Id - 1)
  BY <1>3, <1>6
<1>13. \A i \in DOMAIN Live : Promise!Apart(Live[i], b)
  BY <1>11 DEF Live, Promise!Apart
<1> HIDE DEF b
<1>14. b.size > 0 /\ b.addr + b.size <= total_size
  BY <1>3, <1>10 DEF b
<1>15. \E id \in (DOMAIN Live)' \ (1 .. next_Id - 1) :
         /\ (1 .. next_Id - 1)' = (1 .. next_Id - 1) \cup {id}
         /\ Live' = [i \in DOMAIN Live \cup {id} |->
                      IF i = id THEN Live'[id] ELSE Live[i]]
         /\ Live'[id].size > 0
         /\ Live'[id].addr + Live'[id].size <= total_size
         /\ \A i \in DOMAIN Live : Promise!Apart(Live[i], Live'[id])
  <2>1. WITNESS next_Id \in (DOMAIN Live)' \ (1 .. next_Id - 1)
  <2> QED
    BY <1>6, <1>8, <1>9, <1>12, <1>13, <1>14
<1> QED
  BY <1>2, <1>15 DEF Promise!Allocate, Live

LEMMA DeallocateKeepsPromise ==
  ASSUME IInv, NEW id \in DOMAIN id_map, Deallocate(id)
  PROVE  Promise!Free
<1> DEFINE a == id_map[id]
<1>1. /\ blocks[a].Id = id
      /\ \A x \in DOMAIN blocks \ {a} : ~blocks[x].is_free =>
           /\ x \in DOMAIN blocks'
           /\ blocks'[x].mem_size = blocks[x].mem_size
  BY DeallocateBlocks
<1>2. /\ id_map' = [i \in DOMAIN id_map \ {id} |-> id_map[i]]
      /\ next_Id' = next_Id /\ total_size' = total_size
  BY DEF Deallocate
<1>3. ASSUME NEW i \in DOMAIN id_map \ {id}
      PROVE  Live'[i] = Live[i]
  <2>1. /\ id_map[i] \in DOMAIN blocks
        /\ ~blocks[id_map[i]].is_free /\ blocks[id_map[i]].Id = i
    BY DEF IInv, IdMapExact
  <2>2. id_map[i] # a
    BY <1>1, <2>1
  <2> QED
    BY <1>1, <1>2, <2>1, <2>2 DEF Live
<1>4. Live' = [i \in DOMAIN Live \ {id} |-> Live[i]]
  <2>1. Live' = [i \in DOMAIN Live' |-> Live'[i]]
    BY DEF Live
  <2>2. DOMAIN Live = DOMAIN id_map /\ DOMAIN Live' = DOMAIN id_map \ {id}
    BY <1>2 DEF Live
  <2> QED
    BY <1>3, <2>1, <2>2
<1>5. id \in DOMAIN Live
  BY DEF Live
<1> QED
  BY <1>2, <1>4, <1>5 DEF Promise!Free, Live

\* The new id's block has the size that was asked for, split off or taken whole.
LEMMA AllocateGivesEnough ==
  ASSUME IInv, NEW size \in Requests, NEW algo \in Algos, Allocate(size, algo)
  PROVE  \E i \in DOMAIN id_map' \ DOMAIN id_map :
           blocks'[id_map'[i]].mem_size >= size
<1>1. PICK a \in DOMAIN blocks :
        /\ blocks'[a].mem_size = size
        /\ id_map' = [i \in DOMAIN id_map \cup {next_Id} |->
                        IF i = next_Id THEN a ELSE id_map[i]]
  BY AllocateBlocks
<1>2. next_Id \notin DOMAIN id_map /\ size \in Nat
  <2>1. next_Id \in Nat /\ \A i \in DOMAIN id_map : i < next_Id
    BY DEF IInv, IdMapExact, TypeOK
  <2> QED
    BY <2>1, LinearAssumption
<1> QED
  BY <1>1, <1>2

\* The linear allocator does what Allocator.h promises: every allocation gives
\* out an id that is new and as many bytes as were asked for, which no live
\* block has, a deallocation takes back its own block and no other, and a
\* failed request changes nothing.
THEOREM ImplementsPromise == Spec => KeepsPromise
<1> DEFINE Enough ==
             \A size \in Requests, algo \in Algos : Allocate(size, algo) =>
               \E i \in DOMAIN id_map' \ DOMAIN id_map :
                 blocks'[id_map'[i]].mem_size >= size
<1>1. Init => Promise!Init
  BY DEF Init, Promise!Init, Nothing
<1>2. IInv /\ [Next]_vars => [Promise!Next]_Promise!vars
  <2> SUFFICES ASSUME IInv, [Next]_vars
               PROVE  [Promise!Next]_Promise!vars
    OBVIOUS
  <2>1. ASSUME NEW size \in MemSizes, InitMemory(size)
        PROVE  Promise!Next
    BY <2>1, InitMemoryResets DEF Promise!Next
  <2>2. ASSUME NEW size \in Requests, NEW algo \in Algos, Allocate(size, algo)
        PROVE  Promise!Next
    BY <2>2, AllocateKeepsPromise DEF Promise!Next
  <2>3. ASSUME NEW size \in Requests, AllocateFails(size)
        PROVE  UNCHANGED Promise!vars
    BY <2>3 DEF AllocateFails, Promise!vars
  <2>4. ASSUME NEW id \in DOMAIN id_map, Deallocate(id)
        PROVE  Promise!Next
    BY <2>4, DeallocateKeepsPromise DEF Promise!Next
  <2>5. CASE UNCHANGED vars
    BY <2>5 DEF vars, Promise!vars
  <2> QED
    BY <2>1, <2>2, <2>3, <2>4, <2>5 DEF Next
<1>3. IInv => [Enough]_vars
  BY AllocateGivesEnough
<1> QED
  BY <1>1, <1>2, <1>3, Invariant, PTL
     DEF Spec, KeepsPromise, LargeEnough, Promise!Spec
=============================================================================
