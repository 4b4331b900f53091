-------------------------- MODULE BuddyAllocatorProofs --------------------------
(***************************************************************************)
(* What holds of BuddyAllocator for every size of the memory, of a page    *)
(* and of the requests.                                                    *)
(***************************************************************************)
EXTENDS BuddyAllocator, Lemmas

-----------------------------------------------------------------------------
(* Blocks of 2^k pages at multiples of 2^k.                                *)

Aligned(a, k) == a \in Nat /\ \E m \in Nat : a = m * 2 ^ k

\* A smaller power of two divides a greater one.
LEMMA PowDivides ==
  ASSUME NEW j \in Nat, NEW k \in Nat, j <= k
  PROVE  \E c \in Nat \ {0} : 2 ^ k = c * 2 ^ j
<1> DEFINE S == {d \in Nat : \E c \in Nat \ {0} : 2 ^ (j + d) = c * 2 ^ j}
<1>1. 0 \in S
  <2>1. j + 0 = j /\ 2 ^ j = 1 * 2 ^ j /\ 1 \in Nat \ {0}
    BY PowPositive
  <2> QED
    BY <2>1
<1>2. ASSUME NEW d \in Nat, d \in S PROVE d + 1 \in S
  <2>1. PICK c \in Nat \ {0} : 2 ^ (j + d) = c * 2 ^ j
    BY <1>2
  <2> DEFINE e == j + d
             p == 2 ^ j
  <2>2. e \in Nat /\ j + (d + 1) = e + 1 /\ p \in Nat
    BY PowPositive
  <2>3. 2 ^ (e + 1) = 2 ^ e + 2 ^ e
    BY <2>2, PowDoubles
  <2>4. 2 ^ (j + (d + 1)) = c * p + c * p
    BY <2>1, <2>2, <2>3
  <2> HIDE DEF p
  <2>5. c * p + c * p = (c + c) * p /\ c + c \in Nat \ {0}
    BY <2>2
  <2>6. \E b \in Nat \ {0} : 2 ^ (j + (d + 1)) = b * p
    BY <2>4, <2>5
  <2>7. d + 1 \in Nat
    OBVIOUS
  <2> QED
    BY <2>6, <2>7 DEF p
<1> HIDE DEF S
<1>3. Nat \subseteq S
  BY <1>1, <1>2, Induct
<1>4. k - j \in S /\ j + (k - j) = k
  BY <1>3
<1> QED
  BY <1>4 DEF S

LEMMA AlignedCoarser ==
  ASSUME NEW a, NEW j \in Nat, NEW k \in Nat, j <= k, Aligned(a, k)
  PROVE  Aligned(a, j)
<1> DEFINE p == 2 ^ j
<1>1. PICK m \in Nat : a = m * 2 ^ k
  BY DEF Aligned
<1>2. PICK c \in Nat \ {0} : 2 ^ k = c * p
  BY PowDivides
<1>3. p \in Nat
  BY PowPositive
<1> HIDE DEF p
<1>4. m * (c * p) = (m * c) * p /\ m * c \in Nat
  BY <1>3
<1>5. a = (m * c) * p
  BY <1>1, <1>2, <1>4
<1> QED
  BY <1>4, <1>5 DEF Aligned, p

\* Two aligned addresses of one order are equal or a block apart.
LEMMA AlignedApart ==
  ASSUME NEW k \in Nat, NEW a, NEW b, Aligned(a, k), Aligned(b, k), a < b
  PROVE  a + 2 ^ k <= b
<1> DEFINE p == 2 ^ k
<1>1. PICK m \in Nat : a = m * p
  BY DEF Aligned
<1>2. PICK n \in Nat : b = n * p
  BY DEF Aligned
<1>3. p \in Nat \ {0}
  BY PowPositive
<1> HIDE DEF p
<1>4. m < n
  <2> SUFFICES ASSUME n <= m PROVE FALSE
    OBVIOUS
  <2>1. PICK d \in Nat : m = n + d
    <3>1. m - n \in Nat /\ m = n + (m - n)
      OBVIOUS
    <3> QED
      BY <3>1
  <2>2. m * p = n * p + d * p /\ d * p \in Nat /\ n * p \in Nat
    BY <1>3, <2>1
  <2> QED
    BY <1>1, <1>2, <2>2
<1>5. PICK d \in Nat : n = m + 1 + d
  <2>1. n - m - 1 \in Nat /\ n = m + 1 + (n - m - 1)
    BY <1>4
  <2> QED
    BY <2>1
<1>6. n * p = m * p + p + d * p /\ d * p \in Nat /\ m * p \in Nat
  BY <1>3, <1>5
<1>7. a + p <= b
  BY <1>1, <1>2, <1>3, <1>6
<1> QED
  BY <1>7 DEF p

\* A block that begins in a memory of 2^n pages ends in it.
LEMMA AlignedFits ==
  ASSUME NEW k \in Nat, NEW n \in Nat, k <= n, NEW a, Aligned(a, k), a < 2 ^ n
  PROVE  a + 2 ^ k <= 2 ^ n
<1>1. Aligned(2 ^ n, k)
  BY PowDivides, PowPositive DEF Aligned
<1> QED
  BY <1>1, AlignedApart

\* The two halves of a block are each other's buddies.
LEMMA Halves ==
  ASSUME NEW k \in Nat, NEW a, Aligned(a, k + 1)
  PROVE  /\ Aligned(a, k) /\ Aligned(a + 2 ^ k, k)
         /\ Buddy(a, k) = a + 2 ^ k /\ Buddy(a + 2 ^ k, k) = a
<1> DEFINE p == 2 ^ k
<1>1. p \in Nat \ {0} /\ 2 ^ (k + 1) = p + p
  BY PowPositive, PowDoubles
<1>2. PICK m \in Nat : a = m * (p + p)
  BY <1>1 DEF Aligned
<1> HIDE DEF p
<1>3. /\ a = (2 * m) * p /\ a + p = (2 * m + 1) * p
      /\ 2 * m \in Nat /\ 2 * m + 1 \in Nat /\ a \in Nat
  BY <1>1, <1>2
<1>4. a \div p = 2 * m /\ (a + p) \div p = 2 * m + 1
  <2>1. 0 \in 0 .. p - 1
    BY <1>1
  <2>2. ((2 * m) * p + 0) \div p = 2 * m
    BY <1>1, <1>3, <2>1, Division
  <2>3. ((2 * m + 1) * p + 0) \div p = 2 * m + 1
    BY <1>1, <1>3, <2>1, Division
  <2>4. (2 * m) * p + 0 = a /\ (2 * m + 1) * p + 0 = a + p
    BY <1>1, <1>3
  <2> QED
    BY <2>2, <2>3, <2>4
<1>5. (2 * m) % 2 = 0 /\ (2 * m + 1) % 2 = 1
  OBVIOUS
<1>6. Aligned(a, k) /\ Aligned(a + p, k)
  <2>1. /\ \E x \in Nat : a = x * p
        /\ \E x \in Nat : a + p = x * p
        /\ a \in Nat /\ a + p \in Nat
    BY <1>1, <1>3
  <2> QED
    BY <2>1 DEF Aligned, p
<1>7. Buddy(a, k) = a + p
  BY <1>4, <1>5 DEF Buddy, p
<1>8. Buddy(a + p, k) = (a + p) - p
  BY <1>4, <1>5 DEF Buddy, p
<1>9. (a + p) - p = a
  BY <1>1, <1>3
<1> QED
  BY <1>6, <1>7, <1>8, <1>9 DEF p

\* Every block is a lower or an upper half.
LEMMA HalfOf ==
  ASSUME NEW k \in Nat, NEW a, Aligned(a, k)
  PROVE  \E c : Aligned(c, k + 1) /\ (a = c \/ a = c + 2 ^ k)
<1> DEFINE p == 2 ^ k
<1>1. p \in Nat \ {0} /\ 2 ^ (k + 1) = p + p
  BY PowPositive, PowDoubles
<1>2. PICK m \in Nat : a = m * p
  BY DEF Aligned
<1> HIDE DEF p
<1>3. PICK n \in Nat : m = n + n \/ m = n + n + 1
  <2>1. m \div 2 \in Nat /\ (m = 2 * (m \div 2) \/ m = 2 * (m \div 2) + 1)
    OBVIOUS
  <2> QED
    BY <2>1
<1> DEFINE c == n * (p + p)
<1>4. c \in Nat /\ (a = c \/ a = c + p)
  BY <1>1, <1>2, <1>3
<1>5. Aligned(c, k + 1)
  BY <1>1, <1>4 DEF Aligned
<1> QED
  BY <1>4, <1>5 DEF p

LEMMA BuddyBack ==
  ASSUME NEW k \in Nat, NEW a, Aligned(a, k)
  PROVE  /\ Aligned(Buddy(a, k), k) /\ Buddy(a, k) # a
         /\ Buddy(Buddy(a, k), k) = a
<1>1. PICK c : Aligned(c, k + 1) /\ (a = c \/ a = c + 2 ^ k)
  BY HalfOf
<1>2. /\ Aligned(c, k) /\ Aligned(c + 2 ^ k, k)
      /\ Buddy(c, k) = c + 2 ^ k /\ Buddy(c + 2 ^ k, k) = c
  BY <1>1, Halves
<1>3. c # c + 2 ^ k
  <2>1. 2 ^ k \in Nat \ {0} /\ c \in Nat
    BY <1>2, PowPositive DEF Aligned
  <2> HIDE <1>1
  <2> QED
    BY <2>1
<1> QED
  BY <1>1, <1>2, <1>3

LEMMA BuddyFits ==
  ASSUME NEW k \in Nat, NEW n \in Nat, k < n, NEW a, Aligned(a, k), a < 2 ^ n
  PROVE  Buddy(a, k) \in 0 .. 2 ^ n - 1
<1> DEFINE p == 2 ^ k
           top == 2 ^ n
<1>1. PICK c : Aligned(c, k + 1) /\ (a = c \/ a = c + p)
  BY HalfOf
<1>2. p \in Nat \ {0} /\ 2 ^ (k + 1) = p + p /\ c \in Nat /\ top \in Nat
  BY <1>1, PowPositive, PowDoubles DEF Aligned
<1>3. Buddy(c, k) = c + p /\ Buddy(c + p, k) = c
  BY <1>1, Halves
<1>4. c < top
  BY <1>1, <1>2
<1>5. c + 2 ^ (k + 1) <= top
  <2>1. k + 1 \in Nat /\ k + 1 <= n
    OBVIOUS
  <2> QED
    BY <1>1, <1>4, <2>1, AlignedFits
<1> HIDE DEF p, top
<1>6. c \in 0 .. top - 1 /\ c + p \in 0 .. top - 1
  BY <1>2, <1>4, <1>5
<1> QED
  BY <1>1, <1>3, <1>6 DEF top

\* Where the block of order k that a page is in begins.
LEMMA BaseOf ==
  ASSUME NEW k \in Nat, NEW a \in Nat
  PROVE  Aligned(Base(a, k), k) /\ Base(a, k) <= a /\ a < Base(a, k) + 2 ^ k
<1> DEFINE p == 2 ^ k
           d == a \div p
           r == a % p
<1>1. p \in Nat \ {0}
  BY PowPositive
<1> HIDE DEF p
<1>2. d \in Nat /\ r \in 0 .. p - 1 /\ a = d * p + r
  BY <1>1
<1> HIDE DEF d, r
<1>3. d * p \in Nat /\ a - r = d * p
  BY <1>1, <1>2
<1>4. Base(a, k) = a - r
  BY DEF Base, r, p
<1>5. Aligned(Base(a, k), k)
  BY <1>2, <1>3, <1>4 DEF Aligned, p
<1>6. a - r <= a /\ a < (a - r) + p
  BY <1>1, <1>2
<1> QED
  BY <1>4, <1>5, <1>6 DEF p

LEMMA BaseUnique ==
  ASSUME NEW k \in Nat, NEW a \in Nat, NEW b, Aligned(b, k), b <= a, a < b + 2 ^ k
  PROVE  Base(a, k) = b
<1> DEFINE p == 2 ^ k
           r == a - b
<1>1. p \in Nat \ {0} /\ b \in Nat
  BY PowPositive DEF Aligned
<1>2. PICK m \in Nat : b = m * p
  BY DEF Aligned
<1>3. r \in 0 .. p - 1 /\ a = m * p + r
  BY <1>1, <1>2
<1>4. Base(a, k) = a - (a % p)
  BY DEF Base
<1> HIDE DEF p, r
<1>5. a % p = r
  BY <1>1, <1>3, Division
<1>6. a - r = b
  BY <1>1 DEF r
<1> QED
  BY <1>4, <1>5, <1>6

LEMMA SpanMembers ==
  ASSUME NEW a \in Nat, NEW n \in Nat, NEW x \in Nat
  PROVE  x \in Span(a, n) <=> a <= x /\ x < a + n
BY DEF Span

\* The block of order k + 1 that a page is in is the one of order k and its buddy.
LEMMA BaseUp ==
  ASSUME NEW k \in Nat, NEW a \in Nat
  PROVE  /\ Aligned(BuddyAt(a, k), k)
         /\ \/ BuddyAt(a, k) = Base(a, k + 1) + 2 ^ k /\ Base(a, k) = Base(a, k + 1)
            \/ BuddyAt(a, k) = Base(a, k + 1) /\ Base(a, k) = Base(a, k + 1) + 2 ^ k
         /\ \A x \in Nat : x \in Span(Base(a, k + 1), 2 ^ (k + 1)) <=>
              \/ x \in Span(Base(a, k), 2 ^ k)
              \/ x \in Span(BuddyAt(a, k), 2 ^ k)
<1> DEFINE p == 2 ^ k
           c == Base(a, k + 1)
<1>1. /\ p \in Nat \ {0} /\ 2 ^ (k + 1) = p + p
      /\ Aligned(c, k + 1) /\ c <= a /\ a < c + (p + p) /\ c \in Nat
  <2>1. 2 ^ (k + 1) = p + p /\ p \in Nat \ {0} /\ k + 1 \in Nat
    BY PowPositive, PowDoubles
  <2>2. Aligned(c, k + 1) /\ c <= a /\ a < c + 2 ^ (k + 1)
    BY <2>1, BaseOf
  <2> QED
    BY <2>1, <2>2 DEF Aligned
<1> HIDE DEF c
<1>2. /\ Aligned(c, k) /\ Aligned(c + p, k)
      /\ Buddy(c, k) = c + p /\ Buddy(c + p, k) = c
  BY <1>1, Halves
<1>3. \/ Base(a, k) = c /\ BuddyAt(a, k) = c + p
      \/ Base(a, k) = c + p /\ BuddyAt(a, k) = c
  <2>1. CASE a < c + p
    <3>1. Base(a, k) = c
      BY <1>1, <1>2, <2>1, BaseUnique
    <3> QED
      BY <1>2, <3>1 DEF BuddyAt
  <2>2. CASE ~(a < c + p)
    <3>1. c + p <= a /\ a < (c + p) + p
      <4> HIDE DEF p
      <4> QED
        BY <1>1, <2>2
    <3>2. Base(a, k) = c + p
      BY <1>2, <3>1, BaseUnique
    <3> QED
      BY <1>2, <3>2 DEF BuddyAt
  <2> QED
    BY <2>1, <2>2
<1>4. Aligned(BuddyAt(a, k), k)
  BY <1>2, <1>3
<1>5. ASSUME NEW x \in Nat
      PROVE  x \in Span(c, 2 ^ (k + 1)) <=>
               x \in Span(Base(a, k), p) \/ x \in Span(BuddyAt(a, k), p)
  <2>1. /\ x \in Span(c, p + p) <=> c <= x /\ x < c + (p + p)
        /\ x \in Span(c, p) <=> c <= x /\ x < c + p
        /\ x \in Span(c + p, p) <=> c + p <= x /\ x < (c + p) + p
    <3> HIDE DEF p
    <3>1. p + p \in Nat /\ c + p \in Nat /\ p \in Nat
      BY <1>1
    <3> QED
      BY <1>1, <3>1, SpanMembers
  <2>2. x \in Span(c, p + p) <=> x \in Span(c, p) \/ x \in Span(c + p, p)
    <3> HIDE DEF p
    <3> QED
      BY <1>1, <2>1
  <2> QED
    BY <1>1, <1>3, <2>2
<1> QED
  BY <1>3, <1>4, <1>5 DEF c

\* A freed block and the buddies it is merged with make up the merged block.
LEMMA MergedSpan ==
  ASSUME NEW order \in Nat, NEW a, Aligned(a, order), NEW top \in Nat, order <= top,
         NEW x \in Nat
  PROVE  x \in Span(Base(a, top), 2 ^ top) <=>
           \/ x \in Span(a, 2 ^ order)
           \/ \E k \in order .. top - 1 : x \in Span(BuddyAt(a, k), 2 ^ k)
<1> DEFINE Made(t) == \/ x \in Span(a, 2 ^ order)
                      \/ \E k \in order .. t - 1 : x \in Span(BuddyAt(a, k), 2 ^ k)
           S == {d \in Nat : x \in Span(Base(a, order + d), 2 ^ (order + d))
                               <=> Made(order + d)}
<1>0. a \in Nat
  BY DEF Aligned
<1>1. 0 \in S
  <2>1. Base(a, order) = a
    <3>1. a <= a /\ a < a + 2 ^ order
      BY <1>0, PowPositive
    <3> QED
      BY <1>0, <3>1, BaseUnique
  <2>2. order + 0 = order /\ ~ \E k \in order .. order - 1 : TRUE
    OBVIOUS
  <2> QED
    BY <2>1, <2>2
<1>2. ASSUME NEW d \in Nat, d \in S PROVE d + 1 \in S
  <2> DEFINE t == order + d
  <2>1. t \in Nat /\ order + (d + 1) = t + 1 /\ d + 1 \in Nat
    OBVIOUS
  <2>2. x \in Span(Base(a, t + 1), 2 ^ (t + 1)) <=>
          x \in Span(Base(a, t), 2 ^ t) \/ x \in Span(BuddyAt(a, t), 2 ^ t)
    BY <1>0, <2>1, BaseUp
  <2>3. order .. (t + 1) - 1 = (order .. t - 1) \cup {t}
    OBVIOUS
  <2>4. Made(t + 1) <=> Made(t) \/ x \in Span(BuddyAt(a, t), 2 ^ t)
    <3> HIDE DEF t
    <3> QED
      BY <2>3
  <2>5. x \in Span(Base(a, t), 2 ^ t) <=> Made(t)
    BY <1>2
  <2> HIDE DEF Made
  <2>6. x \in Span(Base(a, t + 1), 2 ^ (t + 1)) <=> Made(t + 1)
    BY <2>2, <2>4, <2>5
  <2> QED
    BY <2>1, <2>6
<1> HIDE DEF S
<1>3. Nat \subseteq S
  BY <1>1, <1>2, Induct
<1>4. top - order \in S /\ order + (top - order) = top
  BY <1>3
<1> QED
  BY <1>4 DEF S

\* What is left of a block that is halved down to an order, and the upper halves,
\* make up the block ...
LEMMA SplitSpan ==
  ASSUME NEW order \in Nat, NEW a \in Nat, NEW from \in Nat, order <= from,
         NEW x \in Nat
  PROVE  x \in Span(a, 2 ^ from) <=>
           \/ x \in Span(a, 2 ^ order)
           \/ \E k \in order .. from - 1 : x \in Span(a + 2 ^ k, 2 ^ k)
<1> DEFINE Made(t) == \/ x \in Span(a, 2 ^ order)
                      \/ \E k \in order .. t - 1 : x \in Span(a + 2 ^ k, 2 ^ k)
           S == {d \in Nat : x \in Span(a, 2 ^ (order + d)) <=> Made(order + d)}
<1>1. 0 \in S
  <2>1. order + 0 = order /\ ~ \E k \in order .. order - 1 : TRUE
    OBVIOUS
  <2> QED
    BY <2>1
<1>2. ASSUME NEW d \in Nat, d \in S PROVE d + 1 \in S
  <2> DEFINE t == order + d
             p == 2 ^ t
  <2>1. t \in Nat /\ order + (d + 1) = t + 1 /\ d + 1 \in Nat
    OBVIOUS
  <2>2. x \in Span(a, 2 ^ (t + 1)) <=> x \in Span(a, p) \/ x \in Span(a + p, p)
    <3>1. 2 ^ (t + 1) = p + p /\ p \in Nat
      BY <2>1, PowPositive, PowDoubles
    <3> HIDE DEF p
    <3>2. /\ x \in Span(a, p + p) <=> a <= x /\ x < a + (p + p)
          /\ x \in Span(a, p) <=> a <= x /\ x < a + p
          /\ x \in Span(a + p, p) <=> a + p <= x /\ x < (a + p) + p
      <4>1. p + p \in Nat /\ a + p \in Nat
        BY <3>1
      <4> QED
        BY <3>1, <4>1, SpanMembers
    <3>3. x \in Span(a, p + p) <=> x \in Span(a, p) \/ x \in Span(a + p, p)
      BY <3>1, <3>2
    <3> QED
      BY <3>1, <3>3
  <2>3. order .. (t + 1) - 1 = (order .. t - 1) \cup {t}
    OBVIOUS
  <2>4. Made(t + 1) <=> Made(t) \/ x \in Span(a + p, p)
    <3> HIDE DEF t
    <3> QED
      BY <2>3
  <2>5. x \in Span(a, p) <=> Made(t)
    BY <1>2
  <2> HIDE DEF Made
  <2>6. x \in Span(a, 2 ^ (t + 1)) <=> Made(t + 1)
    BY <2>2, <2>4, <2>5
  <2> QED
    BY <2>1, <2>6
<1> HIDE DEF S
<1>3. Nat \subseteq S
  BY <1>1, <1>2, Induct
<1>4. from - order \in S /\ order + (from - order) = from
  BY <1>3
<1> QED
  BY <1>4 DEF S

\* ... and lie one behind the other.
LEMMA SplitApart ==
  ASSUME NEW a \in Nat, NEW j \in Nat, NEW k \in Nat, j < k
  PROVE  /\ (a + 2 ^ j) + 2 ^ j <= a + 2 ^ k
         /\ a + 2 ^ j # a + 2 ^ k /\ 2 ^ j # 2 ^ k
<1>1. 2 ^ (j + 1) <= 2 ^ k
  BY PowMonotone
<1>2. 2 ^ (j + 1) = 2 ^ j + 2 ^ j /\ 2 ^ j \in Nat \ {0} /\ 2 ^ k \in Nat
  BY PowPositive, PowDoubles
<1> DEFINE p == 2 ^ j
           q == 2 ^ k
<1>3. p \in Nat \ {0} /\ q \in Nat /\ p + p <= q
  BY <1>1, <1>2
<1> HIDE DEF p, q
<1>4. (a + p) + p <= a + q /\ a + p # a + q /\ p # q
  BY <1>3
<1> QED
  BY <1>4 DEF p, q

-----------------------------------------------------------------------------
(* Orders and rounded sizes.                                               *)

LEMMA PowInjective ==
  ASSUME NEW j \in Nat, NEW k \in Nat, 2 ^ j = 2 ^ k
  PROVE  j = k
<1>1. ~ (j < k)
  <2> SUFFICES ASSUME j < k PROVE FALSE
    OBVIOUS
  <2>1. 0 \in Nat
    OBVIOUS
  <2> QED
    BY <2>1, SplitApart
<1>2. ~ (k < j)
  <2> SUFFICES ASSUME k < j PROVE FALSE
    OBVIOUS
  <2>1. 0 \in Nat
    OBVIOUS
  <2> QED
    BY <2>1, SplitApart
<1> QED
  BY <1>1, <1>2

LEMMA PowLess ==
  ASSUME NEW j \in Nat, NEW k \in Nat
  PROVE  2 ^ j < 2 ^ k <=> j < k
<1>1. 2 ^ j \in Nat /\ 2 ^ k \in Nat
  BY PowPositive
<1>2. j < k => 2 ^ j < 2 ^ k
  <2> SUFFICES ASSUME j < k PROVE 2 ^ j < 2 ^ k
    OBVIOUS
  <2>1. 2 ^ j <= 2 ^ k
    BY PowMonotone
  <2>2. 2 ^ j # 2 ^ k
    BY PowInjective
  <2> QED
    BY <1>1, <2>1, <2>2
<1>3. k <= j => 2 ^ k <= 2 ^ j
  BY PowMonotone
<1> QED
  BY <1>1, <1>2, <1>3

LEMMA OrderOfPow ==
  ASSUME NEW k \in 0 .. MaxOrder
  PROVE  OrderOf(2 ^ k) = k
<1>1. MaxOrder \in Nat
  BY BuddyAssumption
<1>2. \A j \in 0 .. MaxOrder : 2 ^ j = 2 ^ k => j = k
  BY <1>1, PowInjective
<1> QED
  BY <1>2 DEF OrderOf

\* So many pages hold the bytes.
LEMMA PagesEnough ==
  ASSUME NEW bytes \in Nat, NEW p \in Nat \ {0}
  PROVE  /\ (bytes + p - 1) \div p \in Nat
         /\ bytes <= p * ((bytes + p - 1) \div p)
<1> DEFINE x == bytes + p - 1
           d == x \div p
<1>1. x \in Nat /\ x = bytes + p - 1
  OBVIOUS
<1> HIDE DEF x
<1>2. d \in Nat /\ p * d \in Nat /\ x = p * d + (x % p) /\ x % p \in 0 .. p - 1
  BY <1>1
<1> HIDE DEF d
<1>3. bytes <= p * d
  BY <1>1, <1>2
<1> QED
  BY <1>2, <1>3 DEF d, x

\* A size is rounded up to a power of two that has room for it, and no further
\* than to the bound.
LEMMA RoundedIs ==
  ASSUME NEW bytes \in MemSizes \cup Requests
  PROVE  /\ \E r \in 0 .. MaxOrder : Rounded(bytes) = 2 ^ r
         /\ bytes <= PageSize * Rounded(bytes)
<1> DEFINE pages == (bytes + PageSize - 1) \div PageSize
           most == 2 ^ MaxOrder
           S == {r \in 0 .. MaxOrder : pages <= 2 ^ r}
<1>1. /\ bytes \in Nat /\ PageSize \in Nat \ {0} /\ MaxOrder \in Nat
      /\ bytes <= PageSize * most /\ most \in Nat
  BY BuddyAssumption, PowPositive
<1>2. pages \in Nat /\ pages <= most
  <2> HIDE DEF most
  <2> DEFINE x == bytes + PageSize - 1
             d == x \div PageSize
  <2>1. x \in Nat /\ x < PageSize * most + PageSize
    <3>1. PageSize * most \in Nat
      BY <1>1
    <3> QED
      BY <1>1, <3>1
  <2> HIDE DEF x
  <2>2. d \in Nat /\ PageSize * d <= x
    BY <1>1, <2>1
  <2> HIDE DEF d
  <2>3. d <= most
    <3> SUFFICES ASSUME most + 1 <= d PROVE FALSE
      BY <1>1, <2>2
    <3>1. PICK e \in Nat : d = most + 1 + e
      <4>1. d - most - 1 \in Nat /\ d = most + 1 + (d - most - 1)
        BY <1>1, <2>2
      <4> QED
        BY <4>1
    <3>2. /\ PageSize * d = PageSize * most + PageSize + PageSize * e
          /\ PageSize * e \in Nat /\ PageSize * most \in Nat
      BY <1>1, <3>1
    <3> QED
      BY <1>1, <2>1, <2>2, <3>2
  <2> QED
    BY <2>2, <2>3 DEF d, x
<1>3. PICK r \in S : \A k \in S : r <= k
  <2>1. MaxOrder \in S /\ S \in SUBSET Nat
    BY <1>1, <1>2
  <2> HIDE DEF S
  <2> QED
    BY <2>1, LeastNat
<1> HIDE DEF pages
<1>4. \A k \in 0 .. MaxOrder : pages <= 2 ^ k => 2 ^ r <= 2 ^ k
  BY <1>1, <1>3, PowMonotone
<1>5. Rounded(bytes) = CHOOSE p \in {2 ^ k : k \in 0 .. MaxOrder} :
                         /\ pages <= p
                         /\ \A k \in 0 .. MaxOrder : pages <= 2 ^ k => p <= 2 ^ k
  BY DEF Rounded, pages
<1>6. \E p \in {2 ^ k : k \in 0 .. MaxOrder} :
         /\ pages <= p
         /\ \A k \in 0 .. MaxOrder : pages <= 2 ^ k => p <= 2 ^ k
  BY <1>3, <1>4
<1>7. Rounded(bytes) \in {2 ^ k : k \in 0 .. MaxOrder} /\ pages <= Rounded(bytes)
  BY <1>5, <1>6
<1>8. bytes <= PageSize * Rounded(bytes)
  <2> DEFINE n == Rounded(bytes)
  <2>1. n \in Nat
    BY <1>1, <1>7, PowPositive
  <2>2. pages \in Nat /\ pages <= n
    BY <1>2, <1>7
  <2>3. bytes <= PageSize * pages
    BY <1>1, PagesEnough DEF pages
  <2> HIDE DEF n
  <2>4. PICK e \in Nat : n = pages + e
    <3>1. n - pages \in Nat /\ n = pages + (n - pages)
      BY <2>1, <2>2
    <3> QED
      BY <3>1
  <2>5. PageSize * n = PageSize * pages + PageSize * e /\ PageSize * e \in Nat
        /\ PageSize * pages \in Nat
    BY <1>1, <2>2, <2>4
  <2>6. bytes <= PageSize * n
    BY <1>1, <2>3, <2>5
  <2> QED
    BY <2>6 DEF n
<1> QED
  BY <1>7, <1>8

-----------------------------------------------------------------------------
(* The inductive invariant.  That each page is in one block is kept as a   *)
(* partition by blocks that have a tag, 0 for free ones and the id for the *)
(* others: splitting and merging replace some of them by blocks that cover *)
(* the same pages.                                                         *)

Block(a, n, id) == [address |-> a, size |-> n, id |-> id]

Blocks ==
  {Block(b, free_map[b], 0) : b \in FreeBlocks} \cup
  {Block(allocated[i].address, allocated[i].size, i) : i \in DOMAIN allocated}

Covers(b, p) == p \in Span(b.address, b.size)

Partition(B, n) ==
  /\ \A p \in 0 .. n - 1 : \E b \in B : Covers(b, p)
  /\ \A p \in 0 .. n - 1 : \A b, c \in B : Covers(b, p) /\ Covers(c, p) => b = c

\* Blocks N may stand for the blocks O.
CanReplace(N, O, n) ==
  /\ \A p \in 0 .. n - 1 : (\E b \in O : Covers(b, p)) <=> (\E b \in N : Covers(b, p))
  /\ \A p \in 0 .. n - 1 : \A b, c \in N : Covers(b, p) /\ Covers(c, p) => b = c

LEMMA Replaced ==
  ASSUME NEW B, NEW n, Partition(B, n), NEW O \in SUBSET B, NEW N, CanReplace(N, O, n)
  PROVE  Partition((B \ O) \cup N, n)
<1> DEFINE C == (B \ O) \cup N
<1>1. ASSUME NEW p \in 0 .. n - 1 PROVE \E b \in C : Covers(b, p)
  <2>1. PICK b \in B : Covers(b, p)
    BY DEF Partition
  <2> QED
    BY <2>1 DEF CanReplace
<1>2. ASSUME NEW p \in 0 .. n - 1, NEW b \in C, NEW c \in C, Covers(b, p), Covers(c, p)
      PROVE  b = c
  <2>1. CASE b \in B \ O /\ c \in B \ O
    BY <1>2, <2>1 DEF Partition
  <2>2. CASE b \in N /\ c \in N
    BY <1>2, <2>2 DEF CanReplace
  <2>3. ASSUME NEW x \in B \ O, NEW y \in N, Covers(x, p), Covers(y, p) PROVE FALSE
    <3>1. PICK o \in O : Covers(o, p)
      BY <2>3 DEF CanReplace
    <3> QED
      BY <2>3, <3>1 DEF Partition
  <2> QED
    BY <1>2, <2>1, <2>2, <2>3
<1> QED
  BY <1>1, <1>2 DEF Partition

\* The free blocks of order k.
OfOrder(k) == {b \in FreeBlocks : free_map[b] = 2 ^ k}

TypesInv ==
  /\ next_id \in Nat \ {0} /\ DOMAIN allocated \subseteq 1 .. next_id - 1
  /\ \/ total_pages = 0 /\ Orders = {} /\ DOMAIN allocated = {}
     \/ \E n \in 0 .. MaxOrder : total_pages = 2 ^ n /\ Orders = 0 .. n
  /\ free_map \in [Pages -> Nat]

BlocksInv ==
  /\ \A b \in FreeBlocks : \E k \in Orders : free_map[b] = 2 ^ k /\ Aligned(b, k)
  /\ \A i \in DOMAIN allocated :
       LET a == allocated[i].address IN
       /\ a \in Pages
       /\ \E k \in Orders : /\ allocated[i] = [address |-> a, size |-> 2 ^ k]
                            /\ Aligned(a, k)

ListsInv == \A k \in Orders : Lists(free_lists[k], OfOrder(k))

BuddiesInv ==
  \A b \in FreeBlocks, k \in Orders :
    free_map[b] = 2 ^ k /\ 2 ^ k < total_pages => free_map[Buddy(b, k)] # 2 ^ k

IInv == TypesInv /\ BlocksInv /\ Partition(Blocks, total_pages) /\ ListsInv /\ BuddiesInv

LEMMA InitInv == Init => IInv
<1> SUFFICES ASSUME Init PROVE IInv
  OBVIOUS
<1>1. /\ total_pages = 0 /\ next_id = 1 /\ Orders = {} /\ DOMAIN allocated = {}
      /\ free_map = Nothing /\ Pages = {} /\ FreeBlocks = {}
  BY DEF Init, Nothing, Orders, Pages, FreeBlocks
<1>2. free_map \in [Pages -> Nat]
  BY <1>1 DEF Nothing
<1>3. Partition(Blocks, total_pages)
  BY <1>1 DEF Partition
<1> QED
  BY <1>1, <1>2, <1>3 DEF IInv, TypesInv, BlocksInv, ListsInv, BuddiesInv

LEMMA InitMemoryInv ==
  ASSUME NEW bytes \in MemSizes, InitMemory(bytes)
  PROVE  IInv'
<1>1. PICK n \in 0 .. MaxOrder : Rounded(bytes) = 2 ^ n
  BY RoundedIs
<1> DEFINE top == 2 ^ n
<1>2. OrderOf(top) = n /\ n \in Nat /\ top \in Nat \ {0}
  BY BuddyAssumption, OrderOfPow, PowPositive
<1>3. /\ total_pages' = top
      /\ free_lists' = [k \in 0 .. n |-> IF k = n THEN <<0>> ELSE <<>>]
      /\ free_map' = [p \in 0 .. top - 1 |-> IF p = 0 THEN top ELSE 0]
      /\ DOMAIN allocated' = {} /\ next_id' = 1
  BY <1>1, <1>2 DEF InitMemory, Nothing
<1>4. /\ Orders' = 0 .. n /\ Pages' = 0 .. top - 1 /\ 0 \in Pages'
      /\ free_map'[0] = top /\ FreeBlocks' = {0}
  <2> HIDE DEF top
  <2>1. 0 \in 0 .. top - 1
    BY <1>2
  <2> QED
    BY <1>2, <1>3, <2>1 DEF Orders, Pages, FreeBlocks
<1>5. TypesInv'
  <2>1. free_map' \in [Pages' -> Nat]
    BY <1>2, <1>3, <1>4
  <2>2. DOMAIN allocated' \subseteq 1 .. next_id' - 1 /\ next_id' \in Nat \ {0}
    BY <1>3
  <2> QED
    BY <1>3, <1>4, <2>1, <2>2 DEF TypesInv
<1>6. BlocksInv'
  <2>1. Aligned(0, n)
    BY <1>2 DEF Aligned
  <2> QED
    BY <1>2, <1>3, <1>4, <2>1 DEF BlocksInv
<1>7. Partition(Blocks, total_pages)'
  <2>1. Blocks' = {Block(0, top, 0)}
    BY <1>3, <1>4 DEF Blocks
  <2>2. \A p \in 0 .. top - 1 : Covers(Block(0, top, 0), p)
    BY <1>2 DEF Covers, Block, Span
  <2> QED
    BY <1>3, <2>1, <2>2 DEF Partition
<1>8. ListsInv'
  <2>1. Lists(<<0>>, {0})
    BY DEF Lists, In, NoRepeats
  <2>2. ASSUME NEW k \in 0 .. n PROVE Lists(free_lists'[k], OfOrder(k)')
    <3>1. CASE k = n
      <4>1. OfOrder(k)' = {0}
        BY <1>4, <3>1 DEF OfOrder
      <4> QED
        BY <1>3, <2>1, <3>1, <4>1
    <3>2. CASE k # n
      <4>1. 2 ^ k # top
        BY <1>2, <3>2, PowInjective
      <4>2. OfOrder(k)' = {}
        BY <1>4, <4>1 DEF OfOrder
      <4> QED
        BY <1>3, <3>2, <4>2, EmptyLists
    <3> QED
      BY <3>1, <3>2
  <2> QED
    BY <1>4, <2>2 DEF ListsInv
<1>9. BuddiesInv'
  BY <1>2, <1>3, <1>4 DEF BuddiesInv
<1> QED
  BY <1>5, <1>6, <1>7, <1>8, <1>9 DEF IInv

-----------------------------------------------------------------------------
(* Allocation.                                                             *)

\* What the steps of allocate() are about: the block it takes, the order it
\* came from, and the order it is wanted in.
Taken(blk, from, order) ==
  /\ order \in Nat /\ from \in Orders /\ order <= from
  /\ blk \in OfOrder(from) /\ Aligned(blk, from)
  /\ \A k \in order .. from - 1 : OfOrder(k) = {}

UpperHalves(blk, from, order) == {blk + 2 ^ k : k \in order .. from - 1}

LEMMA OrdersAre ==
  ASSUME TypesInv, Orders # {}
  PROVE  \E n \in 0 .. MaxOrder :
           /\ n \in Nat /\ total_pages = 2 ^ n /\ Orders = 0 .. n
           /\ 2 ^ n \in Nat \ {0}
BY BuddyAssumption, PowPositive DEF TypesInv

\* The upper halves are in the memory, and no free blocks before.
LEMMA HalvesFresh ==
  ASSUME IInv, NEW blk, NEW from, NEW order, Taken(blk, from, order),
         NEW k \in order .. from - 1
  PROVE  /\ k \in Orders /\ k \in Nat
         /\ blk + 2 ^ k \in Pages /\ blk + 2 ^ k # blk /\ free_map[blk + 2 ^ k] = 0
         /\ Aligned(blk, k) /\ Aligned(blk + 2 ^ k, k) /\ Buddy(blk + 2 ^ k, k) = blk
<1> DEFINE h == blk + 2 ^ k
<1>1. PICK n \in 0 .. MaxOrder :
        /\ n \in Nat /\ total_pages = 2 ^ n /\ Orders = 0 .. n /\ 2 ^ n \in Nat \ {0}
  BY OrdersAre DEF Taken, IInv
<1>2. /\ k \in Nat /\ k < from /\ from \in Nat /\ from <= n /\ order \in Nat /\ k + 1 <= from
      /\ k + 1 \in Nat
  BY <1>1 DEF Taken
<1>3. /\ blk \in Nat /\ blk < 2 ^ n /\ free_map[blk] = 2 ^ from /\ blk \in FreeBlocks
  BY <1>1 DEF Taken, OfOrder, FreeBlocks, Pages
<1>4. Aligned(blk, k + 1)
  BY <1>2, AlignedCoarser DEF Taken
<1>5. Aligned(blk, k) /\ Aligned(h, k) /\ Buddy(h, k) = blk
  BY <1>2, <1>4, Halves
<1>6. h + 2 ^ k <= blk + 2 ^ from /\ 2 ^ k \in Nat \ {0} /\ 2 ^ from \in Nat
  BY <1>2, <1>3, SplitApart, PowPositive
<1>7. blk + 2 ^ from <= 2 ^ n
  BY <1>2, <1>3, AlignedFits, <1>1 DEF Taken
<1>8. h \in Pages /\ h # blk /\ h \in Nat /\ blk <= h /\ h < blk + 2 ^ from
  <2> DEFINE p == 2 ^ k
             q == 2 ^ from
             m == 2 ^ n
  <2>1. /\ p \in Nat \ {0} /\ q \in Nat /\ m \in Nat
        /\ (blk + p) + p <= blk + q /\ blk + q <= m
    BY <1>1, <1>6, <1>7
  <2>2. Pages = 0 .. m - 1
    BY <1>1 DEF Pages
  <2> HIDE DEF p, q, m
  <2>3. /\ blk + p \in 0 .. m - 1 /\ blk + p # blk /\ blk + p \in Nat /\ blk <= blk + p
        /\ blk + p < blk + q
    BY <1>3, <2>1
  <2> QED
    BY <2>2, <2>3 DEF p, q
<1>9. free_map[h] = 0
  <2> SUFFICES ASSUME free_map[h] # 0 PROVE FALSE
    OBVIOUS
  <2>1. h \in FreeBlocks
    BY <1>8 DEF FreeBlocks
  <2>2. free_map[h] \in Nat \ {0}
    BY <1>8 DEF IInv, TypesInv
  <2>3. Covers(Block(h, free_map[h], 0), h)
    BY <1>8, <2>2 DEF Covers, Block, Span
  <2>4. Covers(Block(blk, free_map[blk], 0), h)
    BY <1>3, <1>6, <1>8, SpanMembers DEF Covers, Block
  <2>5. Block(h, free_map[h], 0) = Block(blk, free_map[blk], 0)
    <3>1. Block(h, free_map[h], 0) \in Blocks /\ Block(blk, free_map[blk], 0) \in Blocks
      BY <1>3, <2>1 DEF Blocks
    <3>2. h \in 0 .. total_pages - 1
      BY <1>8 DEF Pages
    <3> QED
      BY <2>3, <2>4, <3>1, <3>2 DEF IInv, Partition
  <2>6. h = blk
    BY <2>5 DEF Block
  <2> QED
    BY <1>8, <2>6
<1> HIDE DEF h
<1> QED
  BY <1>1, <1>2, <1>5, <1>8, <1>9 DEF h

\* The new pieces cover the pages that the block covered, each page once.
LEMMA PiecesCover ==
  ASSUME IInv, NEW blk, NEW from, NEW order, Taken(blk, from, order), NEW id
  PROVE  LET N == {Block(blk, 2 ^ order, id)} \cup
                  {Block(blk + 2 ^ k, 2 ^ k, 0) : k \in order .. from - 1}
         IN  /\ \A p \in Nat : Covers(Block(blk, 2 ^ from, 0), p)
                                 <=> \E b \in N : Covers(b, p)
             /\ \A p \in Nat : \A b, c \in N : Covers(b, p) /\ Covers(c, p) => b = c
<1> DEFINE low == Block(blk, 2 ^ order, id)
           up(k) == Block(blk + 2 ^ k, 2 ^ k, 0)
           N == {low} \cup {up(k) : k \in order .. from - 1}
<1>1. /\ blk \in Nat /\ order \in Nat /\ from \in Nat /\ order <= from
  <2>1. Orders \subseteq Nat
    BY OrdersAre DEF IInv
  <2> QED
    BY <2>1 DEF Taken, Aligned
<1>2. ASSUME NEW p \in Nat
      PROVE  Covers(Block(blk, 2 ^ from, 0), p) <=> \E b \in N : Covers(b, p)
  <2>1. p \in Span(blk, 2 ^ from) <=>
          \/ p \in Span(blk, 2 ^ order)
          \/ \E k \in order .. from - 1 : p \in Span(blk + 2 ^ k, 2 ^ k)
    BY <1>1, SplitSpan
  <2>2. /\ Covers(Block(blk, 2 ^ from, 0), p) <=> p \in Span(blk, 2 ^ from)
        /\ Covers(low, p) <=> p \in Span(blk, 2 ^ order)
        /\ \A k \in order .. from - 1 :
             Covers(up(k), p) <=> p \in Span(blk + 2 ^ k, 2 ^ k)
    BY DEF Covers, Block
  <2> HIDE DEF low, up
  <2> QED
    BY <2>1, <2>2
<1>3. ASSUME NEW p \in Nat, NEW k \in order .. from - 1
      PROVE  /\ Covers(low, p) => p < blk + 2 ^ order
             /\ Covers(up(k), p) => /\ blk + 2 ^ k <= p
                                    /\ p < (blk + 2 ^ k) + 2 ^ k
  <2>1. k \in Nat /\ 2 ^ k \in Nat /\ 2 ^ order \in Nat /\ blk + 2 ^ k \in Nat
    BY <1>1, PowPositive
  <2> QED
    BY <1>1, <2>1, SpanMembers DEF Covers, Block
<1>4. ASSUME NEW p \in Nat, NEW k \in order .. from - 1, Covers(up(k), p)
      PROVE  ~Covers(low, p)
  <2>1. 2 ^ order <= 2 ^ k /\ 2 ^ k \in Nat /\ 2 ^ order \in Nat
    BY <1>1, PowPositive, PowMonotone
  <2> QED
    BY <1>1, <1>3, <1>4, <2>1
<1>5. ASSUME NEW p \in Nat, NEW j \in order .. from - 1, NEW k \in order .. from - 1,
             Covers(up(j), p), Covers(up(k), p), j < k
      PROVE  FALSE
  <2>1. (blk + 2 ^ j) + 2 ^ j <= blk + 2 ^ k /\ 2 ^ j \in Nat /\ 2 ^ k \in Nat
    BY <1>1, <1>5, SplitApart, PowPositive
  <2> QED
    BY <1>1, <1>3, <1>5, <2>1
<1>6. ASSUME NEW p \in Nat, NEW b \in N, NEW c \in N, Covers(b, p), Covers(c, p)
      PROVE  b = c
  <2> HIDE DEF low, up
  <2>1. CASE b = low \/ c = low
    BY <1>4, <1>6, <2>1
  <2>2. CASE b # low /\ c # low
    <3>1. PICK j \in order .. from - 1 : b = up(j)
      BY <2>2
    <3>2. PICK k \in order .. from - 1 : c = up(k)
      BY <2>2
    <3>3. ~(j < k) /\ ~(k < j)
      BY <1>5, <1>6, <3>1, <3>2
    <3>4. j = k
      BY <1>1, <3>3
    <3> QED
      BY <3>1, <3>2, <3>4
  <2> QED
    BY <2>1, <2>2
<1> QED
  BY <1>2, <1>6

\* What allocate() does, once the order of the request and the list are known.
Takes(blk, from, order) ==
  /\ Taken(blk, from, order)
  /\ free_lists[from] # <<>> /\ blk = Head(free_lists[from])
  /\ free_lists' = SplitDown(blk, from, order)
  /\ free_map' = [p \in DOMAIN free_map |->
       IF p = blk THEN 0
       ELSE IF \E k \in order .. from - 1 : p = blk + 2 ^ k THEN p - blk
       ELSE free_map[p]]
  /\ allocated' = [i \in DOMAIN allocated \cup {next_id} |->
       IF i = next_id THEN [address |-> blk, size |-> 2 ^ order] ELSE allocated[i]]
  /\ next_id' = next_id + 1
  /\ total_pages' = total_pages

LEMMA AllocateTakes ==
  ASSUME IInv, NEW bytes \in Requests, Allocate(bytes)
  PROVE  \E blk, from, order : Takes(blk, from, order)
<1>1. PICK order \in 0 .. MaxOrder : Rounded(bytes) = 2 ^ order
  BY RoundedIs
<1>2. OrderOf(2 ^ order) = order /\ order \in Nat
  BY BuddyAssumption, OrderOfPow
<1>3. PICK from \in Orders :
        /\ order <= from
        /\ free_lists[from] # <<>>
        /\ \A k \in order .. from - 1 : free_lists[k] = <<>>
        /\ LET blk == Head(free_lists[from]) IN
             /\ free_lists' = SplitDown(blk, from, order)
             /\ free_map' = [p \in DOMAIN free_map |->
                  IF p = blk THEN 0
                  ELSE IF \E k \in order .. from - 1 : p = blk + 2 ^ k
                  THEN p - blk
                  ELSE free_map[p]]
             /\ allocated' = [i \in DOMAIN allocated \cup {next_id} |->
                  IF i = next_id THEN [address |-> blk, size |-> 2 ^ order]
                                 ELSE allocated[i]]
  BY <1>1, <1>2 DEF Allocate
<1>4. next_id' = next_id + 1 /\ total_pages' = total_pages
  BY DEF Allocate
<1> DEFINE blk == Head(free_lists[from])
<1>5. Orders \subseteq Nat /\ \A k \in order .. from - 1 : k \in Orders
  BY <1>2, OrdersAre DEF IInv
<1>6. blk \in OfOrder(from)
  BY <1>3, TailLists DEF IInv, ListsInv
<1>7. Aligned(blk, from)
  <2>1. PICK k \in Orders : free_map[blk] = 2 ^ k /\ Aligned(blk, k)
    BY <1>6 DEF IInv, BlocksInv, OfOrder
  <2>2. k = from
    <3>1. 2 ^ k = 2 ^ from
      BY <1>6, <2>1 DEF OfOrder
    <3> QED
      BY <1>5, <3>1, PowInjective
  <2> QED
    BY <2>1, <2>2
<1>8. ASSUME NEW k \in order .. from - 1 PROVE OfOrder(k) = {}
  <2>1. Lists(<<>>, OfOrder(k))
    BY <1>3, <1>5 DEF IInv, ListsInv
  <2> QED
    BY <2>1, EmptyLists DEF Lists
<1>9. Taken(blk, from, order)
  BY <1>2, <1>3, <1>6, <1>7, <1>8 DEF Taken
<1> QED
  BY <1>3, <1>4, <1>9 DEF Takes

\* The map after it: the block is gone, its upper halves are there.
MapSplit(blk, from, order) ==
  /\ Pages' = Pages /\ Orders' = Orders
  /\ free_map'[blk] = 0
  /\ \A k \in order .. from - 1 : free_map'[blk + 2 ^ k] = 2 ^ k
  /\ \A p \in Pages : p # blk /\ p \notin UpperHalves(blk, from, order) =>
       free_map'[p] = free_map[p]
  /\ FreeBlocks' = (FreeBlocks \ {blk}) \cup UpperHalves(blk, from, order)
  /\ UpperHalves(blk, from, order) \cap FreeBlocks = {}

LEMMA AllocateMap ==
  ASSUME IInv, NEW blk, NEW from, NEW order, Takes(blk, from, order)
  PROVE  MapSplit(blk, from, order)
<1> DEFINE U == UpperHalves(blk, from, order)
<1>1. Taken(blk, from, order)
  BY DEF Takes
<1>2. DOMAIN free_map = Pages /\ Orders \subseteq Nat
  BY <1>1, OrdersAre DEF IInv, TypesInv, Taken
<1>3. blk \in Pages /\ blk \in FreeBlocks /\ blk \in Nat /\ from \in Nat /\ order \in Nat
  BY <1>1, <1>2 DEF Taken, OfOrder, FreeBlocks, Aligned
<1>4. Pages' = Pages /\ Orders' = Orders
  BY DEF Takes, Pages, Orders, SplitDown
<1>5. free_map'[blk] = 0
  BY <1>2, <1>3 DEF Takes
<1>6. ASSUME NEW k \in order .. from - 1
      PROVE  /\ free_map'[blk + 2 ^ k] = 2 ^ k /\ blk + 2 ^ k \in Pages
             /\ blk + 2 ^ k # blk /\ free_map[blk + 2 ^ k] = 0 /\ 2 ^ k # 0
  <2>1. /\ blk + 2 ^ k \in Pages /\ blk + 2 ^ k # blk /\ k \in Nat
        /\ free_map[blk + 2 ^ k] = 0
    BY <1>1, HalvesFresh
  <2>2. free_map'[blk + 2 ^ k] = (blk + 2 ^ k) - blk
    BY <1>2, <2>1 DEF Takes
  <2>3. 2 ^ k \in Nat \ {0}
    BY <2>1, PowPositive
  <2>4. (blk + 2 ^ k) - blk = 2 ^ k
    BY <1>3, <2>3
  <2> QED
    BY <2>1, <2>2, <2>3, <2>4
<1>7. \A p \in Pages : p # blk /\ p \notin U => free_map'[p] = free_map[p]
  BY <1>2 DEF Takes, UpperHalves
<1>8. \A p \in U : /\ p \in Pages /\ free_map'[p] # 0 /\ p \notin FreeBlocks /\ p # blk
  BY <1>6 DEF UpperHalves, FreeBlocks
<1> HIDE DEF U
<1>9. FreeBlocks' = {p \in Pages : free_map'[p] # 0}
  BY <1>4 DEF FreeBlocks
<1>10. \A p \in Pages : free_map'[p] # 0 <=> p \in (FreeBlocks \ {blk}) \cup U
  BY <1>5, <1>7, <1>8 DEF FreeBlocks
<1>11. FreeBlocks' = (FreeBlocks \ {blk}) \cup U
  <2>1. (FreeBlocks \ {blk}) \cup U \subseteq Pages
    BY <1>8 DEF FreeBlocks
  <2> QED
    BY <1>9, <1>10, <2>1
<1> QED
  BY <1>4, <1>5, <1>6, <1>7, <1>8, <1>11 DEF MapSplit, U

LEMMA AllocateLists ==
  ASSUME IInv, NEW blk, NEW from, NEW order, Takes(blk, from, order)
  PROVE  ListsInv'
<1> DEFINE U == UpperHalves(blk, from, order)
<1>1. Taken(blk, from, order) /\ MapSplit(blk, from, order)
  BY AllocateMap DEF Takes
<1>2. /\ Orders \subseteq Nat /\ order \in Nat /\ from \in Orders /\ Pages \subseteq Nat
      /\ blk \in OfOrder(from)
  BY <1>1, OrdersAre DEF IInv, TypesInv, Taken, Pages
<1>3. \A p \in U : \E j \in order .. from - 1 :
        p = blk + 2 ^ j /\ free_map'[p] = 2 ^ j /\ j \in Nat /\ j < from
  <2>1. \A j \in order .. from - 1 : j \in Nat /\ j < from
    BY <1>2
  <2> QED
    BY <1>1, <2>1 DEF UpperHalves, MapSplit
<1>4. ASSUME NEW k \in Orders PROVE OfOrder(k)' = {p \in FreeBlocks' : free_map'[p] = 2 ^ k}
  BY DEF OfOrder
<1>5. /\ FreeBlocks' = (FreeBlocks \ {blk}) \cup U /\ U \cap FreeBlocks = {}
      /\ \A p \in FreeBlocks : p # blk => free_map'[p] = free_map[p]
      /\ free_map[blk] = 2 ^ from /\ blk \in FreeBlocks
  BY <1>1 DEF MapSplit, FreeBlocks, Taken, OfOrder
<1> HIDE DEF U
<1>6. ASSUME NEW k \in Orders, k = from PROVE Lists(free_lists'[k], OfOrder(k)')
  <2>1. \A p \in U : free_map'[p] # 2 ^ k
    BY <1>2, <1>3, <1>6, PowInjective
  <2>2. OfOrder(k)' = OfOrder(k) \ {blk}
    BY <1>4, <1>5, <1>6, <2>1 DEF OfOrder
  <2>3. free_lists'[k] = Tail(free_lists[k])
    BY <1>6 DEF Takes, SplitDown
  <2>4. Lists(free_lists[k], OfOrder(k)) /\ free_lists[k] # <<>> /\ blk = Head(free_lists[k])
    BY <1>6 DEF IInv, ListsInv, Takes
  <2> QED
    BY <2>2, <2>3, <2>4, TailLists
<1>7. ASSUME NEW k \in Orders, k \in order .. from - 1
      PROVE  Lists(free_lists'[k], OfOrder(k)')
  <2>1. k # from /\ k \in Nat
    BY <1>2, <1>7
  <2>2. free_lists'[k] = <<blk + 2 ^ k>> \o free_lists[k]
    BY <1>7, <2>1 DEF Takes, SplitDown
  <2>3. /\ blk + 2 ^ k \in U /\ free_map'[blk + 2 ^ k] = 2 ^ k
        /\ free_map[blk] # 2 ^ k
    <3>1. free_map[blk] # 2 ^ k
      BY <1>2, <1>5, <2>1, PowInjective
    <3> QED
      BY <1>1, <1>7, <3>1 DEF U, UpperHalves, MapSplit
  <2>4. \A p \in U : free_map'[p] = 2 ^ k => p = blk + 2 ^ k
    BY <1>3, <2>1, PowInjective
  <2>5. OfOrder(k)' = OfOrder(k) \cup {blk + 2 ^ k}
    BY <1>4, <1>5, <2>3, <2>4 DEF OfOrder
  <2>6. blk + 2 ^ k \notin OfOrder(k) /\ blk + 2 ^ k \in Nat
    <3>1. blk + 2 ^ k \in Pages
      BY <1>1, <1>7, HalvesFresh DEF IInv
    <3> QED
      BY <1>2, <1>5, <2>3, <3>1 DEF OfOrder
  <2>7. Lists(free_lists[k], OfOrder(k))
    BY DEF IInv, ListsInv
  <2> QED
    BY <2>2, <2>5, <2>6, <2>7, PrependLists
<1>8. ASSUME NEW k \in Orders, k # from, k \notin order .. from - 1
      PROVE  Lists(free_lists'[k], OfOrder(k)')
  <2>1. free_lists'[k] = free_lists[k] /\ k \in Nat
    BY <1>2, <1>8 DEF Takes, SplitDown
  <2>2. free_map[blk] # 2 ^ k
    BY <1>2, <1>5, <1>8, PowInjective
  <2>3. \A p \in U : free_map'[p] # 2 ^ k
    BY <1>3, <1>8, <2>1, PowInjective
  <2>4. OfOrder(k)' = OfOrder(k)
    BY <1>4, <1>5, <2>2, <2>3 DEF OfOrder
  <2> QED
    BY <2>1, <2>4 DEF IInv, ListsInv
<1>9. Orders' = Orders
  BY <1>1 DEF MapSplit
<1> QED
  BY <1>6, <1>7, <1>8, <1>9 DEF ListsInv

LEMMA AllocateBuddies ==
  ASSUME IInv, NEW blk, NEW from, NEW order, Takes(blk, from, order)
  PROVE  BuddiesInv'
<1> DEFINE U == UpperHalves(blk, from, order)
<1>1. Taken(blk, from, order) /\ MapSplit(blk, from, order) /\ total_pages' = total_pages
  BY AllocateMap DEF Takes
<1>2. PICK n \in 0 .. MaxOrder :
        /\ n \in Nat /\ total_pages = 2 ^ n /\ Orders = 0 .. n /\ 2 ^ n \in Nat \ {0}
  BY <1>1, OrdersAre DEF Taken, IInv
<1>3. SUFFICES ASSUME NEW b \in FreeBlocks', NEW k \in Orders,
                      free_map'[b] = 2 ^ k, 2 ^ k < total_pages
               PROVE  free_map'[Buddy(b, k)] # 2 ^ k
  BY <1>1 DEF BuddiesInv, MapSplit
<1>4. k \in Nat /\ 2 ^ k \in Nat \ {0}
  BY <1>2, PowPositive
<1>5. CASE b \in U
  <2>1. PICK j \in order .. from - 1 : b = blk + 2 ^ j
    BY <1>5 DEF UpperHalves
  <2>2. free_map'[b] = 2 ^ j /\ Buddy(b, j) = blk /\ j \in Nat
    BY <1>1, <2>1, HalvesFresh DEF MapSplit
  <2>3. j = k
    BY <1>3, <1>4, <2>2, PowInjective
  <2> QED
    BY <1>1, <1>4, <2>2, <2>3 DEF MapSplit
<1>6. CASE b \notin U
  <2>1. b \in FreeBlocks /\ b # blk /\ free_map[b] = 2 ^ k
    BY <1>1, <1>3, <1>6 DEF MapSplit, FreeBlocks
  <2>2. Aligned(b, k)
    <3>1. PICK j \in Orders : free_map[b] = 2 ^ j /\ Aligned(b, j)
      BY <2>1 DEF IInv, BlocksInv
    <3>2. j = k
      <4>1. j \in Nat /\ 2 ^ j = 2 ^ k
        BY <1>2, <2>1, <3>1
      <4> QED
        BY <1>4, <4>1, PowInjective
    <3> QED
      BY <3>1, <3>2
  <2> DEFINE c == Buddy(b, k)
  <2>3. c \in Pages /\ Buddy(c, k) = b
    <3>1. k < n
      BY <1>2, <1>3, <1>4, PowLess
    <3>2. b < 2 ^ n
      BY <1>2, <2>1 DEF FreeBlocks, Pages
    <3>3. c \in 0 .. 2 ^ n - 1
      BY <1>2, <1>4, <2>2, <3>1, <3>2, BuddyFits
    <3> QED
      BY <1>2, <1>4, <2>2, <3>3, BuddyBack DEF Pages
  <2>4. free_map[c] # 2 ^ k
    BY <1>3, <2>1 DEF IInv, BuddiesInv
  <2> HIDE DEF c
  <2>5. CASE c = blk
    BY <1>1, <1>4, <2>5 DEF MapSplit, c
  <2>6. CASE c \in U
    <3>1. PICK j \in order .. from - 1 : c = blk + 2 ^ j
      BY <2>6 DEF UpperHalves
    <3>2. free_map'[c] = 2 ^ j /\ Buddy(c, j) = blk /\ j \in Nat
      BY <1>1, <3>1, HalvesFresh DEF MapSplit
    <3>3. ~(2 ^ j = 2 ^ k)
      <4> SUFFICES ASSUME 2 ^ j = 2 ^ k PROVE FALSE
        OBVIOUS
      <4>1. j = k
        BY <1>4, <3>2, PowInjective
      <4> QED
        BY <2>1, <2>3, <3>2, <4>1
    <3> QED
      BY <3>2, <3>3 DEF c
  <2>7. CASE c # blk /\ c \notin U
    BY <1>1, <2>3, <2>4, <2>7 DEF MapSplit, c
  <2> QED
    BY <2>5, <2>6, <2>7
<1> QED
  BY <1>5, <1>6

LEMMA AllocateTypes ==
  ASSUME IInv, NEW blk, NEW from, NEW order, Takes(blk, from, order)
  PROVE  TypesInv'
<1>1. Taken(blk, from, order) /\ MapSplit(blk, from, order)
  BY AllocateMap DEF Takes
<1>2. PICK n \in 0 .. MaxOrder : total_pages = 2 ^ n /\ Orders = 0 .. n
  BY <1>1, OrdersAre DEF Taken, IInv
<1>3. DOMAIN free_map' = Pages /\ free_map \in [Pages -> Nat]
  BY DEF Takes, IInv, TypesInv
<1>4. \A p \in Pages : free_map'[p] \in Nat
  <2>1. \A p \in UpperHalves(blk, from, order) : free_map'[p] \in Nat
    <3>1. \A k \in order .. from - 1 : 2 ^ k \in Nat
      BY <1>1, HalvesFresh, PowPositive
    <3> QED
      BY <1>1, <3>1 DEF MapSplit, UpperHalves
  <2> QED
    BY <1>1, <1>3, <2>1 DEF MapSplit
<1>5. free_map' \in [Pages -> Nat]
  <2>1. free_map' = [p \in Pages |-> free_map'[p]]
    BY <1>3 DEF Takes
  <2> QED
    BY <1>4, <2>1
<1>6. next_id' \in Nat \ {0} /\ DOMAIN allocated' \subseteq 1 .. next_id' - 1
  BY DEF IInv, TypesInv, Takes
<1>7. Pages' = Pages /\ Orders' = Orders /\ total_pages' = total_pages
  BY <1>1 DEF MapSplit, Takes
<1> QED
  BY <1>2, <1>5, <1>6, <1>7 DEF TypesInv

LEMMA AllocateBlocks ==
  ASSUME IInv, NEW blk, NEW from, NEW order, Takes(blk, from, order)
  PROVE  BlocksInv'
<1> DEFINE U == UpperHalves(blk, from, order)
<1>1. Taken(blk, from, order) /\ MapSplit(blk, from, order)
  BY AllocateMap DEF Takes
<1>2. Pages' = Pages /\ Orders' = Orders /\ FreeBlocks' = (FreeBlocks \ {blk}) \cup U
  BY <1>1 DEF MapSplit
<1>3. ASSUME NEW b \in FreeBlocks'
      PROVE  \E k \in Orders : free_map'[b] = 2 ^ k /\ Aligned(b, k)
  <2>1. CASE b \in U
    <3>1. PICK k \in order .. from - 1 : b = blk + 2 ^ k
      BY <2>1 DEF UpperHalves
    <3> QED
      BY <1>1, <3>1, HalvesFresh DEF MapSplit
  <2>2. CASE b \notin U
    <3>1. b \in FreeBlocks /\ free_map'[b] = free_map[b]
      BY <1>1, <1>2, <2>2 DEF MapSplit, FreeBlocks
    <3> QED
      BY <3>1 DEF IInv, BlocksInv
  <2> QED
    BY <2>1, <2>2
<1>4. ASSUME NEW i \in DOMAIN allocated'
      PROVE  LET a == allocated'[i].address IN
             /\ a \in Pages
             /\ \E k \in Orders : /\ allocated'[i] = [address |-> a, size |-> 2 ^ k]
                                  /\ Aligned(a, k)
  <2>1. CASE i = next_id
    <3>1. allocated'[i] = [address |-> blk, size |-> 2 ^ order]
      BY <2>1 DEF Takes
    <3>2. blk \in Pages /\ order \in Orders /\ Aligned(blk, order)
      <4>1. PICK n \in 0 .. MaxOrder : n \in Nat /\ Orders = 0 .. n
        BY <1>1, OrdersAre DEF Taken, IInv
      <4>2. order \in Nat /\ from \in 0 .. n /\ order <= from /\ Aligned(blk, from)
        BY <1>1, <4>1 DEF Taken
      <4>3. order \in 0 .. n /\ Aligned(blk, order)
        BY <4>2, AlignedCoarser
      <4> QED
        BY <1>1, <4>1, <4>3 DEF Taken, OfOrder, FreeBlocks
    <3> QED
      BY <3>1, <3>2
  <2>2. CASE i # next_id
    <3>1. i \in DOMAIN allocated /\ allocated'[i] = allocated[i]
      BY <2>2 DEF Takes
    <3> QED
      BY <3>1 DEF IInv, BlocksInv
  <2> QED
    BY <2>1, <2>2
<1> QED
  BY <1>2, <1>3, <1>4 DEF BlocksInv

LEMMA AllocatePartition ==
  ASSUME IInv, NEW blk, NEW from, NEW order, Takes(blk, from, order)
  PROVE  Partition(Blocks, total_pages)'
<1> DEFINE U == UpperHalves(blk, from, order)
           old == Block(blk, 2 ^ from, 0)
           low == Block(blk, 2 ^ order, next_id)
           up(k) == Block(blk + 2 ^ k, 2 ^ k, 0)
           N == {low} \cup {up(k) : k \in order .. from - 1}
           B == (Blocks \ {old}) \cup N
<1>1. Taken(blk, from, order) /\ MapSplit(blk, from, order)
  BY AllocateMap DEF Takes
<1>2. blk \in FreeBlocks /\ free_map[blk] = 2 ^ from /\ old \in Blocks
  BY <1>1 DEF Taken, OfOrder, Blocks
<1>3. /\ FreeBlocks' = (FreeBlocks \ {blk}) \cup U /\ U \cap FreeBlocks = {}
      /\ \A b \in FreeBlocks : b # blk => free_map'[b] = free_map[b]
      /\ \A k \in order .. from - 1 : blk + 2 ^ k \in U /\ free_map'[blk + 2 ^ k] = 2 ^ k
  BY <1>1 DEF MapSplit, FreeBlocks, UpperHalves
<1>4. /\ DOMAIN allocated' = DOMAIN allocated \cup {next_id}
      /\ next_id \notin DOMAIN allocated /\ 0 \notin DOMAIN allocated
      /\ allocated'[next_id] = [address |-> blk, size |-> 2 ^ order]
      /\ \A i \in DOMAIN allocated : allocated'[i] = allocated[i]
  <2>1. next_id \notin DOMAIN allocated /\ 0 \notin DOMAIN allocated
    BY DEF IInv, TypesInv
  <2> QED
    BY <2>1 DEF Takes
<1>5. Blocks' =
        {Block(b, free_map'[b], 0) : b \in FreeBlocks'} \cup
        {Block(allocated'[i].address, allocated'[i].size, i) : i \in DOMAIN allocated'}
  BY DEF Blocks
<1>6. \A x \in Blocks' : x \in B
  <2>1. ASSUME NEW b \in FreeBlocks' PROVE Block(b, free_map'[b], 0) \in B
    <3>1. CASE b \in U
      <4>1. PICK k \in order .. from - 1 : b = blk + 2 ^ k
        BY <3>1 DEF UpperHalves
      <4> QED
        BY <1>3, <4>1
    <3>2. CASE b \notin U
      <4>1. b \in FreeBlocks /\ b # blk /\ free_map'[b] = free_map[b]
        BY <1>3, <3>2
      <4> QED
        BY <4>1 DEF Blocks, Block
    <3> QED
      BY <3>1, <3>2
  <2>2. ASSUME NEW i \in DOMAIN allocated'
        PROVE  Block(allocated'[i].address, allocated'[i].size, i) \in B
    <3>1. CASE i = next_id
      BY <1>4, <3>1
    <3>2. CASE i # next_id
      BY <1>4, <3>2 DEF Blocks, Block
    <3> QED
      BY <3>1, <3>2
  <2> HIDE DEF B
  <2> QED
    BY <1>5, <2>1, <2>2
<1>7. \A x \in B : x \in Blocks'
  <2>1. ASSUME NEW b \in FreeBlocks, Block(b, free_map[b], 0) # old
        PROVE  Block(b, free_map[b], 0) \in Blocks'
    <3>1. b # blk
      BY <1>2, <2>1
    <3> QED
      BY <1>3, <1>5, <3>1
  <2>2. ASSUME NEW i \in DOMAIN allocated
        PROVE  Block(allocated[i].address, allocated[i].size, i) \in Blocks'
    BY <1>4, <1>5
  <2>3. low \in Blocks'
    BY <1>4, <1>5
  <2>4. \A k \in order .. from - 1 : up(k) \in Blocks'
    BY <1>3, <1>5
  <2> HIDE DEF old, low, up
  <2> QED
    BY <2>1, <2>2, <2>3, <2>4 DEF Blocks
<1>8. Blocks' = B
  BY <1>6, <1>7
<1>9. Partition(B, total_pages)
  <2>1. /\ \A p \in Nat : Covers(old, p) <=> \E b \in N : Covers(b, p)
        /\ \A p \in Nat : \A b, c \in N : Covers(b, p) /\ Covers(c, p) => b = c
    BY <1>1, PiecesCover
  <2>2. total_pages \in Nat
    BY <1>1, OrdersAre DEF Taken, IInv
  <2> HIDE DEF N, old
  <2>3. \A p \in 0 .. total_pages - 1 :
          (\E b \in {old} : Covers(b, p)) <=> (\E b \in N : Covers(b, p))
    BY <2>1, <2>2
  <2>4. \A p \in 0 .. total_pages - 1 :
          \A b, c \in N : Covers(b, p) /\ Covers(c, p) => b = c
    BY <2>1, <2>2
  <2>5. {old} \in SUBSET Blocks /\ Partition(Blocks, total_pages)
    BY <1>2 DEF IInv
  <2>6. CanReplace(N, {old}, total_pages)
    BY <2>3, <2>4 DEF CanReplace
  <2> QED
    BY <2>5, <2>6, Replaced
<1>10. total_pages' = total_pages
  BY DEF Takes
<1> HIDE DEF B
<1> QED
  BY <1>8, <1>9, <1>10

LEMMA AllocateInv ==
  ASSUME IInv, NEW bytes \in Requests, Allocate(bytes)
  PROVE  IInv'
<1>1. PICK blk, from, order : Takes(blk, from, order)
  BY AllocateTakes
<1> QED
  BY <1>1, AllocateTypes, AllocateBlocks, AllocatePartition, AllocateLists, AllocateBuddies
     DEF IInv

-----------------------------------------------------------------------------
(* Freeing.                                                                *)

\* What deallocate() does, once the block's order is known.
Frees(id, a, order, top) ==
  /\ id \in DOMAIN allocated /\ allocated[id] = [address |-> a, size |-> 2 ^ order]
  /\ order \in Orders /\ top \in Orders /\ order <= top
  /\ a \in Pages /\ Aligned(a, order)
  /\ FinalOrder(a, order, top)
  /\ free_lists' = [Unlinked(a, order, top) EXCEPT ![top] = <<Base(a, top)>> \o @]
  /\ free_map' = [p \in DOMAIN free_map |->
       IF p = Base(a, top) THEN 2 ^ top
       ELSE IF \E k \in order .. top - 1 : p = BuddyAt(a, k) THEN 0
       ELSE free_map[p]]
  /\ allocated' = [i \in DOMAIN allocated \ {id} |-> allocated[i]]
  /\ total_pages' = total_pages /\ next_id' = next_id

LEMMA DeallocateFrees ==
  ASSUME IInv, NEW id \in DOMAIN allocated, Deallocate(id)
  PROVE  \E a, order, top : Frees(id, a, order, top)
<1> DEFINE a == allocated[id].address
<1>1. a \in Pages
  BY DEF IInv, BlocksInv
<1>2. PICK order \in Orders : /\ allocated[id] = [address |-> a, size |-> 2 ^ order]
                              /\ Aligned(a, order)
  BY DEF IInv, BlocksInv
<1>3. PICK n \in 0 .. MaxOrder : /\ n \in Nat /\ total_pages = 2 ^ n /\ Orders = 0 .. n
  BY <1>2, OrdersAre DEF IInv
<1>4. OrderOf(allocated[id].size) = order /\ OrderOf(total_pages) = n
  <2>1. MaxOrder \in Nat
    BY BuddyAssumption
  <2>2. order \in 0 .. MaxOrder
    BY <1>3, <2>1
  <2>3. allocated[id].size = 2 ^ order
    BY <1>2
  <2> QED
    BY <1>3, <2>2, <2>3, OrderOfPow
<1>5. PICK top \in order .. n :
        /\ FinalOrder(a, order, top)
        /\ free_lists' = [Unlinked(a, order, top) EXCEPT ![top] = <<Base(a, top)>> \o @]
        /\ free_map' = [p \in DOMAIN free_map |->
             IF p = Base(a, top) THEN 2 ^ top
             ELSE IF \E k \in order .. top - 1 : p = BuddyAt(a, k) THEN 0
             ELSE free_map[p]]
  <2> DEFINE End(o, t) ==
        /\ FinalOrder(a, o, t)
        /\ free_lists' = [Unlinked(a, o, t) EXCEPT ![t] = <<Base(a, t)>> \o @]
        /\ free_map' = [p \in DOMAIN free_map |->
             IF p = Base(a, t) THEN 2 ^ t
             ELSE IF \E k \in o .. t - 1 : p = BuddyAt(a, k) THEN 0
             ELSE free_map[p]]
  <2>1. \E t \in OrderOf(allocated[id].size) .. OrderOf(total_pages) :
          End(OrderOf(allocated[id].size), t)
    BY DEF Deallocate
  <2> HIDE DEF End
  <2>2. \E t \in order .. n : End(order, t)
    BY <1>4, <2>1
  <2> QED
    BY <2>2 DEF End
<1>6. top \in Orders /\ order <= top
  BY <1>3, <1>5
<1>7. /\ allocated' = [i \in DOMAIN allocated \ {id} |-> allocated[i]]
      /\ total_pages' = total_pages /\ next_id' = next_id
  BY DEF Deallocate
<1> HIDE DEF a
<1> QED
  BY <1>1, <1>2, <1>5, <1>6, <1>7 DEF Frees

\* The buddies the block is merged with.
Joined(a, order, top) == {BuddyAt(a, k) : k \in order .. top - 1}

LEMMA MergedBuddies ==
  ASSUME IInv, NEW id, NEW a, NEW order, NEW top, Frees(id, a, order, top),
         NEW k \in order .. top - 1
  PROVE  /\ k \in Nat /\ k \in Orders /\ k # top /\ BuddyAt(a, k) \in OfOrder(k)
         /\ BuddyAt(a, k) \in Joined(a, order, top)
<1>1. PICK n \in 0 .. MaxOrder : /\ n \in Nat /\ total_pages = 2 ^ n /\ Orders = 0 .. n
                                 /\ 2 ^ n \in Nat \ {0}
  BY OrdersAre DEF Frees, IInv
<1>2. k \in Nat /\ k \in Orders /\ k < n /\ k < top
  BY <1>1 DEF Frees
<1>3. a \in Nat /\ a < 2 ^ n
  BY <1>1 DEF Frees, Pages
<1>4. Aligned(Base(a, k), k) /\ Base(a, k) <= a
  BY <1>2, <1>3, BaseOf
<1>5. Base(a, k) < 2 ^ n
  BY <1>1, <1>3, <1>4 DEF Aligned
<1>6. BuddyAt(a, k) \in Pages
  BY <1>1, <1>2, <1>4, <1>5, BuddyFits DEF BuddyAt, Pages
<1>7. free_map[BuddyAt(a, k)] = 2 ^ k
  BY DEF Frees, FinalOrder, Merges
<1>8. 2 ^ k # 0
  BY <1>2, PowPositive
<1> QED
  BY <1>1, <1>2, <1>6, <1>7, <1>8 DEF OfOrder, FreeBlocks, Joined

\* Where the merged block begins, no other free block does than one of them.
LEMMA BaseJoined ==
  ASSUME IInv, NEW id, NEW a, NEW order, NEW top, Frees(id, a, order, top)
  PROVE  /\ Base(a, top) \in Pages /\ Aligned(Base(a, top), top)
         /\ Base(a, top) \in FreeBlocks => Base(a, top) \in Joined(a, order, top)
<1> DEFINE base == Base(a, top)
<1>1. PICK n \in 0 .. MaxOrder : /\ n \in Nat /\ total_pages = 2 ^ n /\ Orders = 0 .. n
                                 /\ 2 ^ n \in Nat \ {0}
  BY OrdersAre DEF Frees, IInv
<1>2. order \in Nat /\ top \in Nat /\ order <= top /\ a \in Nat /\ a < 2 ^ n
  BY <1>1 DEF Frees, Pages
<1>3. Aligned(base, top) /\ base <= a
  BY <1>2, BaseOf
<1>4. base \in Pages /\ base \in Nat
  BY <1>1, <1>2, <1>3 DEF Aligned, Pages
<1>5. base \in Span(base, 2 ^ top)
  BY <1>2, <1>4, PowPositive DEF Span
<1> HIDE DEF base
<1>6. ASSUME base \in FreeBlocks PROVE base \in Joined(a, order, top)
  <2> DEFINE own == Block(base, free_map[base], 0)
  <2>1. own \in Blocks /\ Covers(own, base) /\ base \in 0 .. total_pages - 1
    <3>1. free_map[base] \in Nat \ {0}
      BY <1>4, <1>6 DEF IInv, TypesInv, FreeBlocks
    <3> QED
      BY <1>4, <1>6, <3>1 DEF Blocks, Covers, Block, Span, Pages
  <2>2. ASSUME NEW b \in Blocks, Covers(b, base) PROVE b = own
    BY <2>1, <2>2 DEF IInv, Partition
  <2>3. CASE base \in Span(a, 2 ^ order)
    <3>1. Block(a, 2 ^ order, id) \in Blocks
      BY DEF Frees, Blocks
    <3>2. Covers(Block(a, 2 ^ order, id), base)
      BY <2>3 DEF Covers, Block
    <3>3. id = 0
      BY <2>2, <3>1, <3>2 DEF Block
    <3> QED
      BY <3>3 DEF Frees, IInv, TypesInv
  <2>4. CASE \E k \in order .. top - 1 : base \in Span(BuddyAt(a, k), 2 ^ k)
    <3>1. PICK k \in order .. top - 1 : base \in Span(BuddyAt(a, k), 2 ^ k)
      BY <2>4
    <3>2. BuddyAt(a, k) \in OfOrder(k) /\ BuddyAt(a, k) \in Joined(a, order, top)
      BY MergedBuddies
    <3>3. Block(BuddyAt(a, k), 2 ^ k, 0) \in Blocks
      BY <3>2 DEF OfOrder, Blocks
    <3>4. Covers(Block(BuddyAt(a, k), 2 ^ k, 0), base)
      BY <3>1 DEF Covers, Block
    <3>5. BuddyAt(a, k) = base
      BY <2>2, <3>3, <3>4 DEF Block
    <3> QED
      BY <3>2, <3>5
  <2>5. \/ base \in Span(a, 2 ^ order)
        \/ \E k \in order .. top - 1 : base \in Span(BuddyAt(a, k), 2 ^ k)
    BY <1>2, <1>4, <1>5, MergedSpan DEF Frees, base
  <2> QED
    BY <2>3, <2>4, <2>5
<1> QED
  BY <1>3, <1>4, <1>6 DEF base

\* The map after it: the buddies are gone, the merged block is there.
MapMerged(a, order, top) ==
  /\ Pages' = Pages /\ Orders' = Orders
  /\ free_map'[Base(a, top)] = 2 ^ top
  /\ \A p \in Joined(a, order, top) : p # Base(a, top) => free_map'[p] = 0
  /\ \A p \in Pages : p # Base(a, top) /\ p \notin Joined(a, order, top) =>
       free_map'[p] = free_map[p]
  /\ FreeBlocks' = (FreeBlocks \ Joined(a, order, top)) \cup {Base(a, top)}

LEMMA DeallocateMap ==
  ASSUME IInv, NEW id, NEW a, NEW order, NEW top, Frees(id, a, order, top)
  PROVE  MapMerged(a, order, top)
<1> DEFINE J == Joined(a, order, top)
           base == Base(a, top)
<1>1. DOMAIN free_map = Pages
  BY DEF IInv, TypesInv
<1>2. base \in Pages /\ (base \in FreeBlocks => base \in J)
  BY BaseJoined
<1>3. Pages' = Pages /\ Orders' = Orders
  BY DEF Frees, Pages, Orders, Unlinked
<1>4. free_map'[base] = 2 ^ top
  BY <1>1, <1>2 DEF Frees
<1>5. 2 ^ top # 0
  <2>1. top \in Nat
    BY OrdersAre DEF Frees, IInv
  <2> QED
    BY <2>1, PowPositive
<1>6. \A p \in J : p \in FreeBlocks /\ p \in Pages
  BY MergedBuddies DEF Joined, OfOrder, FreeBlocks
<1>7. \A p \in J : p # base => free_map'[p] = 0
  BY <1>1, <1>6 DEF Frees, Joined
<1>8. \A p \in Pages : p # base /\ p \notin J => free_map'[p] = free_map[p]
  BY <1>1 DEF Frees, Joined
<1> HIDE DEF J, base
<1>9. FreeBlocks' = {p \in Pages : free_map'[p] # 0}
  BY <1>3 DEF FreeBlocks
<1>10. \A p \in Pages : free_map'[p] # 0 <=> p \in (FreeBlocks \ J) \cup {base}
  BY <1>4, <1>5, <1>7, <1>8 DEF FreeBlocks
<1>11. FreeBlocks' = (FreeBlocks \ J) \cup {base}
  <2>1. (FreeBlocks \ J) \cup {base} \subseteq Pages
    BY <1>2 DEF FreeBlocks
  <2> QED
    BY <1>9, <1>10, <2>1
<1> QED
  BY <1>3, <1>4, <1>7, <1>8, <1>11 DEF MapMerged, J, base

LEMMA DeallocateLists ==
  ASSUME IInv, NEW id, NEW a, NEW order, NEW top, Frees(id, a, order, top)
  PROVE  ListsInv'
<1> DEFINE J == Joined(a, order, top)
           base == Base(a, top)
<1>1. MapMerged(a, order, top)
  BY DeallocateMap
<1>2. Orders \subseteq Nat /\ order \in Nat /\ top \in Orders /\ Pages \subseteq Nat
  BY OrdersAre DEF Frees, IInv, Pages
<1>3. base \in Pages /\ (base \in FreeBlocks => base \in J)
  BY BaseJoined
<1>4. \A p \in J : \E j \in order .. top - 1 :
        p = BuddyAt(a, j) /\ free_map[p] = 2 ^ j /\ j \in Nat /\ j # top
  BY MergedBuddies DEF Joined, OfOrder
<1>5. /\ FreeBlocks' = (FreeBlocks \ J) \cup {base} /\ free_map'[base] = 2 ^ top
      /\ \A p \in FreeBlocks : p # base /\ p \notin J => free_map'[p] = free_map[p]
      /\ Orders' = Orders
  BY <1>1 DEF MapMerged, FreeBlocks
<1>6. DOMAIN Unlinked(a, order, top) = Orders
  BY DEF Unlinked
<1> HIDE DEF J, base
<1>7. ASSUME NEW k \in Orders, k \in order .. top - 1
      PROVE  Lists(free_lists'[k], OfOrder(k)')
  <2>1. k # top /\ BuddyAt(a, k) \in OfOrder(k) /\ BuddyAt(a, k) \in J /\ k \in Nat
    BY <1>7, MergedBuddies DEF J
  <2>2. free_lists'[k] = Without(free_lists[k], BuddyAt(a, k))
    BY <1>6, <1>7, <2>1 DEF Frees, Unlinked
  <2>3. OfOrder(k)' = OfOrder(k) \ {BuddyAt(a, k)}
    <3>1. 2 ^ k # 2 ^ top
      BY <1>2, <2>1, PowInjective
    <3>2. \A p \in J : free_map[p] = 2 ^ k => p = BuddyAt(a, k)
      BY <1>4, <2>1, PowInjective
    <3>3. \A p \in OfOrder(k)' : p \in OfOrder(k) \ {BuddyAt(a, k)}
      BY <1>5, <2>1, <3>1 DEF OfOrder
    <3>4. \A p \in OfOrder(k) \ {BuddyAt(a, k)} : p \in OfOrder(k)'
      BY <1>3, <1>5, <3>2 DEF OfOrder
    <3> QED
      BY <3>3, <3>4
  <2>4. Lists(free_lists[k], OfOrder(k))
    BY DEF IInv, ListsInv
  <2> QED
    BY <2>1, <2>2, <2>3, <2>4, WithoutLists
<1>8. ASSUME NEW k \in Orders, k = top
      PROVE  Lists(free_lists'[k], OfOrder(k)')
  <2>1. k \notin order .. top - 1
    BY <1>2, <1>8
  <2>2. free_lists'[k] = <<base>> \o free_lists[k]
    BY <1>6, <1>8, <2>1 DEF Frees, Unlinked, base
  <2>3. \A p \in J : free_map[p] # 2 ^ k
    BY <1>2, <1>4, <1>8, PowInjective
  <2>4. base \notin OfOrder(k) /\ base \in Nat
    BY <1>2, <1>3, <2>3 DEF OfOrder
  <2>5. OfOrder(k)' = OfOrder(k) \cup {base}
    <3>1. \A p \in OfOrder(k)' : p \in OfOrder(k) \cup {base}
      BY <1>5 DEF OfOrder
    <3>2. \A p \in OfOrder(k) \cup {base} : p \in OfOrder(k)'
      BY <1>5, <1>8, <2>3 DEF OfOrder
    <3> QED
      BY <3>1, <3>2
  <2>6. Lists(free_lists[k], OfOrder(k))
    BY DEF IInv, ListsInv
  <2> QED
    BY <2>2, <2>4, <2>5, <2>6, PrependLists
<1>9. ASSUME NEW k \in Orders, k # top, k \notin order .. top - 1
      PROVE  Lists(free_lists'[k], OfOrder(k)')
  <2>1. free_lists'[k] = free_lists[k]
    BY <1>6, <1>9 DEF Frees, Unlinked
  <2>2. 2 ^ k # 2 ^ top
    BY <1>2, <1>9, PowInjective
  <2>3. \A p \in J : free_map[p] # 2 ^ k
    <3>1. k \in Nat
      BY <1>2
    <3> QED
      BY <1>4, <1>9, <3>1, PowInjective
  <2>4. OfOrder(k)' = OfOrder(k)
    <3>1. \A p \in OfOrder(k)' : p \in OfOrder(k)
      BY <1>5, <2>2 DEF OfOrder
    <3>2. \A p \in OfOrder(k) : p \in OfOrder(k)'
      BY <1>3, <1>5, <2>3 DEF OfOrder
    <3> QED
      BY <3>1, <3>2
  <2> QED
    BY <2>1, <2>4 DEF IInv, ListsInv
<1> QED
  BY <1>5, <1>7, <1>8, <1>9 DEF ListsInv

LEMMA DeallocateTypes ==
  ASSUME IInv, NEW id, NEW a, NEW order, NEW top, Frees(id, a, order, top)
  PROVE  TypesInv'
<1>1. MapMerged(a, order, top)
  BY DeallocateMap
<1>2. PICK n \in 0 .. MaxOrder : total_pages = 2 ^ n /\ Orders = 0 .. n
  BY OrdersAre DEF Frees, IInv
<1>3. DOMAIN free_map' = Pages /\ free_map \in [Pages -> Nat] /\ 2 ^ top \in Nat
  <2>1. top \in Nat
    BY <1>2 DEF Frees
  <2> QED
    BY <2>1, PowPositive DEF Frees, IInv, TypesInv
<1>4. \A p \in Pages : free_map'[p] \in Nat
  BY <1>1, <1>3 DEF MapMerged
<1>5. free_map' \in [Pages -> Nat]
  <2>1. free_map' = [p \in Pages |-> free_map'[p]]
    BY <1>3 DEF Frees
  <2> QED
    BY <1>4, <2>1
<1>6. next_id' \in Nat \ {0} /\ DOMAIN allocated' \subseteq 1 .. next_id' - 1
  BY DEF IInv, TypesInv, Frees
<1>7. Pages' = Pages /\ Orders' = Orders /\ total_pages' = total_pages
  BY <1>1 DEF MapMerged, Frees
<1> QED
  BY <1>2, <1>5, <1>6, <1>7 DEF TypesInv

LEMMA DeallocateBlocks ==
  ASSUME IInv, NEW id, NEW a, NEW order, NEW top, Frees(id, a, order, top)
  PROVE  BlocksInv'
<1> DEFINE J == Joined(a, order, top)
           base == Base(a, top)
<1>1. MapMerged(a, order, top) /\ Aligned(base, top) /\ top \in Orders
  BY DeallocateMap, BaseJoined DEF Frees
<1>2. ASSUME NEW b \in FreeBlocks'
      PROVE  \E k \in Orders : free_map'[b] = 2 ^ k /\ Aligned(b, k)
  <2>1. CASE b = base
    BY <1>1, <2>1 DEF MapMerged
  <2>2. CASE b # base
    <3>1. b \in FreeBlocks /\ free_map'[b] = free_map[b]
      BY <1>1, <2>2 DEF MapMerged, FreeBlocks
    <3> QED
      BY <3>1 DEF IInv, BlocksInv
  <2> QED
    BY <2>1, <2>2
<1>3. \A i \in DOMAIN allocated' : i \in DOMAIN allocated /\ allocated'[i] = allocated[i]
  BY DEF Frees
<1>4. \A i \in DOMAIN allocated' :
        LET b == allocated'[i].address IN
        /\ b \in Pages
        /\ \E k \in Orders : /\ allocated'[i] = [address |-> b, size |-> 2 ^ k]
                             /\ Aligned(b, k)
  BY <1>3 DEF IInv, BlocksInv
<1>5. Pages' = Pages /\ Orders' = Orders
  BY <1>1 DEF MapMerged
<1> QED
  BY <1>2, <1>4, <1>5 DEF BlocksInv

LEMMA DeallocatePartition ==
  ASSUME IInv, NEW id, NEW a, NEW order, NEW top, Frees(id, a, order, top)
  PROVE  Partition(Blocks, total_pages)'
<1> DEFINE J == Joined(a, order, top)
           base == Base(a, top)
           own == Block(a, 2 ^ order, id)
           bud(k) == Block(BuddyAt(a, k), 2 ^ k, 0)
           O == {own} \cup {bud(k) : k \in order .. top - 1}
           new == Block(base, 2 ^ top, 0)
           B == (Blocks \ O) \cup {new}
<1>1. MapMerged(a, order, top)
  BY DeallocateMap
<1>2. base \in FreeBlocks => base \in J
  BY BaseJoined
<1>3. /\ FreeBlocks' = (FreeBlocks \ J) \cup {base} /\ free_map'[base] = 2 ^ top
      /\ \A p \in FreeBlocks : p # base /\ p \notin J => free_map'[p] = free_map[p]
  BY <1>1 DEF MapMerged, FreeBlocks
<1>4. \A k \in order .. top - 1 :
        /\ BuddyAt(a, k) \in J /\ BuddyAt(a, k) \in FreeBlocks
        /\ free_map[BuddyAt(a, k)] = 2 ^ k
  BY MergedBuddies DEF OfOrder
<1>5. /\ id \in DOMAIN allocated /\ allocated[id] = [address |-> a, size |-> 2 ^ order]
      /\ DOMAIN allocated' = DOMAIN allocated \ {id} /\ 0 \notin DOMAIN allocated
      /\ \A i \in DOMAIN allocated' : allocated'[i] = allocated[i]
  BY DEF Frees, IInv, TypesInv
<1>6. Blocks' =
        {Block(b, free_map'[b], 0) : b \in FreeBlocks'} \cup
        {Block(allocated'[i].address, allocated'[i].size, i) : i \in DOMAIN allocated'}
  BY DEF Blocks
<1>7. \A x \in Blocks' : x \in B
  <2>1. ASSUME NEW b \in FreeBlocks' PROVE Block(b, free_map'[b], 0) \in B
    <3>1. CASE b = base
      BY <1>3, <3>1
    <3>2. CASE b # base
      <4>1. b \in FreeBlocks /\ b \notin J /\ free_map'[b] = free_map[b]
        BY <1>3, <3>2
      <4>2. Block(b, free_map[b], 0) \in Blocks
        BY <4>1 DEF Blocks
      <4>3. Block(b, free_map[b], 0) # own
        BY <1>5 DEF Block
      <4>4. \A k \in order .. top - 1 : Block(b, free_map[b], 0) # bud(k)
        BY <1>4, <4>1 DEF Block
      <4> HIDE DEF own, bud
      <4> QED
        BY <4>1, <4>2, <4>3, <4>4
    <3> QED
      BY <3>1, <3>2
  <2>2. ASSUME NEW i \in DOMAIN allocated'
        PROVE  Block(allocated'[i].address, allocated'[i].size, i) \in B
    <3>1. i \in DOMAIN allocated /\ i # id /\ i # 0 /\ allocated'[i] = allocated[i]
      BY <1>5
    <3> DEFINE x == Block(allocated[i].address, allocated[i].size, i)
    <3>2. x \in Blocks /\ x # own /\ \A k \in order .. top - 1 : x # bud(k)
      BY <3>1 DEF Blocks, Block
    <3> HIDE DEF own, bud
    <3> QED
      BY <3>1, <3>2
  <2> HIDE DEF B
  <2> QED
    BY <1>6, <2>1, <2>2
<1>8. \A x \in B : x \in Blocks'
  <2>1. ASSUME NEW b \in FreeBlocks, Block(b, free_map[b], 0) \notin O
        PROVE  Block(b, free_map[b], 0) \in Blocks'
    <3>1. b \notin J
      BY <1>4, <2>1 DEF Joined
    <3>2. b # base
      BY <1>2, <3>1
    <3> QED
      BY <1>3, <1>6, <3>1, <3>2
  <2>2. ASSUME NEW i \in DOMAIN allocated,
               Block(allocated[i].address, allocated[i].size, i) \notin O
        PROVE  Block(allocated[i].address, allocated[i].size, i) \in Blocks'
    <3>1. i # id
      BY <1>5, <2>2
    <3> QED
      BY <1>5, <1>6, <3>1
  <2>3. new \in Blocks'
    BY <1>3, <1>6
  <2> HIDE DEF O, new
  <2> QED
    BY <2>1, <2>2, <2>3 DEF Blocks
<1>9. Blocks' = B
  BY <1>7, <1>8
<1>10. Partition(B, total_pages)
  <2>1. ASSUME NEW p \in Nat PROVE Covers(new, p) <=> \E b \in O : Covers(b, p)
    <3>1. /\ Covers(new, p) <=> p \in Span(base, 2 ^ top)
          /\ Covers(own, p) <=> p \in Span(a, 2 ^ order)
          /\ \A k \in order .. top - 1 : Covers(bud(k), p) <=> p \in Span(BuddyAt(a, k), 2 ^ k)
      BY DEF Covers, Block
    <3>2. order \in Nat /\ top \in Nat /\ order <= top /\ Aligned(a, order)
      BY OrdersAre DEF Frees, IInv
    <3> HIDE DEF O, new, own, bud, B, J, base
    <3>3. p \in Span(base, 2 ^ top) <=>
            \/ p \in Span(a, 2 ^ order)
            \/ \E k \in order .. top - 1 : p \in Span(BuddyAt(a, k), 2 ^ k)
      <4>1. p \in Span(Base(a, top), 2 ^ top) <=>
              \/ p \in Span(a, 2 ^ order)
              \/ \E k \in order .. top - 1 : p \in Span(BuddyAt(a, k), 2 ^ k)
        BY ONLY <2>1, <3>2, MergedSpan
      <4> QED
        BY <4>1 DEF base
    <3> USE DEF O
    <3> QED
      BY <3>1, <3>3
  <2>2. total_pages \in Nat
    BY OrdersAre DEF Frees, IInv
  <2>3. O \in SUBSET Blocks
    <3>1. own \in Blocks
      BY <1>5 DEF Blocks
    <3>2. \A k \in order .. top - 1 : bud(k) \in Blocks
      BY <1>4 DEF Blocks
    <3> HIDE DEF own, bud
    <3> QED
      BY <3>1, <3>2
  <2> HIDE DEF O, new
  <2>4. \A p \in 0 .. total_pages - 1 :
          (\E b \in O : Covers(b, p)) <=> (\E b \in {new} : Covers(b, p))
    BY <2>1, <2>2
  <2>5. \A p \in 0 .. total_pages - 1 :
          \A b, c \in {new} : Covers(b, p) /\ Covers(c, p) => b = c
    OBVIOUS
  <2>6. Partition(Blocks, total_pages)
    BY DEF IInv
  <2> HIDE DEF B
  <2>7. Partition((Blocks \ O) \cup {new}, total_pages)
    <3>1. CanReplace({new}, O, total_pages)
      BY <2>4, <2>5 DEF CanReplace
    <3> QED
      BY <2>3, <2>6, <3>1, Replaced
  <2> QED
    BY <2>7 DEF B
<1>11. total_pages' = total_pages
  BY DEF Frees
<1> HIDE DEF B
<1> QED
  BY <1>9, <1>10, <1>11

LEMMA DeallocateBuddies ==
  ASSUME IInv, NEW id, NEW a, NEW order, NEW top, Frees(id, a, order, top)
  PROVE  BuddiesInv'
<1> DEFINE J == Joined(a, order, top)
           base == Base(a, top)
<1>1. MapMerged(a, order, top) /\ total_pages' = total_pages
  BY DeallocateMap DEF Frees
<1>2. PICK n \in 0 .. MaxOrder :
        /\ n \in Nat /\ total_pages = 2 ^ n /\ Orders = 0 .. n /\ 2 ^ n \in Nat \ {0}
  BY OrdersAre DEF Frees, IInv
<1>3. base \in Pages /\ Aligned(base, top) /\ top \in Nat
  <2>1. top \in Nat
    BY <1>2 DEF Frees
  <2> QED
    BY <2>1, BaseJoined
<1>4. 2 ^ top < total_pages => free_map[Buddy(base, top)] # 2 ^ top
  BY DEF Frees, FinalOrder, Merges, BuddyAt
<1>5. SUFFICES ASSUME NEW b \in FreeBlocks', NEW k \in Orders,
                      free_map'[b] = 2 ^ k, 2 ^ k < total_pages
               PROVE  free_map'[Buddy(b, k)] # 2 ^ k
  BY <1>1 DEF BuddiesInv, MapMerged
<1>6. k \in Nat /\ 2 ^ k \in Nat \ {0} /\ k < n
  BY <1>2, <1>5, PowPositive, PowLess
<1> DEFINE c == Buddy(b, k)
<1>7. Aligned(b, k) /\ b \in Pages
  <2>1. PICK j \in Orders : free_map'[b] = 2 ^ j /\ Aligned(b, j)
    BY <1>1, DeallocateBlocks DEF BlocksInv, MapMerged
  <2>2. j = k
    <3>1. j \in Nat /\ 2 ^ j = 2 ^ k
      BY <1>2, <1>5, <2>1
    <3> QED
      BY <1>6, <3>1, PowInjective
  <2>3. b \in Pages
    BY <1>1, <1>3 DEF MapMerged, FreeBlocks
  <2> QED
    BY <2>1, <2>2, <2>3
<1>8. c \in Pages /\ c # b /\ Buddy(c, k) = b
  <2>1. b < 2 ^ n
    BY <1>2, <1>7 DEF Pages
  <2>2. c \in 0 .. 2 ^ n - 1
    BY <1>2, <1>6, <1>7, <2>1, BuddyFits
  <2> QED
    BY <1>2, <1>6, <1>7, <2>2, BuddyBack DEF Pages
<1> HIDE DEF c
<1>9. CASE c = base
  <2>1. free_map'[c] = 2 ^ top
    BY <1>1, <1>9 DEF MapMerged
  <2>2. ~(2 ^ top = 2 ^ k)
    <3> SUFFICES ASSUME 2 ^ top = 2 ^ k PROVE FALSE
      OBVIOUS
    <3>1. k = top
      BY <1>3, <1>6, PowInjective
    <3>2. Buddy(base, top) = b
      BY <1>8, <1>9, <3>1
    <3>3. b \in FreeBlocks /\ free_map[b] = free_map'[b]
      BY <1>1, <1>8, <1>9 DEF MapMerged, FreeBlocks
    <3> QED
      BY <1>4, <1>5, <3>1, <3>2, <3>3
  <2> QED
    BY <2>1, <2>2 DEF c
<1>10. CASE c # base /\ c \in J
  BY <1>1, <1>6, <1>10 DEF MapMerged, c
<1>11. CASE c # base /\ c \notin J
  <2>1. free_map'[c] = free_map[c]
    BY <1>1, <1>8, <1>11 DEF MapMerged
  <2>2. CASE b = base
    <3>1. 2 ^ k = 2 ^ top
      BY <1>1, <1>5, <2>2 DEF MapMerged
    <3>2. k = top
      BY <1>3, <1>6, <3>1, PowInjective
    <3> QED
      BY <1>4, <1>5, <2>1, <2>2, <3>2 DEF c
  <2>3. CASE b # base
    <3>1. b \in FreeBlocks /\ free_map[b] = 2 ^ k
      BY <1>1, <1>5, <2>3 DEF MapMerged, FreeBlocks
    <3>2. free_map[c] # 2 ^ k
      BY <1>5, <3>1 DEF IInv, BuddiesInv, c
    <3> QED
      BY <2>1, <3>2 DEF c
  <2> QED
    BY <2>2, <2>3
<1> QED
  BY <1>9, <1>10, <1>11

LEMMA DeallocateInv ==
  ASSUME IInv, NEW id \in DOMAIN allocated, Deallocate(id)
  PROVE  IInv'
<1>1. PICK a, order, top : Frees(id, a, order, top)
  BY DeallocateFrees
<1> QED
  BY <1>1, DeallocateTypes, DeallocateBlocks, DeallocatePartition, DeallocateLists,
     DeallocateBuddies DEF IInv

LEMMA StutterInv == IInv /\ UNCHANGED vars => IInv'
<1> SUFFICES ASSUME IInv, UNCHANGED vars PROVE IInv'
  OBVIOUS
<1>1. /\ free_lists' = free_lists /\ free_map' = free_map /\ allocated' = allocated
      /\ total_pages' = total_pages /\ next_id' = next_id
  BY DEF vars
<1>2. TypesInv' /\ BlocksInv'
  BY <1>1 DEF IInv, TypesInv, BlocksInv, Orders, Pages, FreeBlocks
<1>3. Partition(Blocks, total_pages)'
  <2>1. Blocks' = Blocks
    BY <1>1 DEF Blocks, FreeBlocks, Pages
  <2> QED
    BY <1>1, <2>1 DEF IInv
<1>4. ListsInv' /\ BuddiesInv'
  BY <1>1 DEF IInv, ListsInv, BuddiesInv, OfOrder, FreeBlocks, Pages, Orders
<1> QED
  BY <1>2, <1>3, <1>4 DEF IInv

LEMMA Invariant == Spec => []IInv
<1>1. Init => IInv
  BY InitInv
<1>2. IInv /\ [Next]_vars => IInv'
  <2> SUFFICES ASSUME IInv, [Next]_vars PROVE IInv'
    OBVIOUS
  <2>1. ASSUME NEW bytes \in MemSizes, InitMemory(bytes) PROVE IInv'
    BY <2>1, InitMemoryInv
  <2>2. ASSUME NEW bytes \in Requests, Allocate(bytes) PROVE IInv'
    BY <2>2, AllocateInv
  <2>3. ASSUME NEW id \in DOMAIN allocated, Deallocate(id) PROVE IInv'
    BY <2>3, DeallocateInv
  <2>4. CASE UNCHANGED vars
    BY <2>4, StutterInv
  <2> QED
    BY <2>1, <2>2, <2>3, <2>4 DEF Next
<1> QED
  BY <1>1, <1>2, PTL DEF Spec

-----------------------------------------------------------------------------
(* The properties the runs check.                                          *)

\* What init() sets up, and allocate() and deallocate() leave, stays within its
\* types, the orders 0 .. max_order of the memory's own size included.
THEOREM TypeCorrect == Spec => []TypeOK
<1>1. ASSUME IInv PROVE TypeOK
  <2>1. TypesInv /\ BlocksInv /\ ListsInv
    BY <1>1 DEF IInv
  <2>2. CASE Orders = {}
    <3>1. total_pages = 0 /\ DOMAIN allocated = {}
      <4>1. ~ \E n \in 0 .. MaxOrder : total_pages = 2 ^ n /\ Orders = 0 .. n
        <5> SUFFICES ASSUME NEW n \in 0 .. MaxOrder, Orders = 0 .. n PROVE FALSE
          OBVIOUS
        <5>1. 0 \in 0 .. n
          BY BuddyAssumption
        <5> QED
          BY <2>2, <5>1
      <4> QED
        BY <2>1, <4>1 DEF TypesInv
    <3>2. FreeBlocks = {} /\ Pages = {}
      BY <3>1 DEF FreeBlocks, Pages
    <3> QED
      BY <2>1, <2>2, <3>1, <3>2 DEF TypesInv, TypeOK
  <2>3. CASE Orders # {}
    <3>1. PICK n \in 0 .. MaxOrder :
            /\ n \in Nat /\ total_pages = 2 ^ n /\ Orders = 0 .. n /\ 2 ^ n \in Nat \ {0}
      BY <2>1, <2>3, OrdersAre
    <3>2. OrderOf(total_pages) = n /\ total_pages # 0 /\ total_pages \in Nat
      BY <3>1, OrderOfPow
    <3>3. \A k \in Orders : free_lists[k] \in Seq(Pages)
      <4>1. \A k \in Orders : OfOrder(k) \subseteq Pages
        BY DEF OfOrder, FreeBlocks
      <4> QED
        BY <2>1, <4>1, ListsIn DEF ListsInv
    <3>4. free_map \in [Pages -> {0} \cup {2 ^ k : k \in Orders}]
      <4>1. \A p \in Pages : free_map[p] \in {0} \cup {2 ^ k : k \in Orders}
        BY <2>1 DEF BlocksInv, FreeBlocks
      <4> QED
        BY <2>1, <4>1 DEF TypesInv
    <3>5. \A i \in DOMAIN allocated :
            allocated[i] \in [address : Pages, size : {2 ^ k : k \in Orders}]
      BY <2>1 DEF BlocksInv
    <3>6. Orders = IF total_pages = 0 THEN {} ELSE 0 .. OrderOf(total_pages)
      BY <3>1, <3>2
    <3>7. next_id \in Nat
      BY <2>1 DEF TypesInv
    <3> QED
      BY <3>2, <3>3, <3>4, <3>5, <3>6, <3>7 DEF TypeOK
  <2> QED
    BY <2>2, <2>3
<1> QED
  BY <1>1, Invariant, PTL

\* An aligned address is a multiple.
LEMMA AlignedRest ==
  ASSUME NEW k \in Nat, NEW a, Aligned(a, k)
  PROVE  a % (2 ^ k) = 0
<1> DEFINE p == 2 ^ k
<1>1. PICK m \in Nat : a = m * p
  BY DEF Aligned
<1>2. p \in Nat \ {0}
  BY PowPositive
<1> HIDE DEF p
<1>3. 0 \in 0 .. p - 1
  BY <1>2
<1>4. (m * p + 0) % p = 0
  BY <1>2, <1>3, Division
<1>5. m * p + 0 = a
  BY <1>1, <1>2
<1> QED
  BY <1>4, <1>5 DEF p

LEMMA InvPages == IInv => PagesPartitioned
<1> SUFFICES ASSUME IInv PROVE PagesPartitioned
  OBVIOUS
<1>1. Orders \subseteq Nat
  BY OrdersAre DEF IInv
<1>2. ASSUME NEW b \in FreeBlocks PROVE b % free_map[b] = 0
  <2>1. PICK k \in Orders : free_map[b] = 2 ^ k /\ Aligned(b, k)
    BY DEF IInv, BlocksInv
  <2> QED
    BY <1>1, <2>1, AlignedRest
<1>3. ASSUME NEW i \in DOMAIN allocated
      PROVE  allocated[i].address % allocated[i].size = 0
  <2> DEFINE a == allocated[i].address
  <2>1. PICK k \in Orders : allocated[i] = [address |-> a, size |-> 2 ^ k] /\ Aligned(a, k)
    BY DEF IInv, BlocksInv
  <2>2. allocated[i].size = 2 ^ k
    BY <2>1
  <2> QED
    BY <1>1, <2>1, <2>2, AlignedRest
<1>4. ASSUME NEW p \in Pages
      PROVE  Cardinality({b \in FreeBlocks : p \in Span(b, free_map[b])})
             + Cardinality({i \in DOMAIN allocated :
                              p \in Span(allocated[i].address, allocated[i].size)}) = 1
  <2> DEFINE free == {b \in FreeBlocks : p \in Span(b, free_map[b])}
             used == {i \in DOMAIN allocated :
                        p \in Span(allocated[i].address, allocated[i].size)}
             own(b) == Block(b, free_map[b], 0)
             given(i) == Block(allocated[i].address, allocated[i].size, i)
  <2>1. /\ \E x \in Blocks : Covers(x, p)
        /\ \A x, y \in Blocks : Covers(x, p) /\ Covers(y, p) => x = y
    BY DEF IInv, Partition, Pages
  <2>2. \A b \in free : own(b) \in Blocks /\ Covers(own(b), p)
    BY DEF Blocks, Covers, Block
  <2>3. \A i \in used : given(i) \in Blocks /\ Covers(given(i), p)
    BY DEF Blocks, Covers, Block
  <2>4. \A b, c \in free : b = c
    BY <2>1, <2>2 DEF Block
  <2>5. \A i, j \in used : i = j
    BY <2>1, <2>3 DEF Block
  <2>6. \A b \in free, i \in used : FALSE
    <3> SUFFICES ASSUME NEW b \in free, NEW i \in used PROVE FALSE
      OBVIOUS
    <3>1. own(b) = given(i)
      BY <2>1, <2>2, <2>3
    <3>2. i = 0
      BY <3>1 DEF Block
    <3> QED
      BY <3>2 DEF IInv, TypesInv
  <2>7. free # {} \/ used # {}
    <3>1. PICK x \in Blocks : Covers(x, p)
      BY <2>1
    <3> QED
      BY <3>1 DEF Blocks, Covers, Block
  <2> HIDE DEF free, used, own, given
  <2>8. CASE free # {}
    <3>1. used = {}
      BY <2>6, <2>8
    <3>2. Cardinality(free) = 1 /\ Cardinality(used) = 0
      BY <2>4, <2>8, <3>1, OneMember, FS_EmptySet
    <3> QED
      BY <3>2 DEF free, used
  <2>9. CASE used # {}
    <3>1. free = {}
      BY <2>6, <2>9
    <3>2. Cardinality(used) = 1 /\ Cardinality(free) = 0
      BY <2>5, <2>9, <3>1, OneMember, FS_EmptySet
    <3> QED
      BY <3>2 DEF free, used
  <2> QED
    BY <2>7, <2>8, <2>9
<1> QED
  BY <1>2, <1>3, <1>4 DEF PagesPartitioned

\* Splitting and merging keep the memory a partition: each page is in exactly one
\* block, free or given out, and each block lies at a multiple of its size, for
\* every sequence of calls and every size of the memory.
THEOREM PagesOnce == Spec => []PagesPartitioned
BY InvPages, Invariant, PTL

LEMMA InvLists == IInv => ListsMatchMap
BY DEF IInv, ListsInv, Lists, OfOrder, ListsMatchMap

\* The lists and the map always name the same free blocks: what deallocate() finds
\* in the map to merge with is in the list it removes it from, and the head of a
\* list that allocate() takes is in the map.
THEOREM ListsMatch == Spec => []ListsMatchMap
BY InvLists, Invariant, PTL

LEMMA InvBuddies == IInv => NoFreeBuddies
<1> SUFFICES ASSUME IInv, NEW b \in FreeBlocks, free_map[b] < total_pages
             PROVE  free_map[Buddy(b, OrderOf(free_map[b]))] # free_map[b]
  BY DEF NoFreeBuddies
<1>1. PICK k \in Orders : free_map[b] = 2 ^ k
  BY DEF IInv, BlocksInv
<1>2. k \in 0 .. MaxOrder
  <2>1. PICK n \in 0 .. MaxOrder : Orders = 0 .. n
    BY OrdersAre DEF IInv
  <2>2. MaxOrder \in Nat
    BY BuddyAssumption
  <2> QED
    BY <2>1, <2>2
<1>3. OrderOf(free_map[b]) = k
  BY <1>1, <1>2, OrderOfPow
<1> QED
  BY <1>1, <1>3 DEF IInv, BuddiesInv

\* Merging goes as far as it can: when a call has ended, no free block of less
\* than the whole memory has a free buddy of its size.
THEOREM BuddiesMerged == Spec => []NoFreeBuddies
BY InvBuddies, Invariant, PTL

-----------------------------------------------------------------------------
(* The promise of the interface.                                           *)

\* What the promise calls the block of an id.
Given(r) == [addr |-> r.address, size |-> r.size]

Live == [i \in DOMAIN allocated |-> Given(allocated[i])]

LEMMA LiveIs ==
  /\ Live = [i \in DOMAIN allocated |->
               [addr |-> allocated[i].address, size |-> allocated[i].size]]
  /\ DOMAIN Live = DOMAIN allocated
  /\ \A i \in DOMAIN allocated : Live[i] = Given(allocated[i])
BY DEF Live, Given

\* A block of the memory ends in it.
LEMMA GivenFits ==
  ASSUME IInv, NEW i \in DOMAIN allocated
  PROVE  /\ allocated[i].address \in Nat /\ allocated[i].size \in Nat \ {0}
         /\ allocated[i].address + allocated[i].size <= total_pages
<1> DEFINE a == allocated[i].address
<1>1. PICK k \in Orders : allocated[i] = [address |-> a, size |-> 2 ^ k] /\ Aligned(a, k)
  BY DEF IInv, BlocksInv
<1>2. PICK n \in 0 .. MaxOrder :
        /\ n \in Nat /\ total_pages = 2 ^ n /\ Orders = 0 .. n /\ 2 ^ n \in Nat \ {0}
  BY <1>1, OrdersAre DEF IInv
<1>3. k \in Nat /\ k <= n
  BY <1>1, <1>2
<1>4. a \in Pages
  BY DEF IInv, BlocksInv
<1>5. a \in Nat /\ a < 2 ^ n /\ allocated[i].size = 2 ^ k
  BY <1>1, <1>2, <1>4 DEF Pages
<1>6. a + 2 ^ k <= 2 ^ n /\ 2 ^ k \in Nat \ {0}
  BY <1>1, <1>2, <1>3, <1>5, AlignedFits, PowPositive
<1> HIDE DEF a
<1> QED
  BY <1>2, <1>5, <1>6 DEF a

\* Two ids have no page in common.
LEMMA GivenApart ==
  ASSUME IInv, NEW i \in DOMAIN allocated, NEW j \in DOMAIN allocated, i # j
  PROVE  Promise!Apart(Given(allocated[i]), Given(allocated[j]))
<1> DEFINE a == allocated[i].address
           m == allocated[i].size
           b == allocated[j].address
           n == allocated[j].size
<1>1. /\ a \in Nat /\ m \in Nat \ {0} /\ a + m <= total_pages
      /\ b \in Nat /\ n \in Nat \ {0} /\ b + n <= total_pages
  BY GivenFits
<1>2. total_pages \in Nat
  BY OrdersAre DEF IInv, TypesInv
<1>3. Block(a, m, i) \in Blocks /\ Block(b, n, j) \in Blocks
  BY DEF Blocks
<1>4. Block(a, m, i) # Block(b, n, j)
  BY DEF Block
<1> HIDE DEF a, m, b, n
<1>5. ASSUME NEW p \in 0 .. total_pages - 1, a <= p, p < a + m, b <= p, p < b + n
      PROVE  FALSE
  <2>1. Covers(Block(a, m, i), p) /\ Covers(Block(b, n, j), p)
    BY <1>1, <1>5 DEF Covers, Block, Span
  <2> QED
    BY <1>3, <1>4, <2>1 DEF IInv, Partition
<1>6. a + m <= b \/ b + n <= a
  <2> SUFFICES ASSUME ~(a + m <= b), ~(b + n <= a) PROVE FALSE
    OBVIOUS
  <2>1. CASE a <= b
    <3>1. b \in 0 .. total_pages - 1 /\ b < a + m /\ b < b + n /\ b <= b
      BY <1>1, <1>2, <2>1
    <3> QED
      BY <1>5, <2>1, <3>1
  <2>2. CASE b < a
    <3>1. a \in 0 .. total_pages - 1 /\ a < a + m /\ a < b + n /\ a <= a /\ b <= a
      BY <1>1, <1>2, <2>2
    <3> QED
      BY <1>5, <3>1
  <2> QED
    BY <1>1, <2>1, <2>2
<1> QED
  BY <1>6 DEF Promise!Apart, Given, a, m, b, n

\* Both of them of a state, for use of the state after a step.
GivenBlocks ==
  /\ \A i \in DOMAIN allocated :
       /\ allocated[i].address \in Nat /\ allocated[i].size \in Nat \ {0}
       /\ allocated[i].address + allocated[i].size <= total_pages
  /\ \A i, j \in DOMAIN allocated :
       i # j => Promise!Apart(Given(allocated[i]), Given(allocated[j]))

LEMMA InvGiven == IInv => GivenBlocks
BY GivenFits, GivenApart DEF GivenBlocks

LEMMA AllocateKeepsPromise ==
  ASSUME IInv, NEW bytes \in Requests, Allocate(bytes)
  PROVE  Promise!Allocate
<1>1. PICK blk, from, order : Takes(blk, from, order)
  BY AllocateTakes
<1> DEFINE b == Given([address |-> blk, size |-> 2 ^ order])
<1>2. GivenBlocks' /\ total_pages' = total_pages /\ next_id' = next_id + 1
  <2>1. IInv'
    BY AllocateInv
  <2>2. GivenBlocks'
    BY <2>1, InvGiven, PTL
  <2> QED
    BY <1>1, <2>2 DEF Takes
<1>3. next_id \in Nat \ {0} /\ DOMAIN allocated \subseteq 1 .. next_id - 1
  BY DEF IInv, TypesInv
<1>4. /\ DOMAIN allocated' = DOMAIN allocated \cup {next_id}
      /\ allocated'[next_id] = [address |-> blk, size |-> 2 ^ order]
      /\ \A i \in DOMAIN allocated : allocated'[i] = allocated[i]
  BY <1>1, <1>3 DEF Takes
<1>5. /\ DOMAIN Live' = DOMAIN allocated \cup {next_id} /\ Live'[next_id] = b
      /\ \A i \in DOMAIN allocated : Live'[i] = Live[i]
  BY <1>4 DEF Live
<1>6. Live' = [i \in DOMAIN Live \cup {next_id} |-> IF i = next_id THEN b ELSE Live[i]]
  <2>1. Live' = [i \in DOMAIN Live' |-> Live'[i]]
    BY DEF Live
  <2> QED
    BY <1>3, <1>5, <2>1, LiveIs
<1>7. (1 .. next_id - 1)' = (1 .. next_id - 1) \cup {next_id}
  BY <1>2, <1>3
<1>8. \A i \in DOMAIN Live : Promise!Apart(Live[i], b)
  <2>1. \A i, j \in DOMAIN allocated' :
          i # j => Promise!Apart(Given(allocated'[i]), Given(allocated'[j]))
    BY <1>2 DEF GivenBlocks
  <2>2. \A i \in DOMAIN allocated : i # next_id
    BY <1>3
  <2> QED
    BY <1>4, <2>1, <2>2, LiveIs
<1>9. b.size > 0 /\ b.addr + b.size <= total_pages
  <2>1. \A i \in DOMAIN allocated' :
          /\ allocated'[i].address \in Nat /\ allocated'[i].size \in Nat \ {0}
          /\ allocated'[i].address + allocated'[i].size <= total_pages'
    BY <1>2 DEF GivenBlocks
  <2>2. /\ blk \in Nat /\ 2 ^ order \in Nat \ {0} /\ blk + 2 ^ order <= total_pages
    BY <1>2, <1>4, <2>1
  <2>3. b.size = 2 ^ order /\ b.addr = blk
    BY DEF Given
  <2> QED
    BY <2>2, <2>3
<1>10. next_id \in (DOMAIN Live)' \ (1 .. next_id - 1)
  BY <1>3, <1>5
<1> HIDE DEF b
<1>11. \E id \in (DOMAIN Live)' \ (1 .. next_id - 1) :
         /\ (1 .. next_id - 1)' = (1 .. next_id - 1) \cup {id}
         /\ Live' = [i \in DOMAIN Live \cup {id} |->
                      IF i = id THEN Live'[id] ELSE Live[i]]
         /\ Live'[id].size > 0
         /\ Live'[id].addr + Live'[id].size <= total_pages
         /\ \A i \in DOMAIN Live : Promise!Apart(Live[i], Live'[id])
  <2>1. WITNESS next_id \in (DOMAIN Live)' \ (1 .. next_id - 1)
  <2> QED
    BY <1>5, <1>6, <1>7, <1>8, <1>9, <1>10
<1> QED
  BY <1>2, <1>11 DEF Promise!Allocate, Live, Given

LEMMA DeallocateKeepsPromise ==
  ASSUME NEW id \in DOMAIN allocated, Deallocate(id)
  PROVE  Promise!Free
<1>1. /\ allocated' = [i \in DOMAIN allocated \ {id} |-> allocated[i]]
      /\ total_pages' = total_pages /\ next_id' = next_id
  BY DEF Deallocate
<1>2. Live' = [i \in DOMAIN Live \ {id} |-> Live[i]]
  <2>1. Live' = [i \in DOMAIN Live' |-> Live'[i]]
    BY DEF Live
  <2>2. DOMAIN Live' = DOMAIN allocated \ {id}
    BY <1>1 DEF Live
  <2>3. \A i \in DOMAIN allocated \ {id} : Live'[i] = Live[i]
    BY <1>1 DEF Live
  <2> QED
    BY <2>1, <2>2, <2>3, LiveIs
<1>3. id \in DOMAIN Live
  BY DEF Live
<1> QED
  BY <1>1, <1>2, <1>3 DEF Promise!Free, Live, Given

LEMMA InitMemoryResets ==
  ASSUME NEW bytes \in MemSizes, InitMemory(bytes)
  PROVE  Promise!Reset
<1>1. Live' = [i \in {} |-> 0]
  BY DEF InitMemory, Live, Nothing
<1>2. (1 .. next_id - 1)' = {}
  BY DEF InitMemory
<1>3. total_pages' \in Nat
  <2>1. PICK n \in 0 .. MaxOrder : Rounded(bytes) = 2 ^ n
    BY RoundedIs
  <2>2. n \in Nat
    BY BuddyAssumption
  <2> QED
    BY <2>1, <2>2, PowPositive DEF InitMemory
<1> QED
  BY <1>1, <1>2, <1>3 DEF Promise!Reset, Live, Given

LEMMA AllocateGivesEnough ==
  ASSUME IInv, NEW bytes \in Requests, Allocate(bytes)
  PROVE  \E i \in DOMAIN allocated' \ DOMAIN allocated :
           PageSize * allocated'[i].size >= bytes
<1> DEFINE n == Rounded(bytes)
<1>1. bytes <= PageSize * n /\ bytes \in Nat /\ PageSize \in Nat
  BY RoundedIs, BuddyAssumption
<1>2. n \in Nat
  BY RoundedIs, BuddyAssumption, PowPositive
<1>3. PICK blk : allocated' = [i \in DOMAIN allocated \cup {next_id} |->
                   IF i = next_id THEN [address |-> blk, size |-> n]
                                  ELSE allocated[i]]
  BY DEF Allocate
<1> HIDE DEF n
<1>4. next_id \notin DOMAIN allocated
  BY DEF IInv, TypesInv
<1>5. PageSize * n >= bytes
  BY <1>1, <1>2
<1>6. next_id \in DOMAIN allocated' \ DOMAIN allocated /\ allocated'[next_id].size = n
  BY <1>3, <1>4
<1> QED
  BY <1>5, <1>6

\* The buddy allocator does what Allocator.h promises: an allocation gets an id
\* that is new since init() and pages, enough for the bytes asked for, that no
\* live block has; freeing, however far it merges, takes back its own block and
\* no other.
THEOREM ImplementsPromise == Spec => KeepsPromise
<1> DEFINE Enough ==
             \A bytes \in Requests : Allocate(bytes) =>
               \E i \in DOMAIN allocated' \ DOMAIN allocated :
                 PageSize * allocated'[i].size >= bytes
<1>1. Init => Promise!Init
  BY DEF Init, Promise!Init, Nothing
<1>2. IInv /\ [Next]_vars => [Promise!Next]_Promise!vars
  <2> SUFFICES ASSUME IInv, [Next]_vars
               PROVE  [Promise!Next]_Promise!vars
    OBVIOUS
  <2>1. ASSUME NEW bytes \in MemSizes, InitMemory(bytes) PROVE Promise!Next
    BY <2>1, InitMemoryResets DEF Promise!Next
  <2>2. ASSUME NEW bytes \in Requests, Allocate(bytes) PROVE Promise!Next
    BY <2>2, AllocateKeepsPromise DEF Promise!Next
  <2>3. ASSUME NEW id \in DOMAIN allocated, Deallocate(id) PROVE Promise!Next
    BY <2>3, DeallocateKeepsPromise DEF Promise!Next
  <2>4. CASE UNCHANGED vars
    BY <2>4 DEF vars, Promise!vars
  <2> QED
    BY <2>1, <2>2, <2>3, <2>4 DEF Next
<1>3. IInv => [Enough]_vars
  BY AllocateGivesEnough
<1> QED
  BY <1>1, <1>2, <1>3, Invariant, PTL
     DEF Spec, KeepsPromise, LargeEnough, Promise!Spec
=============================================================================
