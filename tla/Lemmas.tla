--------------------------------- MODULE Lemmas ---------------------------------
(***************************************************************************)
(* What several proofs need to know of natural numbers, powers of two,     *)
(* lists and sums.                                                         *)
(***************************************************************************)
EXTENDS StdList, Sums, FiniteSetTheorems, FunctionTheorems,
        WellFoundedInduction, TLAPS

LEMMA OneMember ==
  ASSUME NEW S, NEW x \in S, \A y \in S : y = x
  PROVE  Cardinality(S) = 1
<1>1. S = {x}
  OBVIOUS
<1> QED
  BY <1>1, FS_Singleton

-----------------------------------------------------------------------------
(* Natural numbers.                                                        *)

LEMMA LeastNat ==
  ASSUME NEW S \in SUBSET Nat, S # {}
  PROVE  \E x \in S : \A y \in S : x <= y
<1> DEFINE R == OpToRel(<, Nat)
<1>1. IsWellFoundedOn(R, Nat)
  BY NatLessThanWellFounded
<1>2. \A x, y \in Nat : <<y, x>> \in R <=> y < x
  BY DEF OpToRel
<1> HIDE DEF R
<1>3. PICK x \in S : \A y \in S : ~ (<<y, x>> \in R)
  BY <1>1, WFMin
<1>4. \A y \in S : x <= y
  <2> TAKE y \in S
  <2>1. ~ (y < x) /\ x \in Nat /\ y \in Nat
    BY <1>2, <1>3
  <2> QED
    BY <2>1
<1> QED
  BY <1>4

\* Induction, with the set of the numbers that have a property in its place.
LEMMA Induct ==
  ASSUME NEW S, 0 \in S, \A n \in Nat : n \in S => n + 1 \in S
  PROVE  Nat \subseteq S
<1> DEFINE T == Nat \ S
<1>1. SUFFICES ASSUME T # {} PROVE FALSE
  OBVIOUS
<1>2. PICK x \in T : \A y \in T : x <= y
  BY <1>1, LeastNat
<1>3. x # 0 /\ x - 1 \in Nat
  BY <1>2
<1>4. x - 1 \notin T
  BY <1>2, <1>3
<1> QED
  BY <1>3, <1>4

LEMMA Division ==
  ASSUME NEW m \in Nat, NEW q \in Nat \ {0}, NEW r \in 0 .. q - 1
  PROVE  (m * q + r) \div q = m /\ (m * q + r) % q = r
<1> DEFINE x == m * q + r
           d == x \div q
<1>1. x \in Nat
  OBVIOUS
<1>2. d \in Int /\ x % q \in 0 .. q - 1 /\ x = q * d + (x % q)
  BY <1>1
<1>3. q * (m - d) = (x % q) - r
  BY <1>2
<1> HIDE DEF d, x
<1>4. ~ (m - d >= 1)
  <2> SUFFICES ASSUME m - d >= 1 PROVE FALSE
    OBVIOUS
  <2>1. q * (m - d) >= q
    BY <1>2
  <2> QED
    BY <1>2, <1>3, <2>1
<1>5. ~ (m - d <= -1)
  <2> SUFFICES ASSUME m - d <= -1 PROVE FALSE
    OBVIOUS
  <2>1. q * (m - d) <= -q
    BY <1>2
  <2> QED
    BY <1>2, <1>3, <2>1
<1>6. d = m
  BY <1>2, <1>4, <1>5
<1>7. x % q = r
  BY <1>3, <1>6, <1>2
<1> QED
  BY <1>6, <1>7 DEF x, d

LEMMA Spaced ==
  ASSUME NEW a \in Nat, NEW b \in Nat, NEW k \in Nat, a < b
  PROVE  a * k + k <= b * k /\ a * k \in Nat /\ b * k \in Nat
<1>1. PICK d \in Nat : b = a + 1 + d
  <2>1. b - a - 1 \in Nat /\ b = a + 1 + (b - a - 1)
    OBVIOUS
  <2> QED
    BY <2>1
<1>2. b * k = a * k + k + d * k /\ d * k \in Nat /\ a * k \in Nat
  BY <1>1
<1> QED
  BY <1>2

\* Division by a product, one factor after the other.
LEMMA DivisionTwice ==
  ASSUME NEW u \in Nat, NEW a \in Nat \ {0}, NEW b \in Nat \ {0}
  PROVE  u \div (a * b) = (u \div a) \div b
<1> DEFINE q == u \div a
           r == u % a
           m == q \div b
           s == q % b
<1>1. q \in Nat /\ r \in 0 .. a - 1 /\ u = q * a + r
  OBVIOUS
<1>2. m \in Nat /\ s \in 0 .. b - 1 /\ q = m * b + s
  BY <1>1
<1> HIDE DEF q, r, m, s
<1>3. s * a + a <= b * a /\ s * a \in Nat /\ b * a \in Nat
  BY <1>2, Spaced
<1>4. s * a + r \in 0 .. a * b - 1 /\ a * b \in Nat \ {0}
  BY <1>1, <1>2, <1>3
<1>5. u = m * (a * b) + (s * a + r)
  BY <1>1, <1>2
<1>6. (m * (a * b) + (s * a + r)) \div (a * b) = m
  BY <1>2, <1>4, Division
<1> QED
  BY <1>5, <1>6 DEF q, m

-----------------------------------------------------------------------------
(* Powers of two: 2 ^ k is the number of subsets of 1 .. k.                 *)

LEMMA PowIsSubsets ==
  ASSUME NEW k \in Nat
  PROVE  IsFiniteSet(SUBSET (1 .. k)) /\ Cardinality(SUBSET (1 .. k)) = 2 ^ k
<1>1. IsFiniteSet(1 .. k) /\ Cardinality(1 .. k) = k
  BY FS_Interval
<1> QED
  BY <1>1, FS_SUBSET

LEMMA PowPositive ==
  ASSUME NEW k \in Nat
  PROVE  2 ^ k \in Nat \ {0}
<1>1. 2 ^ k \in Nat
  BY PowIsSubsets, FS_CardinalityType
<1>2. SUBSET (1 .. k) # {}
  BY {} \in SUBSET (1 .. k)
<1>3. 2 ^ k # 0
  BY <1>2, PowIsSubsets, FS_EmptySet
<1> QED
  BY <1>1, <1>3

LEMMA PowMonotone ==
  ASSUME NEW i \in Nat, NEW j \in Nat, i <= j
  PROVE  2 ^ i <= 2 ^ j
<1> DEFINE S == SUBSET (1 .. i)
           T == SUBSET (1 .. j)
<1>1. S \in SUBSET T
  OBVIOUS
<1>2. /\ IsFiniteSet(T) /\ Cardinality(T) = 2 ^ j
      /\ Cardinality(S) = 2 ^ i
  BY PowIsSubsets
<1> HIDE DEF S, T
<1>3. Cardinality(S) <= Cardinality(T)
  BY <1>1, <1>2, FS_Subset
<1> QED
  BY <1>2, <1>3

\* Half of the subsets of 1 .. k + 1 have the number k + 1.
LEMMA PowDoubles ==
  ASSUME NEW k \in Nat
  PROVE  2 ^ (k + 1) = 2 ^ k + 2 ^ k
<1> DEFINE S == SUBSET (1 .. k)
           T == {s \cup {k + 1} : s \in S}
           f == [s \in S |-> s \cup {k + 1}]
<1>1. SUBSET (1 .. k + 1) = S \cup T
  <2>1. ASSUME NEW s \in SUBSET (1 .. k + 1) PROVE s \in S \cup T
    <3>1. CASE k + 1 \in s
      <4>1. s \ {k + 1} \in S /\ s = (s \ {k + 1}) \cup {k + 1}
        BY <3>1
      <4> QED
        BY <4>1
    <3>2. CASE k + 1 \notin s
      BY <3>2
    <3> QED
      BY <3>1, <3>2
  <2>2. \A s \in S : s \in SUBSET (1 .. k + 1) /\ s \cup {k + 1} \in SUBSET (1 .. k + 1)
    OBVIOUS
  <2> HIDE DEF S
  <2>3. \A u \in T : u \in SUBSET (1 .. k + 1)
    BY <2>2
  <2> HIDE DEF T
  <2> QED
    BY <2>1, <2>2, <2>3
<1>2. S \cap T = {}
  <2>1. \A s \in S : k + 1 \notin s
    OBVIOUS
  <2> QED
    BY <2>1
<1>3. f \in Bijection(S, T)
  <2>1. f \in [S -> T]
    OBVIOUS
  <2>2. \A s, t \in S : f[s] = f[t] => s = t
    <3> SUFFICES ASSUME NEW s \in S, NEW t \in S, s \cup {k + 1} = t \cup {k + 1}
                 PROVE  s = t
      OBVIOUS
    <3>1. k + 1 \notin s /\ k + 1 \notin t
      OBVIOUS
    <3> QED
      BY <3>1
  <2>3. \A u \in T : \E s \in S : f[s] = u
    OBVIOUS
  <2> QED
    BY <2>1, <2>2, <2>3 DEF Bijection, Injection, Surjection, IsInjective
<1>4. IsFiniteSet(S) /\ Cardinality(S) = 2 ^ k
  BY PowIsSubsets
<1>5. Cardinality(SUBSET (1 .. k + 1)) = 2 ^ (k + 1)
  <2>1. k + 1 \in Nat
    OBVIOUS
  <2> QED
    BY <2>1, PowIsSubsets
<1> HIDE DEF S, T, f
<1>6. IsFiniteSet(T) /\ Cardinality(T) = 2 ^ k
  <2>1. ExistsBijection(S, T)
    BY <1>3 DEF ExistsBijection
  <2> QED
    BY <1>4, <2>1, FS_Bijection
<1>7. Cardinality(S \cup T) = Cardinality(S) + Cardinality(T)
  <2>1. Cardinality(S \cup T) = Cardinality(S) + Cardinality(T) - Cardinality(S \cap T)
    BY <1>4, <1>6, FS_Union
  <2>2. Cardinality(S \cap T) = 0 /\ Cardinality(S) \in Nat /\ Cardinality(T) \in Nat
    BY <1>2, <1>4, <1>6, FS_EmptySet, FS_CardinalityType
  <2> QED
    BY <2>1, <2>2
<1> QED
  BY <1>1, <1>4, <1>5, <1>6, <1>7

LEMMA PowAdds ==
  ASSUME NEW a \in Nat, NEW b \in Nat
  PROVE  2 ^ (a + b) = 2 ^ a * 2 ^ b
<1> DEFINE S == {n \in Nat : 2 ^ (a + n) = 2 ^ a * 2 ^ n}
<1>1. 0 \in S
  <2>1. 2 ^ 0 = 1 /\ 2 ^ a \in Nat /\ a + 0 = a
    BY PowPositive
  <2> QED
    BY <2>1
<1>2. ASSUME NEW n \in Nat, n \in S PROVE n + 1 \in S
  <2>1. 2 ^ (n + 1) = 2 ^ n + 2 ^ n
    BY PowDoubles
  <2>2. a + n \in Nat /\ a + (n + 1) = (a + n) + 1
    OBVIOUS
  <2>3. 2 ^ ((a + n) + 1) = 2 ^ (a + n) + 2 ^ (a + n)
    BY <2>2, PowDoubles
  <2>4. 2 ^ a \in Nat /\ 2 ^ n \in Nat
    BY PowPositive
  <2>5. 2 ^ a * (2 ^ n + 2 ^ n) = 2 ^ a * 2 ^ n + 2 ^ a * 2 ^ n
    BY <2>4
  <2>6. 2 ^ (a + n) = 2 ^ a * 2 ^ n
    BY <1>2
  <2> QED
    BY <2>1, <2>2, <2>3, <2>5, <2>6
<1> HIDE DEF S
<1>3. b \in S
  BY <1>1, <1>2, Induct
<1> QED
  BY <1>3 DEF S

-----------------------------------------------------------------------------
(* Lists.                                                                  *)

\* A list without repeats that has exactly the members of S.
Lists(seq, S) == seq \in Seq(Nat) /\ In(seq) = S /\ NoRepeats(seq)

LEMMA EmptyLists == Lists(<<>>, {})
BY DEF Lists, In, NoRepeats

LEMMA AppendLists ==
  ASSUME NEW seq, NEW S, Lists(seq, S), NEW e \in Nat, e \notin S
  PROVE  Lists(Append(seq, e), S \cup {e})
<1> DEFINE new == Append(seq, e)
<1>1. /\ seq \in Seq(Nat) /\ Len(seq) \in Nat /\ DOMAIN seq = 1 .. Len(seq)
      /\ new \in Seq(Nat) /\ DOMAIN new = 1 .. Len(seq) + 1
      /\ new[Len(seq) + 1] = e
      /\ \A i \in DOMAIN seq : new[i] = seq[i]
  BY DEF Lists
<1>2. \A i \in DOMAIN seq : seq[i] # e
  BY DEF Lists, In
<1> HIDE DEF new
<1>3. \A i \in DOMAIN new : i \in DOMAIN seq \/ i = Len(seq) + 1
  BY <1>1
<1>4. In(new) = S \cup {e}
  <2>1. \A x \in In(new) : x \in S \cup {e}
    BY <1>1, <1>3 DEF Lists, In
  <2>2. \A x \in S : x \in In(new)
    BY <1>1 DEF Lists, In
  <2>3. e \in In(new)
    BY <1>1 DEF In
  <2> QED
    BY <2>1, <2>2, <2>3
<1>5. NoRepeats(new)
  BY <1>1, <1>2, <1>3 DEF Lists, NoRepeats
<1> QED
  BY <1>1, <1>4, <1>5 DEF Lists, new

LEMMA PrependLists ==
  ASSUME NEW seq, NEW S, Lists(seq, S), NEW e \in Nat, e \notin S
  PROVE  Lists(<<e>> \o seq, S \cup {e})
<1> DEFINE new == <<e>> \o seq
<1>1. /\ seq \in Seq(Nat) /\ Len(seq) \in Nat /\ DOMAIN seq = 1 .. Len(seq)
      /\ new \in Seq(Nat) /\ DOMAIN new = 1 .. Len(seq) + 1
      /\ new[1] = e
      /\ \A i \in DOMAIN new : i # 1 => i - 1 \in DOMAIN seq /\ new[i] = seq[i - 1]
      /\ \A i \in DOMAIN seq : i + 1 \in DOMAIN new /\ new[i + 1] = seq[i]
  BY DEF Lists
<1> HIDE DEF new
<1>2. \A i \in DOMAIN seq : seq[i] # e
  BY DEF Lists, In
<1>3. In(new) = S \cup {e}
  <2>1. \A x \in In(new) : x \in S \cup {e}
    <3> SUFFICES ASSUME NEW i \in DOMAIN new PROVE new[i] \in S \cup {e}
      BY DEF In
    <3>1. i # 1 => new[i] \in S
      BY <1>1 DEF Lists, In
    <3> QED
      BY <1>1, <3>1
  <2>2. \A x \in S : x \in In(new)
    BY <1>1 DEF Lists, In
  <2>3. e \in In(new)
    <3>1. 1 \in DOMAIN new
      BY <1>1
    <3> QED
      BY <1>1, <3>1 DEF In
  <2> QED
    BY <2>1, <2>2, <2>3
<1>4. NoRepeats(new)
  <2> SUFFICES ASSUME NEW i \in DOMAIN new, NEW j \in DOMAIN new, new[i] = new[j]
               PROVE  i = j
    BY DEF NoRepeats
  <2>1. CASE i = 1 \/ j = 1
    BY <1>1, <1>2, <2>1
  <2>2. CASE i # 1 /\ j # 1
    <3>1. i - 1 = j - 1
      BY <1>1, <2>2 DEF Lists, NoRepeats
    <3> QED
      BY <1>1, <3>1
  <2> QED
    BY <2>1, <2>2
<1> QED
  BY <1>1, <1>3, <1>4 DEF Lists, new

LEMMA TailLists ==
  ASSUME NEW seq, NEW S, Lists(seq, S), seq # <<>>
  PROVE  Head(seq) \in S /\ Lists(Tail(seq), S \ {Head(seq)})
<1> DEFINE new == Tail(seq)
           h == Head(seq)
<1>1. /\ seq \in Seq(Nat) /\ Len(seq) \in Nat \ {0} /\ DOMAIN seq = 1 .. Len(seq)
      /\ new \in Seq(Nat) /\ DOMAIN new = 1 .. Len(seq) - 1
      /\ h = seq[1] /\ 1 \in DOMAIN seq
      /\ \A i \in DOMAIN new : new[i] = seq[i + 1] /\ i + 1 \in DOMAIN seq
  BY DEF Lists
<1> HIDE DEF new, h
<1>2. h \in S
  BY <1>1 DEF Lists, In
<1>3. \A i \in DOMAIN seq : seq[i] = h => i = 1
  BY <1>1 DEF Lists, NoRepeats
<1>4. In(new) = S \ {h}
  <2>1. \A x \in In(new) : x \in S /\ x # h
    <3> SUFFICES ASSUME NEW i \in DOMAIN new PROVE new[i] \in S /\ new[i] # h
      BY DEF In
    <3>1. new[i] = seq[i + 1] /\ i + 1 \in DOMAIN seq /\ i + 1 # 1
      BY <1>1
    <3> QED
      BY <1>3, <3>1 DEF Lists, In
  <2>2. \A x \in S : x # h => x \in In(new)
    <3> SUFFICES ASSUME NEW i \in DOMAIN seq, seq[i] # h PROVE seq[i] \in In(new)
      BY DEF Lists, In
    <3>1. i - 1 \in DOMAIN new /\ new[i - 1] = seq[i]
      BY <1>1
    <3> QED
      BY <3>1 DEF In
  <2> QED
    BY <2>1, <2>2
<1>5. NoRepeats(new)
  <2> SUFFICES ASSUME NEW i \in DOMAIN new, NEW j \in DOMAIN new, new[i] = new[j]
               PROVE  i = j
    BY DEF NoRepeats
  <2>1. i + 1 = j + 1
    BY <1>1 DEF Lists, NoRepeats
  <2> QED
    BY <1>1, <2>1
<1> QED
  BY <1>1, <1>2, <1>4, <1>5 DEF Lists, new, h

LEMMA WithoutLists ==
  ASSUME NEW seq, NEW S, Lists(seq, S), NEW e \in S
  PROVE  Lists(Without(seq, e), S \ {e})
<1> DEFINE k == CHOOSE i \in DOMAIN seq : seq[i] = e
           new == Without(seq, e)
<1>1. seq \in Seq(Nat) /\ Len(seq) \in Nat /\ DOMAIN seq = 1 .. Len(seq)
  BY DEF Lists
<1>2. \E i \in DOMAIN seq : seq[i] = e
  BY DEF Lists, In
<1>3. k \in DOMAIN seq /\ seq[k] = e
  BY <1>2
<1>4. new = [j \in 1 .. Len(seq) - 1 |-> IF j < k THEN seq[j] ELSE seq[j + 1]]
  BY <1>2 DEF Without
<1> HIDE DEF k, new
<1>5. \A i \in DOMAIN seq : seq[i] = e => i = k
  BY <1>3 DEF Lists, NoRepeats
<1>6. \A i \in DOMAIN seq : seq[i] \in Nat
  BY <1>1
<1>7. DOMAIN new = 1 .. Len(seq) - 1 /\ Len(seq) - 1 \in Nat
  BY <1>1, <1>3, <1>4
<1> DEFINE at(j) == IF j < k THEN j ELSE j + 1
<1>8. \A j \in DOMAIN new : /\ at(j) \in DOMAIN seq /\ at(j) # k
                            /\ new[j] = seq[at(j)]
  BY <1>1, <1>3, <1>4, <1>7
<1>9. new \in Seq(Nat)
  <2>1. \A j \in 1 .. Len(seq) - 1 : new[j] \in Nat
    BY <1>6, <1>7, <1>8
  <2>2. new \in [1 .. Len(seq) - 1 -> Nat]
    BY <1>4, <1>7, <2>1
  <2> QED
    BY <1>7, <2>2
<1>10. In(new) = S \ {e}
  <2>1. \A x \in In(new) : x \in S /\ x # e
    BY <1>5, <1>8 DEF Lists, In
  <2>2. ASSUME NEW i \in DOMAIN seq, seq[i] # e PROVE seq[i] \in In(new)
    <3>1. CASE i < k
      <4>1. i \in DOMAIN new /\ new[i] = seq[i]
        BY <1>1, <1>3, <1>7, <1>8, <3>1
      <4> QED
        BY <4>1 DEF In
    <3>2. CASE ~(i < k)
      <4>1. i - 1 \in DOMAIN new /\ at(i - 1) = i
        BY <1>1, <1>3, <1>7, <2>2, <3>2
      <4> QED
        BY <1>8, <4>1 DEF In
    <3> QED
      BY <3>1, <3>2
  <2> QED
    BY <2>1, <2>2 DEF Lists, In
<1>11. NoRepeats(new)
  <2> SUFFICES ASSUME NEW i \in DOMAIN new, NEW j \in DOMAIN new, new[i] = new[j]
               PROVE  i = j
    BY DEF NoRepeats
  <2>1. at(i) = at(j)
    BY <1>8 DEF Lists, NoRepeats
  <2> QED
    BY <1>1, <1>3, <1>7, <2>1
<1> QED
  BY <1>9, <1>10, <1>11 DEF Lists, new

LEMMA ListsIn ==
  ASSUME NEW seq, NEW S, Lists(seq, S), NEW T, S \subseteq T
  PROVE  seq \in Seq(T)
<1>1. seq \in [1 .. Len(seq) -> Nat] /\ Len(seq) \in Nat /\ DOMAIN seq = 1 .. Len(seq)
  BY DEF Lists
<1>2. \A i \in 1 .. Len(seq) : seq[i] \in T
  BY <1>1 DEF Lists, In
<1>3. seq \in [1 .. Len(seq) -> T]
  BY <1>1, <1>2
<1> QED
  BY <1>1, <1>3

-----------------------------------------------------------------------------
(* The order in a list.                                                    *)

\* Taking a member out leaves the others in the order they are in.
LEMMA WithoutOrder ==
  ASSUME NEW seq \in Seq(Nat), NEW e
  PROVE  /\ Without(seq, e) \in Seq(Nat)
         /\ \A x \in In(seq) : x # e => x \in In(Without(seq, e))
         /\ \A x, y \in In(seq) : x # e /\ y # e /\ Before(seq, x, y) =>
              Before(Without(seq, e), x, y)
<1> DEFINE k == CHOOSE i \in DOMAIN seq : seq[i] = e
           new == Without(seq, e)
<1>1. Len(seq) \in Nat /\ DOMAIN seq = 1 .. Len(seq)
  OBVIOUS
<1>2. CASE ~\E i \in DOMAIN seq : seq[i] = e
  BY <1>2 DEF Without
<1>3. CASE \E i \in DOMAIN seq : seq[i] = e
  <2>1. k \in DOMAIN seq /\ seq[k] = e
    BY <1>3
  <2>2. new = [j \in 1 .. Len(seq) - 1 |-> IF j < k THEN seq[j] ELSE seq[j + 1]]
    BY <1>3 DEF Without
  <2> HIDE DEF k, new
  <2> DEFINE to(i) == IF i < k THEN i ELSE i - 1
  <2>3. ASSUME NEW i \in DOMAIN seq, seq[i] # e
        PROVE  to(i) \in DOMAIN new /\ new[to(i)] = seq[i]
    <3>1. i # k
      BY <2>1, <2>3
    <3>2. CASE i < k
      <4>1. i \in 1 .. Len(seq) - 1 /\ to(i) = i
        BY <1>1, <2>1, <3>2
      <4> QED
        BY <2>2, <3>2, <4>1
    <3>3. CASE ~(i < k)
      <4>1. i - 1 \in 1 .. Len(seq) - 1 /\ ~(i - 1 < k) /\ (i - 1) + 1 = i
        BY <1>1, <2>1, <3>1, <3>3
      <4>2. to(i) = i - 1
        BY <3>3
      <4> QED
        BY <2>2, <4>1, <4>2
    <3> QED
      BY <3>2, <3>3
  <2>4. \A i, j \in DOMAIN seq : i < j /\ i # k /\ j # k => to(i) < to(j)
    BY <1>1, <2>1
  <2>5. new \in Seq(Nat)
    <3>1. \A j \in 1 .. Len(seq) - 1 : new[j] \in Nat
      BY <1>1, <2>1, <2>2
    <3>2. Len(seq) - 1 \in Nat
      BY <1>1, <2>1
    <3>3. new \in [1 .. Len(seq) - 1 -> Nat]
      BY <2>2, <3>1
    <3> QED
      BY <3>2, <3>3
  <2> HIDE DEF to
  <2>6. \A x \in In(seq) : x # e => x \in In(new)
    BY <2>3 DEF In
  <2>7. ASSUME NEW x \in In(seq), NEW y \in In(seq), x # e, y # e, Before(seq, x, y)
        PROVE  Before(new, x, y)
    <3>1. PICK i, j \in DOMAIN seq : i < j /\ seq[i] = x /\ seq[j] = y
      BY <2>7 DEF Before
    <3>2. i # k /\ j # k
      BY <2>1, <2>7, <3>1
    <3>3. to(i) < to(j)
      BY <2>4, <3>1, <3>2
    <3>4. /\ to(i) \in DOMAIN new /\ new[to(i)] = x
          /\ to(j) \in DOMAIN new /\ new[to(j)] = y
      BY <2>3, <2>7, <3>1
    <3> QED
      BY <3>3, <3>4 DEF Before
  <2> QED
    BY <2>5, <2>6, <2>7 DEF new
<1> QED
  BY <1>2, <1>3

LEMMA PrependOrder ==
  ASSUME NEW seq \in Seq(Nat), NEW e \in Nat
  PROVE  LET new == <<e>> \o seq IN
         /\ new \in Seq(Nat) /\ new # <<>> /\ Head(new) = e
         /\ e \in In(new) /\ In(seq) \subseteq In(new)
         /\ \A y \in In(seq) : Before(new, e, y)
         /\ \A x, y \in In(seq) : Before(seq, x, y) => Before(new, x, y)
<1> DEFINE new == <<e>> \o seq
<1>1. /\ Len(seq) \in Nat /\ DOMAIN seq = 1 .. Len(seq)
      /\ new \in Seq(Nat) /\ DOMAIN new = 1 .. Len(seq) + 1
      /\ new[1] = e /\ new # <<>> /\ Head(new) = e
      /\ \A i \in DOMAIN seq : i + 1 \in DOMAIN new /\ new[i + 1] = seq[i]
  OBVIOUS
<1> HIDE DEF new
<1>2. 1 \in DOMAIN new
  BY <1>1
<1>3. e \in In(new) /\ In(seq) \subseteq In(new)
  BY <1>1, <1>2 DEF In
<1>4. ASSUME NEW y \in In(seq) PROVE Before(new, e, y)
  <2>1. PICK i \in DOMAIN seq : seq[i] = y
    BY DEF In
  <2>2. 1 < i + 1
    BY <1>1
  <2> QED
    BY <1>1, <1>2, <2>1, <2>2 DEF Before
<1>5. ASSUME NEW x, NEW y, Before(seq, x, y) PROVE Before(new, x, y)
  <2>1. PICK i, j \in DOMAIN seq : i < j /\ seq[i] = x /\ seq[j] = y
    BY <1>5 DEF Before
  <2>2. i + 1 < j + 1
    BY <1>1, <2>1
  <2> QED
    BY <1>1, <2>1, <2>2 DEF Before
<1> QED
  BY <1>1, <1>3, <1>4, <1>5 DEF new

-----------------------------------------------------------------------------
(* Sums.                                                                   *)

\* The units of a sum.
LEMMA UnitsAre ==
  ASSUME NEW S, IsFiniteSet(S), NEW f \in [S -> Nat]
  PROVE  /\ IsFiniteSet(Units(f)) /\ Total(f) \in Nat
         /\ \A p : p \in Units(f) <=> \E x \in S : \E i \in 1 .. f[x] : p = <<x, i>>
<1> DEFINE Of(x) == {x} \X (1 .. f[x])
           All == {Of(x) : x \in S}
<1>1. \A x \in S : IsFiniteSet(Of(x))
  <2> TAKE x \in S
  <2>1. IsFiniteSet({x})
    BY FS_Singleton
  <2>2. IsFiniteSet(1 .. f[x])
    BY FS_Interval
  <2> QED
    BY <2>1, <2>2, FS_Product
<1>2. IsFiniteSet(All)
  <2>1. [x \in S |-> Of(x)] \in Surjection(S, All)
    BY DEF Surjection
  <2> QED
    BY <2>1, FS_Surjection
<1>3. Units(f) = UNION All
  BY DEF Units
<1>4. \A p : p \in UNION All <=> \E x \in S : \E i \in 1 .. f[x] : p = <<x, i>>
  OBVIOUS
<1> HIDE DEF Of
<1>5. \A T \in All : IsFiniteSet(T)
  BY <1>1
<1> HIDE DEF All
<1>6. IsFiniteSet(UNION All)
  BY <1>2, <1>5, FS_UNION
<1> QED
  BY <1>3, <1>4, <1>6, FS_CardinalityType DEF Total

\* A sum and one of its numbers.
LEMMA TotalWithout ==
  ASSUME NEW S, IsFiniteSet(S), NEW f \in [S -> Nat], NEW x \in S,
         NEW rest, rest = [y \in S \ {x} |-> f[y]]
  PROVE  Total(rest) \in Nat /\ Total(f) = f[x] + Total(rest)
<1> DEFINE Of == {x} \X (1 .. f[x])
<1>1. IsFiniteSet(S \ {x}) /\ rest \in [S \ {x} -> Nat]
  BY FS_RemoveElement
<1>2. /\ IsFiniteSet(Units(rest)) /\ Total(rest) \in Nat
      /\ \A p : p \in Units(rest) <=>
           \E y \in S \ {x} : \E i \in 1 .. rest[y] : p = <<y, i>>
  BY <1>1, UnitsAre
<1>3. \A p : p \in Units(f) <=> \E y \in S : \E i \in 1 .. f[y] : p = <<y, i>>
  BY UnitsAre
<1>4. \A y \in S \ {x} : rest[y] = f[y]
  OBVIOUS
<1>5. IsFiniteSet(Of) /\ Cardinality(Of) = f[x]
  <2>1. IsFiniteSet({x}) /\ Cardinality({x}) = 1
    BY FS_Singleton
  <2>2. IsFiniteSet(1 .. f[x]) /\ Cardinality(1 .. f[x]) = f[x]
    BY FS_Interval
  <2> DEFINE I == 1 .. f[x]
             X == {x}
  <2> HIDE DEF I, X
  <2>3. Cardinality(X \X I) = Cardinality(X) * Cardinality(I) /\ IsFiniteSet(X \X I)
    BY <2>1, <2>2, FS_Product DEF I, X
  <2>4. f[x] \in Nat
    OBVIOUS
  <2> QED
    BY <2>1, <2>2, <2>3, <2>4 DEF I, X
<1>6. \A p : p \in Of <=> \E i \in 1 .. f[x] : p = <<x, i>>
  OBVIOUS
<1> HIDE DEF Of
<1>7. Units(f) = Of \cup Units(rest)
  <2>1. ASSUME NEW p \in Units(f) PROVE p \in Of \cup Units(rest)
    <3>1. PICK y \in S, i \in Nat : i \in 1 .. f[y] /\ p = <<y, i>>
      BY <1>3
    <3>2. CASE y = x
      BY <3>1, <3>2, <1>6
    <3>3. CASE y # x
      BY <3>1, <3>3, <1>2, <1>4
    <3> QED
      BY <3>2, <3>3
  <2>2. ASSUME NEW p \in Of PROVE p \in Units(f)
    BY <1>3, <1>6
  <2>3. ASSUME NEW p \in Units(rest) PROVE p \in Units(f)
    BY <1>2, <1>3, <1>4
  <2> QED
    BY <2>1, <2>2, <2>3
<1>8. Of \cap Units(rest) = {}
  BY <1>2, <1>6
<1>9. Total(f) = Cardinality(Of) + Total(rest) - Cardinality({})
  <2>1. Cardinality(Of \cup Units(rest))
          = Cardinality(Of) + Cardinality(Units(rest)) - Cardinality(Of \cap Units(rest))
    BY <1>2, <1>5, FS_Union
  <2> QED
    BY <1>7, <1>8, <2>1 DEF Total
<1> QED
  BY <1>2, <1>5, <1>9, FS_EmptySet

LEMMA TotalRest ==
  ASSUME NEW S, IsFiniteSet(S), NEW f \in [S -> Nat], NEW x \in S,
         NEW g \in [S \ {x} -> Nat], \A y \in S \ {x} : g[y] = f[y]
  PROVE  Total(g) \in Nat /\ Total(f) = f[x] + Total(g)
<1>1. g = [y \in S \ {x} |-> f[y]]
  OBVIOUS
<1> QED
  BY <1>1, TotalWithout

\* Two sums that differ in one of the numbers.
LEMMA TotalDiffers ==
  ASSUME NEW S, IsFiniteSet(S), NEW f \in [S -> Nat], NEW g \in [S -> Nat],
         NEW x \in S, \A y \in S \ {x} : f[y] = g[y]
  PROVE  Total(f) \in Nat /\ Total(g) \in Nat /\ Total(f) + g[x] = Total(g) + f[x]
<1> DEFINE rest == [y \in S \ {x} |-> f[y]]
<1>1. rest = [y \in S \ {x} |-> f[y]] /\ rest = [y \in S \ {x} |-> g[y]]
  OBVIOUS
<1> HIDE DEF rest
<1>2. Total(rest) \in Nat /\ Total(f) = f[x] + Total(rest)
  BY <1>1, TotalWithout
<1>3. Total(g) = g[x] + Total(rest)
  BY <1>1, TotalWithout
<1>4. f[x] \in Nat /\ g[x] \in Nat
  OBVIOUS
<1> QED
  BY <1>1, <1>2, <1>3, <1>4

\* A sum of equal numbers.
LEMMA TotalConstant ==
  ASSUME NEW S, IsFiniteSet(S), NEW n \in Nat
  PROVE  Total([x \in S |-> n]) = Cardinality(S) * n
<1> DEFINE f == [x \in S |-> n]
<1>1. f \in [S -> Nat] /\ \A x \in S : f[x] = n
  OBVIOUS
<1>2. \A p : p \in Units(f) <=> \E x \in S : \E i \in 1 .. f[x] : p = <<x, i>>
  BY <1>1, UnitsAre
<1>3. Units(f) = S \X (1 .. n)
  BY <1>1, <1>2
<1>4. IsFiniteSet(1 .. n) /\ Cardinality(1 .. n) = n
  BY FS_Interval
<1> QED
  BY <1>3, <1>4, FS_Product DEF Total

\* A sum of sums.
LEMMA TotalAdds ==
  ASSUME NEW S, IsFiniteSet(S),
         NEW f \in [S -> Nat], NEW g \in [S -> Nat], NEW h \in [S -> Nat],
         \A x \in S : h[x] = f[x] + g[x]
  PROVE  /\ Total(f) \in Nat /\ Total(g) \in Nat
         /\ Total(h) = Total(f) + Total(g)
<1> DEFINE Above == {p \in Units(h) : p[2] > f[p[1]]}
           move == [p \in Units(g) |-> <<p[1], f[p[1]] + p[2]>>]
<1>1. /\ IsFiniteSet(Units(f)) /\ Total(f) \in Nat
      /\ \A p : p \in Units(f) <=> \E x \in S : \E i \in 1 .. f[x] : p = <<x, i>>
  BY UnitsAre
<1>2. /\ IsFiniteSet(Units(g)) /\ Total(g) \in Nat
      /\ \A p : p \in Units(g) <=> \E x \in S : \E i \in 1 .. g[x] : p = <<x, i>>
  BY UnitsAre
<1>3. \A p : p \in Units(h) <=> \E x \in S : \E i \in 1 .. h[x] : p = <<x, i>>
  BY UnitsAre
<1>4. Units(h) = Units(f) \cup Above /\ Units(f) \cap Above = {}
  <2>1. ASSUME NEW p \in Units(f) PROVE p \in Units(h) /\ p \notin Above
    <3>1. PICK x \in S, i \in Nat : i \in 1 .. f[x] /\ p = <<x, i>>
      BY <1>1
    <3>2. i \in 1 .. h[x] /\ ~(i > f[x])
      BY <3>1
    <3> QED
      BY <3>1, <3>2, <1>3
  <2>2. ASSUME NEW p \in Units(h), p \notin Above PROVE p \in Units(f)
    <3>1. PICK x \in S, i \in Nat : i \in 1 .. h[x] /\ p = <<x, i>>
      BY <1>3
    <3>2. ~(i > f[x])
      BY <2>2, <3>1
    <3>3. i \in 1 .. f[x]
      BY <3>1, <3>2
    <3> QED
      BY <3>1, <3>3, <1>1
  <2> QED
    BY <2>1, <2>2
<1>5. move \in Bijection(Units(g), Above)
  <2>1. ASSUME NEW p \in Units(g) PROVE move[p] \in Above
    <3>1. PICK x \in S, i \in Nat : i \in 1 .. g[x] /\ p = <<x, i>>
      BY <1>2
    <3>2. f[x] + i \in 1 .. h[x] /\ f[x] + i > f[x] /\ move[p] = <<x, f[x] + i>>
      BY <3>1
    <3>3. move[p] \in Units(h)
      BY <3>2, <1>3
    <3> QED
      BY <3>2, <3>3
  <2>2. ASSUME NEW p \in Units(g), NEW q \in Units(g), move[p] = move[q] PROVE p = q
    <3>1. PICK x \in S, i \in Nat : i \in 1 .. g[x] /\ p = <<x, i>>
      BY <1>2
    <3>2. PICK y \in S, j \in Nat : j \in 1 .. g[y] /\ q = <<y, j>>
      BY <1>2
    <3>3. <<x, f[x] + i>> = <<y, f[y] + j>>
      BY <2>2, <3>1, <3>2
    <3>4. x = y /\ f[x] + i = f[x] + j
      BY <3>3
    <3>5. i = j
      BY <3>1, <3>2, <3>4
    <3> QED
      BY <3>1, <3>2, <3>4, <3>5
  <2>3. ASSUME NEW q \in Above PROVE \E p \in Units(g) : move[p] = q
    <3>1. PICK x \in S, i \in Nat : i \in 1 .. h[x] /\ q = <<x, i>>
      BY <1>3
    <3>2. i > f[x]
      BY <3>1
    <3>3. i - f[x] \in 1 .. g[x] /\ f[x] + (i - f[x]) = i
      BY <3>1, <3>2
    <3>4. <<x, i - f[x]>> \in Units(g)
      BY <3>3, <1>2
    <3>5. move[<<x, i - f[x]>>] = <<x, i>>
      BY <3>3, <3>4
    <3> QED
      BY <3>1, <3>4, <3>5
  <2>4. move \in [Units(g) -> Above]
    BY <2>1
  <2> QED
    BY <2>2, <2>3, <2>4 DEF Bijection, Injection, Surjection, IsInjective
<1> HIDE DEF Above, move
<1>6. IsFiniteSet(Above) /\ Cardinality(Above) = Total(g)
  <2>1. ExistsBijection(Units(g), Above)
    BY <1>5 DEF ExistsBijection
  <2> QED
    BY <1>2, <2>1, FS_Bijection DEF Total
<1>7. Total(h) = Total(f) + Total(g) - 0
  BY <1>1, <1>4, <1>6, FS_Union, FS_EmptySet DEF Total
<1> QED
  BY <1>1, <1>2, <1>7

\* The size of a union of sets that do not meet.
LEMMA TotalOfSizes ==
  ASSUME NEW S, IsFiniteSet(S), NEW A, NEW f \in [S -> Nat],
         \A x \in S : IsFiniteSet(A[x]) /\ Cardinality(A[x]) = f[x],
         \A x, y \in S : x # y => A[x] \cap A[y] = {},
         NEW all, \A e : e \in all <=> \E x \in S : e \in A[x]
  PROVE  IsFiniteSet(all) /\ Cardinality(all) = Total(f)
<1> DEFINE b == [x \in S |-> CHOOSE g : g \in Bijection(1 .. f[x], A[x])]
           member == [p \in Units(f) |-> b[p[1]][p[2]]]
<1>1. /\ IsFiniteSet(Units(f))
      /\ \A p : p \in Units(f) <=> \E x \in S : \E i \in 1 .. f[x] : p = <<x, i>>
  BY UnitsAre
<1>2. ASSUME NEW x \in S PROVE b[x] \in Bijection(1 .. f[x], A[x])
  <2>1. ExistsBijection(1 .. f[x], A[x])
    BY FS_CardinalityType
  <2>2. \E g : g \in Bijection(1 .. f[x], A[x])
    BY <2>1 DEF ExistsBijection
  <2> QED
    BY <2>2
<1>3. \A x \in S : \A i \in 1 .. f[x] : <<x, i>> \in Units(f) /\ member[<<x, i>>] = b[x][i]
  BY <1>1
<1> HIDE DEF b, member
<1>4. ASSUME NEW x \in S
      PROVE  /\ \A i \in 1 .. f[x] : b[x][i] \in A[x]
             /\ \A i, j \in 1 .. f[x] : b[x][i] = b[x][j] => i = j
             /\ \A e \in A[x] : \E i \in 1 .. f[x] : b[x][i] = e
  BY <1>2, Fun_BijectionProperties
<1>5. member \in Bijection(Units(f), all)
  <2>1. ASSUME NEW p \in Units(f) PROVE member[p] \in all
    <3>1. PICK x \in S, i \in Nat : i \in 1 .. f[x] /\ p = <<x, i>>
      BY <1>1
    <3> QED
      BY <3>1, <1>3, <1>4
  <2>2. ASSUME NEW p \in Units(f), NEW q \in Units(f), member[p] = member[q] PROVE p = q
    <3>1. PICK x \in S, i \in Nat : i \in 1 .. f[x] /\ p = <<x, i>>
      BY <1>1
    <3>2. PICK y \in S, j \in Nat : j \in 1 .. f[y] /\ q = <<y, j>>
      BY <1>1
    <3>3. b[x][i] = b[y][j] /\ b[x][i] \in A[x] /\ b[y][j] \in A[y]
      BY <2>2, <3>1, <3>2, <1>3, <1>4
    <3>4. x = y
      BY <3>3
    <3>5. i = j
      BY <3>1, <3>2, <3>3, <3>4, <1>4
    <3> QED
      BY <3>1, <3>2, <3>4, <3>5
  <2>3. ASSUME NEW e \in all PROVE \E p \in Units(f) : member[p] = e
    <3>1. PICK x \in S : e \in A[x]
      OBVIOUS
    <3>2. PICK i \in 1 .. f[x] : b[x][i] = e
      BY <3>1, <1>4
    <3> QED
      BY <3>2, <1>3
  <2>4. member \in [Units(f) -> all]
    <3>1. member = [p \in Units(f) |-> member[p]]
      BY DEF member
    <3> QED
      BY <2>1, <3>1
  <2> QED
    BY <2>2, <2>3, <2>4 DEF Bijection, Injection, Surjection, IsInjective
<1>6. ExistsBijection(Units(f), all)
  BY <1>5 DEF ExistsBijection
<1> QED
  BY <1>1, <1>6, FS_Bijection DEF Total
=============================================================================
