----------------------------- MODULE PipelineProofs -----------------------------
(***************************************************************************)
(* What holds of the caches, for every size and shape of the levels and    *)
(* every number of requests, of the lock of a set, and of the caches and   *)
(* the MMU together.                                                       *)
(***************************************************************************)
EXTENDS Pipeline, Lemmas

LEMMA Shapes ==
  ASSUME NEW l \in Levels
  PROVE  /\ BlockSize[l] \in Nat \ {0} /\ NumSets[l] \in Nat \ {0}
         /\ Associativity[l] \in Nat \ {0}
         /\ PageSize % BlockSize[l] = 0 /\ PageSize \in Nat \ {0}
BY CacheAssumption DEF Levels

LEMMA AddressType ==
  ASSUME NEW l \in Levels, NEW a \in Nat
  PROVE  /\ Block(l, a) \in Nat /\ SetOf(l, a) \in Sets(l)
         /\ Block(l, a) % NumSets[l] = SetOf(l, a)
<1>1. BlockSize[l] \in Nat \ {0} /\ NumSets[l] \in Nat \ {0}
  BY Shapes
<1>2. Block(l, a) \in Nat
  BY <1>1 DEF Block
<1>3. Block(l, a) % NumSets[l] \in 0 .. NumSets[l] - 1
  BY <1>1, <1>2
<1> QED
  BY <1>2, <1>3 DEF SetOf, Sets

-----------------------------------------------------------------------------
(* Types.  The counters are bounded by what the requests under way have    *)
(* still to do: the accesses of a level that a thread has before it.       *)

Left(l, step) ==
  CASE l = 2 /\ step = "probe2" -> 2
    [] l = 2 /\ step \in {"promote1", "writeback2"} -> 1
    [] l = 3 /\ step \in {"probe2", "probe3"} -> 2
    [] l = 3 /\ step \in {"promote2", "back1", "writeback3"} -> 1
    [] OTHER -> 0

Due(l) == {d \in Threads \X (1 .. 2) : d[2] <= Left(l, pc[d[1]])}

CountsInv ==
  \A l \in Levels :
    /\ IsFiniteSet(Due(l))
    /\ access_counter[l] + Cardinality(Due(l)) <= 2 * requests

LinesType ==
  /\ DOMAIN lines = Levels
  /\ \A l \in Levels : lines[l] \in [Sets(l) -> [Ways(l) -> Line]]

Requested == [address : Nat, write : BOOLEAN, evicted : Nat, ev_dirty : BOOLEAN]

TypesInv ==
  /\ LinesType
  /\ access_counter \in [Levels -> Nat]
  /\ recent \in [Levels -> Seq(Nat)]
  /\ policy \in Policies /\ requests \in 0 .. MaxRequests
  /\ unsaved \subseteq Addresses
  /\ req \in [Threads -> Requested]
  /\ DOMAIN pc = Threads

\* The way that insert() takes, if there is an invalid one, and else.
VictimIs(l, a, w) ==
  IF LineAt(l, a, w).valid
  THEN \A x \in Ways(l) :
         /\ LineAt(l, a, x).valid
         /\ Rank(LineAt(l, a, w)) <= Rank(LineAt(l, a, x))
         /\ x < w => Rank(LineAt(l, a, w)) < Rank(LineAt(l, a, x))
  ELSE \A x \in Ways(l) : x < w => LineAt(l, a, x).valid

LEMMA LineTyped ==
  ASSUME TypesInv, NEW l \in Levels, NEW a \in Nat, NEW w \in Ways(l)
  PROVE  LineAt(l, a, w) \in Line
<1>1. SetOf(l, a) \in Sets(l)
  BY AddressType
<1> QED
  BY <1>1 DEF TypesInv, LinesType, LineAt

LEMMA RankTyped ==
  ASSUME TypesInv, NEW line \in Line
  PROVE  Rank(line) \in Nat
<1>1. policy \in {"LRU", "FIFO", "LFU"}
  BY CacheAssumption DEF TypesInv
<1> QED
  BY <1>1 DEF Rank, Line

LEMMA VictimFound ==
  ASSUME TypesInv, NEW l \in Levels, NEW a \in Nat
  PROVE  Victim(l, a) \in Ways(l) /\ VictimIs(l, a, Victim(l, a))
<1> DEFINE invalid == {w \in Ways(l) : ~LineAt(l, a, w).valid}
           rank(w) == Rank(LineAt(l, a, w))
<1>1. Ways(l) # {} /\ Ways(l) \subseteq Nat
  <2>1. Associativity[l] \in Nat \ {0}
    BY Shapes
  <2>2. 0 \in Ways(l)
    BY <2>1 DEF Ways
  <2> QED
    BY <2>1, <2>2 DEF Ways
<1>2. \A w \in Ways(l) : rank(w) \in Nat
  BY LineTyped, RankTyped
<1> HIDE DEF rank
<1>3. \E w \in Ways(l) : VictimIs(l, a, w)
  <2>1. CASE invalid # {}
    <3>1. PICK w \in invalid : \A x \in invalid : w <= x
      BY <1>1, <2>1, LeastNat
    <3>2. \A x \in Ways(l) : x < w => LineAt(l, a, x).valid
      BY <1>1, <3>1
    <3> QED
      BY <3>1, <3>2 DEF VictimIs
  <2>2. CASE invalid = {}
    <3> DEFINE R == {rank(w) : w \in Ways(l)}
    <3>1. PICK r \in R : \A q \in R : r <= q
      <4>1. R \in SUBSET Nat /\ R # {}
        BY <1>1, <1>2
      <4> HIDE DEF R
      <4> QED
        BY <4>1, LeastNat
    <3> DEFINE L == {w \in Ways(l) : rank(w) = r}
    <3>2. PICK w \in L : \A x \in L : w <= x
      <4>1. L \in SUBSET Nat /\ L # {}
        BY <1>1, <3>1
      <4> HIDE DEF L
      <4> QED
        BY <4>1, LeastNat
    <3>3. \A x \in Ways(l) : rank(w) <= rank(x) /\ (x < w => rank(w) < rank(x))
      <4> TAKE x \in Ways(l)
      <4>1. rank(w) = r /\ r <= rank(x) /\ r \in Nat /\ rank(x) \in Nat
        BY <1>2, <3>1, <3>2
      <4>2. x < w => rank(x) # r
        BY <1>1, <3>2
      <4> QED
        BY <4>1, <4>2
    <3>4. \A x \in Ways(l) : LineAt(l, a, x).valid
      BY <2>2
    <3> QED
      BY <3>2, <3>3, <3>4 DEF VictimIs, rank
  <2> QED
    BY <2>1, <2>2
<1>4. Victim(l, a) = CHOOSE w \in Ways(l) : VictimIs(l, a, w)
  BY DEF Victim, VictimIs
<1> QED
  BY <1>3, <1>4

-----------------------------------------------------------------------------
(* What the calls of a level do to its lines.                              *)

\* access(): no line comes or goes, and the time of a hit is the latest.
Touched(l, a) ==
  \A k \in Levels : \A s \in Sets(k) : \A w \in Ways(k) :
    LET old == lines[k][s][w]
        new == lines'[k][s][w]
    IN  /\ new.valid = old.valid /\ new.block = old.block
        /\ new.last_access_time =
             IF k = l /\ s = SetOf(l, a) /\ FirstHolding(l, a, w)
             THEN access_counter'[l] ELSE old.last_access_time

LEMMA AccessTouches ==
  ASSUME TypesInv, NEW t \in Threads, NEW l \in Levels, NEW a \in Nat,
         NEW write \in BOOLEAN, Access(t, l, a, write)
  PROVE  Touched(l, a) /\ LinesType'
<1> DEFINE here == SetOf(l, a)
           mark(w, line) ==
             IF FirstHolding(l, a, w)
             THEN Marked(line, access_counter'[l], write) ELSE line
<1>1. here \in Sets(l)
  BY AddressType
<1>2. DOMAIN lines = Levels /\ \A k \in Levels : lines[k] \in [Sets(k) -> [Ways(k) -> Line]]
  BY DEF TypesInv, LinesType
<1>3. access_counter'[l] \in Nat
  <2>1. access_counter \in [Levels -> Nat]
    BY DEF TypesInv
  <2>2. \/ access_counter' = [access_counter EXCEPT ![l] = @ + 1]
        \/ access_counter' = access_counter
    BY DEF Access, Count
  <2> QED
    BY <2>1, <2>2
<1>4. lines' = [lines EXCEPT ![l][here] = [w \in Ways(l) |-> mark(w, lines[l][here][w])]]
  BY DEF Access
<1>5. ASSUME NEW w \in Ways(l), NEW line \in Line
      PROVE  /\ mark(w, line) \in Line
             /\ mark(w, line).valid = line.valid /\ mark(w, line).block = line.block
             /\ mark(w, line).last_access_time =
                  IF FirstHolding(l, a, w) THEN access_counter'[l] ELSE line.last_access_time
  <2>1. CASE FirstHolding(l, a, w)
    <3>1. (line.dirty \/ write) \in BOOLEAN /\ line.freq + 1 \in Nat
      BY DEF Line
    <3> QED
      BY <1>3, <2>1, <3>1 DEF Line, Marked
  <2>2. CASE ~FirstHolding(l, a, w)
    BY <2>2
  <2> QED
    BY <2>1, <2>2
<1> HIDE DEF mark, here
<1>6. /\ DOMAIN lines' = Levels
      /\ \A k \in Levels : k # l => lines'[k] = lines[k]
      /\ lines'[l] = [lines[l] EXCEPT ![here] = [w \in Ways(l) |-> mark(w, lines[l][here][w])]]
  BY <1>2, <1>4
<1>7. /\ \A s \in Sets(l) : s # here => lines'[l][s] = lines[l][s]
      /\ lines'[l][here] = [w \in Ways(l) |-> mark(w, lines[l][here][w])]
      /\ DOMAIN lines'[l] = Sets(l)
  BY <1>1, <1>2, <1>6
<1>8. lines'[l] \in [Sets(l) -> [Ways(l) -> Line]]
  <2>1. lines'[l][here] \in [Ways(l) -> Line]
    BY <1>1, <1>2, <1>5, <1>7
  <2>2. \A s \in Sets(l) : lines'[l][s] \in [Ways(l) -> Line]
    BY <1>2, <1>7, <2>1
  <2> QED
    BY <1>2, <1>6, <2>2
<1>9. LinesType'
  BY <1>2, <1>6, <1>8 DEF LinesType
<1>10. Touched(l, a)
  <2> SUFFICES ASSUME NEW k \in Levels, NEW s \in Sets(k), NEW w \in Ways(k)
               PROVE  LET old == lines[k][s][w]
                          new == lines'[k][s][w]
                      IN  /\ new.valid = old.valid /\ new.block = old.block
                          /\ new.last_access_time =
                               IF k = l /\ s = SetOf(l, a) /\ FirstHolding(l, a, w)
                               THEN access_counter'[l] ELSE old.last_access_time
    BY DEF Touched
  <2>1. CASE k = l /\ s = here
    <3>1. lines'[k][s][w] = mark(w, lines[k][s][w]) /\ lines[k][s][w] \in Line
      BY <1>1, <1>2, <1>7, <2>1
    <3> QED
      BY <1>5, <2>1, <3>1 DEF here
  <2>2. CASE ~(k = l /\ s = here)
    <3>1. lines'[k][s] = lines[k][s]
      BY <1>6, <1>7, <2>2
    <3> QED
      BY <2>2, <3>1 DEF here
  <2> QED
    BY <2>1, <2>2
<1> QED
  BY <1>9, <1>10

\* insert(): one line is the requested one now, every other stays.
Filled(l, a) ==
  /\ \A k \in Levels : \A s \in Sets(k) : \A w \in Ways(k) :
       ~(k = l /\ s = SetOf(l, a) /\ w = Victim(l, a)) => lines'[k][s][w] = lines[k][s][w]
  /\ LET new == lines'[l][SetOf(l, a)][Victim(l, a)] IN
     new.valid /\ new.block = Block(l, a) /\ new.last_access_time = access_counter[l]

LEMMA InsertFills ==
  ASSUME TypesInv, NEW l \in Levels, NEW a \in Nat, NEW write \in BOOLEAN,
         Insert(l, a, write)
  PROVE  Filled(l, a) /\ LinesType' /\ UNCHANGED <<access_counter, recent>>
<1> DEFINE here == SetOf(l, a)
           v == Victim(l, a)
           new == [valid |-> TRUE, dirty |-> write, block |-> Block(l, a),
                   last_access_time |-> access_counter[l],
                   insertion_time |-> access_counter[l], freq |-> 1]
<1>1. here \in Sets(l) /\ v \in Ways(l)
  BY AddressType, VictimFound
<1>2. DOMAIN lines = Levels /\ \A k \in Levels : lines[k] \in [Sets(k) -> [Ways(k) -> Line]]
  BY DEF TypesInv, LinesType
<1>3. new \in Line /\ new.valid /\ new.block = Block(l, a)
      /\ new.last_access_time = access_counter[l]
  BY AddressType DEF Line, TypesInv
<1>4. lines' = [lines EXCEPT ![l][here][v] = new]
  BY DEF Insert
<1> HIDE DEF new, v, here
<1>5. /\ DOMAIN lines' = Levels
      /\ \A k \in Levels : k # l => lines'[k] = lines[k]
      /\ lines'[l] = [lines[l] EXCEPT ![here] = [lines[l][here] EXCEPT ![v] = new]]
  BY <1>2, <1>4
<1>6. /\ \A s \in Sets(l) : s # here => lines'[l][s] = lines[l][s]
      /\ lines'[l][here] = [lines[l][here] EXCEPT ![v] = new]
      /\ DOMAIN lines'[l] = Sets(l) /\ lines[l][here] \in [Ways(l) -> Line]
  BY <1>1, <1>2, <1>5
<1>7. /\ lines'[l][here][v] = new
      /\ \A w \in Ways(l) : w # v => lines'[l][here][w] = lines[l][here][w]
      /\ lines'[l][here] \in [Ways(l) -> Line]
  BY <1>1, <1>3, <1>6
<1>8. LinesType'
  <2>1. \A s \in Sets(l) : lines'[l][s] \in [Ways(l) -> Line]
    BY <1>2, <1>6, <1>7
  <2>2. lines'[l] \in [Sets(l) -> [Ways(l) -> Line]]
    BY <1>2, <1>5, <1>6, <2>1
  <2> QED
    BY <1>2, <1>5, <2>2 DEF LinesType
<1>9. Filled(l, a)
  <2>1. ASSUME NEW k \in Levels, NEW s \in Sets(k), NEW w \in Ways(k),
               ~(k = l /\ s = here /\ w = v)
        PROVE  lines'[k][s][w] = lines[k][s][w]
    <3>1. CASE k # l
      BY <1>5, <3>1
    <3>2. CASE k = l /\ s # here
      BY <1>6, <3>2
    <3>3. CASE k = l /\ s = here
      BY <1>7, <2>1, <3>3
    <3> QED
      BY <3>1, <3>2, <3>3
  <2> QED
    BY <1>3, <1>7, <2>1 DEF Filled, here, v
<1>10. UNCHANGED <<access_counter, recent>>
  BY DEF Insert
<1> QED
  BY <1>8, <1>9, <1>10

\* invalidate(): the first line that has the block is none any more.
Cleared(l, a) ==
  \A k \in Levels : \A s \in Sets(k) : \A w \in Ways(k) :
    LET old == lines[k][s][w]
        new == lines'[k][s][w]
    IN  /\ new.block = old.block /\ new.last_access_time = old.last_access_time
        /\ new.valid <=> old.valid /\ ~(k = l /\ s = SetOf(l, a) /\ FirstHolding(l, a, w))

LEMMA InvalidateClears ==
  ASSUME TypesInv, NEW l \in Levels, NEW a \in Nat, Invalidate(l, a)
  PROVE  Cleared(l, a) /\ LinesType' /\ UNCHANGED <<access_counter, recent>>
<1> DEFINE here == SetOf(l, a)
           out(w, line) == IF FirstHolding(l, a, w)
                           THEN [line EXCEPT !.valid = FALSE] ELSE line
<1>1. here \in Sets(l)
  BY AddressType
<1>2. DOMAIN lines = Levels /\ \A k \in Levels : lines[k] \in [Sets(k) -> [Ways(k) -> Line]]
  BY DEF TypesInv, LinesType
<1>3. lines' = [lines EXCEPT ![l][here] = [w \in Ways(l) |-> out(w, lines[l][here][w])]]
  BY DEF Invalidate
<1>4. ASSUME NEW w \in Ways(l), NEW line \in Line
      PROVE  /\ out(w, line) \in Line
             /\ out(w, line).block = line.block
             /\ out(w, line).last_access_time = line.last_access_time
             /\ out(w, line).valid <=> line.valid /\ ~FirstHolding(l, a, w)
  BY DEF Line
<1> HIDE DEF out, here
<1>5. /\ DOMAIN lines' = Levels
      /\ \A k \in Levels : k # l => lines'[k] = lines[k]
      /\ lines'[l] = [lines[l] EXCEPT ![here] = [w \in Ways(l) |-> out(w, lines[l][here][w])]]
  BY <1>2, <1>3
<1>6. /\ \A s \in Sets(l) : s # here => lines'[l][s] = lines[l][s]
      /\ lines'[l][here] = [w \in Ways(l) |-> out(w, lines[l][here][w])]
      /\ DOMAIN lines'[l] = Sets(l)
  BY <1>1, <1>2, <1>5
<1>7. LinesType'
  <2>1. lines'[l][here] \in [Ways(l) -> Line]
    BY <1>1, <1>2, <1>4, <1>6
  <2>2. \A s \in Sets(l) : lines'[l][s] \in [Ways(l) -> Line]
    BY <1>2, <1>6, <2>1
  <2>3. lines'[l] \in [Sets(l) -> [Ways(l) -> Line]]
    BY <1>2, <1>5, <2>2
  <2> QED
    BY <1>2, <1>5, <2>3 DEF LinesType
<1>8. Cleared(l, a)
  <2> SUFFICES ASSUME NEW k \in Levels, NEW s \in Sets(k), NEW w \in Ways(k)
               PROVE  LET old == lines[k][s][w]
                          new == lines'[k][s][w]
                      IN  /\ new.block = old.block
                          /\ new.last_access_time = old.last_access_time
                          /\ new.valid <=> old.valid /\ ~(k = l /\ s = SetOf(l, a)
                                                          /\ FirstHolding(l, a, w))
    BY DEF Cleared
  <2>1. CASE k = l /\ s = here
    <3>1. lines'[k][s][w] = out(w, lines[k][s][w]) /\ lines[k][s][w] \in Line
      BY <1>1, <1>2, <1>6, <2>1
    <3> QED
      BY <1>4, <2>1, <3>1 DEF here
  <2>2. CASE ~(k = l /\ s = here)
    <3>1. lines'[k][s] = lines[k][s]
      BY <1>5, <1>6, <2>2
    <3> QED
      BY <2>2, <3>1 DEF here
  <2> QED
    BY <2>1, <2>2
<1>9. UNCHANGED <<access_counter, recent>>
  BY DEF Invalidate
<1> QED
  BY <1>7, <1>8, <1>9

\* The list of blocks asked for.
LEMMA AskedMoves ==
  ASSUME TypesInv, NEW l \in Levels, NEW a \in Nat, Asked(l, a)
  PROVE  /\ recent' \in [Levels -> Seq(Nat)]
         /\ \A k \in Levels : k # l => recent'[k] = recent[k]
         /\ recent'[l] # <<>> /\ Head(recent'[l]) = Block(l, a)
         /\ Block(l, a) \in In(recent'[l]) /\ In(recent[l]) \subseteq In(recent'[l])
         /\ \A y \in In(recent[l]) : y # Block(l, a) => Before(recent'[l], Block(l, a), y)
         /\ \A x, y \in In(recent[l]) :
              x # Block(l, a) /\ y # Block(l, a) /\ Before(recent[l], x, y) =>
                Before(recent'[l], x, y)
<1> DEFINE b == Block(l, a)
           rest == Without(recent[l], b)
           new == <<b>> \o rest
<1>1. recent \in [Levels -> Seq(Nat)] /\ b \in Nat
  BY AddressType DEF TypesInv
<1>2. recent' = [recent EXCEPT ![l] = new]
  BY DEF Asked
<1>3. /\ rest \in Seq(Nat)
      /\ \A x \in In(recent[l]) : x # b => x \in In(rest)
      /\ \A x, y \in In(recent[l]) : x # b /\ y # b /\ Before(recent[l], x, y) =>
           Before(rest, x, y)
  BY <1>1, WithoutOrder
<1> HIDE DEF rest, b
<1>4. /\ new \in Seq(Nat) /\ new # <<>> /\ Head(new) = b
      /\ b \in In(new) /\ In(rest) \subseteq In(new)
      /\ \A y \in In(rest) : Before(new, b, y)
      /\ \A x, y \in In(rest) : Before(rest, x, y) => Before(new, x, y)
  BY <1>1, <1>3, PrependOrder
<1> HIDE DEF new
<1>5. /\ recent'[l] = new /\ recent' \in [Levels -> Seq(Nat)]
      /\ \A k \in Levels : k # l => recent'[k] = recent[k]
  BY <1>1, <1>2, <1>4
<1>6. In(recent[l]) \subseteq In(new)
  BY <1>3, <1>4
<1> QED
  BY <1>3, <1>4, <1>5, <1>6 DEF b

-----------------------------------------------------------------------------
(* Types are kept.                                                         *)

LEMMA LeftType ==
  ASSUME NEW l, NEW step
  PROVE  Left(l, step) \in 0 .. 2
BY DEF Left

LEMMA DueCounts ==
  ASSUME NEW l \in Levels, NEW t \in Threads, NEW step, DOMAIN pc = Threads,
         IsFiniteSet(Due(l)), pc' = [pc EXCEPT ![t] = step]
  PROVE  /\ IsFiniteSet(Due(l)') /\ Cardinality(Due(l)') \in Nat
         /\ Cardinality(Due(l)) \in Nat
         /\ Cardinality(Due(l)') <= Cardinality(Due(l)) + 2
         /\ Left(l, step) <= Left(l, pc[t]) => Cardinality(Due(l)') <= Cardinality(Due(l))
         /\ Left(l, step) < Left(l, pc[t]) => Cardinality(Due(l)') + 1 <= Cardinality(Due(l))
<1> DEFINE D == Due(l)
           E == {d \in Threads \X (1 .. 2) : d[2] <= Left(l, pc'[d[1]])}
           more == (D \cup {<<t, 1>>}) \cup {<<t, 2>>}
<1>1. Due(l)' = E
  BY DEF Due
<1>2. pc'[t] = step /\ \A u \in Threads : u # t => pc'[u] = pc[u]
  OBVIOUS
<1>3. Left(l, step) \in 0 .. 2 /\ Left(l, pc[t]) \in 0 .. 2
  BY LeftType
<1>4. E \subseteq more
  BY <1>2 DEF Due
<1>5. IsFiniteSet(D \cup {<<t, 1>>}) /\ IsFiniteSet(more)
      /\ Cardinality(D) \in Nat
      /\ Cardinality(D \cup {<<t, 1>>}) \in Nat
      /\ Cardinality(D \cup {<<t, 1>>}) <= Cardinality(D) + 1
      /\ Cardinality(more) \in Nat
      /\ Cardinality(more) <= Cardinality(D \cup {<<t, 1>>}) + 1
  <2>1. ASSUME NEW S, IsFiniteSet(S), NEW x
        PROVE  /\ IsFiniteSet(S \cup {x}) /\ Cardinality(S) \in Nat
               /\ Cardinality(S \cup {x}) \in Nat
               /\ Cardinality(S \cup {x}) <= Cardinality(S) + 1
    <3> DEFINE T == S \cup {x}
               n == Cardinality(S)
               m == Cardinality(T)
    <3>1. n \in Nat
      BY <2>1, FS_CardinalityType
    <3>2. IsFiniteSet(T) /\ m = IF x \in S THEN n ELSE n + 1
      BY <2>1, FS_AddElement
    <3> HIDE DEF T, n, m
    <3>3. m \in Nat /\ m <= n + 1
      BY <3>1, <3>2
    <3> QED
      BY <3>1, <3>2, <3>3 DEF T, n, m
  <2> HIDE DEF D
  <2>2. IsFiniteSet(D)
    BY DEF D
  <2> QED
    BY <2>1, <2>2
<1>6. Cardinality(E) \in Nat /\ IsFiniteSet(E) /\ Cardinality(E) <= Cardinality(D) + 2
  <2>1. IsFiniteSet(E) /\ Cardinality(E) <= Cardinality(more)
    BY <1>4, <1>5, FS_Subset
  <2>2. Cardinality(E) \in Nat
    BY <2>1, FS_CardinalityType
  <2> QED
    BY <1>5, <2>1, <2>2
<1>7. ASSUME Left(l, step) <= Left(l, pc[t]) PROVE Cardinality(E) <= Cardinality(D)
  <2>1. E \subseteq D
    BY <1>2, <1>3, <1>7 DEF Due
  <2> QED
    BY <2>1, FS_Subset
<1>8. ASSUME Left(l, step) < Left(l, pc[t]) PROVE Cardinality(E) + 1 <= Cardinality(D)
  <2> DEFINE d == <<t, Left(l, pc[t])>>
  <2>1. d \in D
    BY <1>3, <1>8 DEF Due
  <2>2. E \subseteq D \ {d}
    BY <1>2, <1>3, <1>8 DEF Due
  <2> HIDE DEF d, E, D
  <2>3. IsFiniteSet(D)
    BY DEF D
  <2>4. IsFiniteSet(D \ {d}) /\ Cardinality(D \ {d}) = Cardinality(D) - 1
    BY <2>1, <2>3, FS_RemoveElement
  <2>5. Cardinality(E) <= Cardinality(D \ {d})
    BY <2>2, <2>4, FS_Subset
  <2> QED
    BY <1>5, <1>6, <2>4, <2>5
<1> HIDE DEF E
<1> QED
  BY <1>1, <1>5, <1>6, <1>7, <1>8

\* A step of a request or of an invalidation: an access takes one off what is due.
Pays(t, step) ==
  \A l \in Levels :
    \/ access_counter'[l] <= access_counter[l] /\ Left(l, step) <= Left(l, pc[t])
    \/ access_counter'[l] <= access_counter[l] + 1 /\ Left(l, step) < Left(l, pc[t])

LEMMA CountsKept ==
  ASSUME TypesInv, CountsInv, NEW t \in Threads, NEW step,
         pc' = [pc EXCEPT ![t] = step], requests' = requests,
         access_counter' \in [Levels -> Nat], Pays(t, step)
  PROVE  CountsInv'
<1> SUFFICES ASSUME NEW l \in Levels
             PROVE  /\ IsFiniteSet(Due(l)')
                    /\ access_counter'[l] + Cardinality(Due(l)') <= 2 * requests'
  BY DEF CountsInv
<1>1. /\ IsFiniteSet(Due(l)') /\ Cardinality(Due(l)') \in Nat
      /\ Cardinality(Due(l)) \in Nat
      /\ Left(l, step) <= Left(l, pc[t]) => Cardinality(Due(l)') <= Cardinality(Due(l))
      /\ Left(l, step) < Left(l, pc[t]) => Cardinality(Due(l)') + 1 <= Cardinality(Due(l))
  BY DueCounts DEF TypesInv, CountsInv
<1>2. /\ access_counter[l] + Cardinality(Due(l)) <= 2 * requests
      /\ access_counter[l] \in Nat /\ access_counter'[l] \in Nat /\ requests \in Nat
  BY DEF CountsInv, TypesInv
<1>3. \/ access_counter'[l] <= access_counter[l] /\ Left(l, step) <= Left(l, pc[t])
      \/ access_counter'[l] <= access_counter[l] + 1 /\ Left(l, step) < Left(l, pc[t])
  BY DEF Pays
<1> QED
  BY <1>1, <1>2, <1>3

\* What each kind of call leaves right, whatever the request is.
Called ==
  /\ LinesType' /\ access_counter' \in [Levels -> Nat] /\ recent' \in [Levels -> Seq(Nat)]

LEMMA AccessCalled ==
  ASSUME TypesInv, NEW t \in Threads, NEW l \in Levels, NEW a \in Nat,
         NEW write \in BOOLEAN, Access(t, l, a, write)
  PROVE  /\ Called
         /\ access_counter'[l] <= access_counter[l] + 1
         /\ \A k \in Levels : k # l => access_counter'[k] = access_counter[k]
<1>1. LinesType'
  BY AccessTouches
<1>2. recent' \in [Levels -> Seq(Nat)]
  BY AskedMoves DEF Access
<1>3. access_counter \in [Levels -> Nat]
  BY DEF TypesInv
<1>4. \/ access_counter' = [access_counter EXCEPT ![l] = @ + 1]
      \/ access_counter' = access_counter
  BY DEF Access, Count
<1>5. /\ access_counter' \in [Levels -> Nat]
      /\ access_counter'[l] <= access_counter[l] + 1
      /\ \A k \in Levels : k # l => access_counter'[k] = access_counter[k]
  <2>1. CASE access_counter' = [access_counter EXCEPT ![l] = @ + 1]
    BY <1>3, <2>1
  <2>2. CASE access_counter' = access_counter
    BY <1>3, <2>2
  <2> QED
    BY <1>4, <2>1, <2>2
<1> QED
  BY <1>1, <1>2, <1>5 DEF Called

LEMMA InsertCalled ==
  ASSUME TypesInv, NEW l \in Levels, NEW a \in Nat, NEW write \in BOOLEAN,
         Insert(l, a, write)
  PROVE  Called /\ access_counter' = access_counter
BY InsertFills DEF Called, TypesInv

LEMMA InvalidateCalled ==
  ASSUME TypesInv, NEW l \in Levels, NEW a \in Nat, Invalidate(l, a)
  PROVE  Called /\ access_counter' = access_counter
BY InvalidateClears DEF Called, TypesInv

LEMMA RequestTyped ==
  ASSUME TypesInv, NEW t \in Threads
  PROVE  /\ req[t].address \in Nat /\ req[t].write \in BOOLEAN
         /\ req[t].evicted \in Nat /\ req[t].ev_dirty \in BOOLEAN
BY DEF TypesInv, Requested

LEMMA NotingTyped ==
  ASSUME TypesInv, NEW t \in Threads, NEW l \in Levels, InsertNoting(t, l)
  PROVE  /\ Called /\ access_counter' = access_counter
         /\ req' \in [Threads -> Requested] /\ req'[t].address = req[t].address
         /\ unsaved' = unsaved
<1> DEFINE a == req[t].address
           old == Old(l, a)
<1>1. a \in Nat /\ req[t].write \in BOOLEAN
  BY RequestTyped
<1>2. old \in Line /\ BlockSize[l] \in Nat
  BY <1>1, VictimFound, LineTyped, Shapes DEF Old
<1>3. old.block * BlockSize[l] \in Nat /\ old.dirty \in BOOLEAN
  BY <1>2 DEF Line
<1>4. req' = [req EXCEPT ![t].evicted = old.block * BlockSize[l], ![t].ev_dirty = old.dirty]
  BY DEF InsertNoting
<1> HIDE DEF old
<1>5. req' \in [Threads -> Requested] /\ req'[t].address = req[t].address
  BY <1>3, <1>4 DEF TypesInv, Requested
<1>6. Insert(l, a, req[t].write) /\ unsaved' = unsaved
  BY DEF InsertNoting
<1>7. Called /\ access_counter' = access_counter
  BY <1>1, <1>6, InsertCalled
<1> QED
  BY <1>5, <1>6, <1>7

\* A step of thread t that leaves the number of requests and the policy.
TypedStep(t, step) ==
  /\ Called /\ pc' = [pc EXCEPT ![t] = step]
  /\ requests' = requests /\ policy' = policy
  /\ unsaved' \subseteq Addresses /\ req' \in [Threads -> Requested]
  /\ Pays(t, step)

LEMMA TypesKept ==
  ASSUME TypesInv, CountsInv, NEW t \in Threads, NEW step, TypedStep(t, step)
  PROVE  TypesInv' /\ CountsInv'
<1>1. CountsInv'
  BY CountsKept DEF TypedStep, Called
<1>2. DOMAIN pc' = Threads
  BY DEF TypesInv, TypedStep
<1>3. LinesType' /\ access_counter' \in [Levels -> Nat] /\ recent' \in [Levels -> Seq(Nat)]
  BY DEF TypedStep, Called
<1>4. policy' \in Policies /\ requests' \in 0 .. MaxRequests
  BY DEF TypesInv, TypedStep
<1> QED
  BY <1>1, <1>2, <1>3, <1>4 DEF TypesInv, TypedStep

LEMMA PaysNothing ==
  ASSUME TypesInv, NEW t \in Threads, NEW step, access_counter' = access_counter,
         \A l \in Levels : Left(l, step) <= Left(l, pc[t])
  PROVE  Pays(t, step)
BY DEF Pays, TypesInv

LEMMA PaysOne ==
  ASSUME TypesInv, NEW t \in Threads, NEW step, NEW l \in Levels,
         access_counter'[l] <= access_counter[l] + 1,
         \A k \in Levels : k # l => access_counter'[k] = access_counter[k],
         Left(l, step) < Left(l, pc[t]),
         \A k \in Levels : k # l => Left(k, step) <= Left(k, pc[t])
  PROVE  Pays(t, step)
BY DEF Pays, TypesInv

\* A probe or a write-back.
LEMMA AccessTypes ==
  ASSUME TypesInv, CountsInv, NEW t \in Threads, NEW l \in Levels, NEW a \in Nat,
         NEW write \in BOOLEAN, NEW step,
         Access(t, l, a, write), SameRequest, UNCHANGED <<policy, requests>>,
         pc' = [pc EXCEPT ![t] = step],
         Left(l, step) < Left(l, pc[t]),
         \A k \in Levels : k # l => Left(k, step) <= Left(k, pc[t])
  PROVE  TypesInv' /\ CountsInv'
<1>1. /\ Called /\ access_counter'[l] <= access_counter[l] + 1
      /\ \A k \in Levels : k # l => access_counter'[k] = access_counter[k]
  BY AccessCalled
<1>2. Pays(t, step)
  BY <1>1, PaysOne
<1>3. unsaved' \subseteq Addresses /\ req' \in [Threads -> Requested]
  BY DEF SameRequest, TypesInv
<1>4. TypedStep(t, step)
  BY <1>1, <1>2, <1>3 DEF TypedStep
<1> QED
  BY <1>4, TypesKept

\* Any other call of a level.
LEMMA OtherTypes ==
  ASSUME TypesInv, CountsInv, NEW t \in Threads, NEW step,
         Called, access_counter' = access_counter,
         unsaved' \subseteq Addresses, req' \in [Threads -> Requested],
         UNCHANGED <<policy, requests>>,
         pc' = [pc EXCEPT ![t] = step],
         \A k \in Levels : Left(k, step) <= Left(k, pc[t])
  PROVE  TypesInv' /\ CountsInv'
<1>1. Pays(t, step)
  BY PaysNothing
<1>2. TypedStep(t, step)
  BY <1>1 DEF TypedStep
<1> QED
  BY <1>2, TypesKept

LEMMA RequestTypes ==
  ASSUME TypesInv, CountsInv, NEW t \in Threads, Request(t)
  PROVE  TypesInv' /\ CountsInv'
<1> USE DEF Levels
<1>0. /\ req[t].address \in Nat /\ req[t].write \in BOOLEAN
      /\ req[t].evicted \in Nat /\ req[t].ev_dirty \in BOOLEAN
  BY RequestTyped
<1>1. ASSUME NEW a \in Addresses, NEW write \in BOOLEAN, Start(t, a, write)
      PROVE  TypesInv' /\ CountsInv'
  <2> DEFINE step == IF Has(1, a) THEN "idle" ELSE "probe2"
  <2>1. a \in Nat
    BY CacheAssumption
  <2>2. /\ Access(t, 1, a, write) /\ pc' = [pc EXCEPT ![t] = step] /\ pc[t] = "idle"
        /\ requests' = requests + 1 /\ requests < MaxRequests /\ policy' = policy
        /\ req' = [req EXCEPT ![t] = [NoRequest EXCEPT !.address = a, !.write = write]]
        /\ unsaved' = IF write THEN unsaved \cup {a} ELSE unsaved
    BY <1>1 DEF Start, Goto
  <2>3. /\ Called /\ access_counter'[1] <= access_counter[1] + 1
        /\ \A k \in Levels : k # 1 => access_counter'[k] = access_counter[k]
    BY <2>1, <2>2, AccessCalled
  <2>4. unsaved' \subseteq Addresses
    BY <2>2 DEF TypesInv
  <2>5. req' \in [Threads -> Requested]
    <3>1. [NoRequest EXCEPT !.address = a, !.write = write] \in Requested
      BY <2>1 DEF NoRequest, Requested
    <3> QED
      BY <2>2, <3>1 DEF TypesInv
  <2>6. requests' \in 0 .. MaxRequests /\ requests \in Nat
    <3>1. MaxRequests \in Nat /\ requests \in 0 .. MaxRequests
      BY CacheAssumption DEF TypesInv
    <3> QED
      BY <2>2, <3>1
  <2>7. TypesInv'
    <3>1. DOMAIN pc' = Threads
      BY <2>2 DEF TypesInv
    <3>2. policy' \in Policies
      BY <2>2 DEF TypesInv
    <3> QED
      BY <2>3, <2>4, <2>5, <2>6, <3>1, <3>2 DEF TypesInv, Called
  <2>8. CountsInv'
    <3> SUFFICES ASSUME NEW l \in Levels
                 PROVE  /\ IsFiniteSet(Due(l)')
                        /\ access_counter'[l] + Cardinality(Due(l)') <= 2 * requests'
      BY DEF CountsInv
    <3>1. /\ access_counter[l] + Cardinality(Due(l)) <= 2 * requests /\ IsFiniteSet(Due(l))
          /\ access_counter[l] \in Nat /\ access_counter'[l] \in Nat
      BY <2>3 DEF CountsInv, TypesInv, Called
    <3>2. /\ IsFiniteSet(Due(l)') /\ Cardinality(Due(l)') \in Nat
          /\ Cardinality(Due(l)) \in Nat
          /\ Cardinality(Due(l)') <= Cardinality(Due(l)) + 2
          /\ Left(l, step) <= Left(l, pc[t]) => Cardinality(Due(l)') <= Cardinality(Due(l))
      BY <2>2, <3>1, DueCounts DEF TypesInv
    <3>3. CASE l = 1
      <4>1. Left(l, step) = 0 /\ Left(l, pc[t]) = 0
        BY <3>3 DEF Left
      <4>2. access_counter'[l] <= access_counter[l] + 1
        BY <2>3, <3>3
      <4> HIDE DEF step
      <4> QED
        BY <2>2, <2>6, <3>1, <3>2, <4>1, <4>2
    <3>4. CASE l # 1
      <4>1. access_counter'[l] = access_counter[l]
        BY <2>3, <3>4
      <4> HIDE DEF step
      <4> QED
        BY <2>2, <2>6, <3>1, <3>2, <4>1
    <3> QED
      BY <3>3, <3>4
  <2> QED
    BY <2>7, <2>8
<1>2. ASSUME NEW l \in Levels, NEW step, Access(t, l, req[t].address, req[t].write),
             SameRequest, UNCHANGED <<policy, requests>>, Goto(t, step),
             Left(l, step) < Left(l, pc[t]),
             \A k \in Levels : k # l => Left(k, step) <= Left(k, pc[t])
      PROVE  TypesInv' /\ CountsInv'
  BY <1>0, <1>2, AccessTypes DEF Goto
<1>3. ASSUME Probe2(t) PROVE TypesInv' /\ CountsInv'
  <2> DEFINE step == IF Has(2, req[t].address) THEN "promote1" ELSE "probe3"
  <2>1. /\ pc[t] = "probe2" /\ UNCHANGED <<policy, requests>>
        /\ SameRequest /\ Access(t, 2, req[t].address, req[t].write) /\ Goto(t, step)
    BY <1>3 DEF Probe2, Probe, At
  <2>2. Left(2, step) < Left(2, pc[t]) /\ Left(3, step) <= Left(3, pc[t])
        /\ Left(1, step) <= Left(1, pc[t])
    BY <2>1 DEF Left
  <2> QED
    BY <1>2, <2>1, <2>2
<1>4. ASSUME Probe3(t) PROVE TypesInv' /\ CountsInv'
  <2> DEFINE step == IF Has(3, req[t].address) THEN "promote2" ELSE "fetch3"
  <2>1. /\ pc[t] = "probe3" /\ UNCHANGED <<policy, requests>>
        /\ SameRequest /\ Access(t, 3, req[t].address, req[t].write) /\ Goto(t, step)
    BY <1>4 DEF Probe3, Probe, At
  <2>2. Left(3, step) < Left(3, pc[t]) /\ Left(2, step) <= Left(2, pc[t])
        /\ Left(1, step) <= Left(1, pc[t])
    BY <2>1 DEF Left
  <2> QED
    BY <1>2, <2>1, <2>2
<1>5. ASSUME WriteBack2(t) PROVE TypesInv' /\ CountsInv'
  <2>1. /\ pc[t] = "writeback2" /\ UNCHANGED <<policy, requests>>
        /\ SameRequest /\ Access(t, 2, req[t].evicted, TRUE)
        /\ pc' = [pc EXCEPT ![t] = "idle"]
    BY <1>5 DEF WriteBack2, WriteBack, At, Goto
  <2>2. /\ Left(2, "idle") < Left(2, pc[t])
        /\ \A k \in Levels : k # 2 => Left(k, "idle") <= Left(k, pc[t])
    BY <2>1 DEF Left
  <2>3. TRUE \in BOOLEAN /\ 2 \in Levels
    OBVIOUS
  <2> HIDE DEF Levels
  <2> QED
    BY <1>0, <2>1, <2>2, <2>3, AccessTypes
<1>6. ASSUME WriteBack3(t) PROVE TypesInv' /\ CountsInv'
  <2>1. /\ pc[t] = "writeback3" /\ UNCHANGED <<policy, requests>>
        /\ SameRequest /\ Access(t, 3, req[t].evicted, TRUE)
        /\ pc' = [pc EXCEPT ![t] = "fill1"]
    BY <1>6 DEF WriteBack3, WriteBack, At, Goto
  <2>2. /\ Left(3, "fill1") < Left(3, pc[t])
        /\ \A k \in Levels : k # 3 => Left(k, "fill1") <= Left(k, pc[t])
    BY <2>1 DEF Left
  <2>3. TRUE \in BOOLEAN /\ 3 \in Levels
    OBVIOUS
  <2> HIDE DEF Levels
  <2> QED
    BY <1>0, <2>1, <2>2, <2>3, AccessTypes
<1>7. ASSUME NEW l \in Levels, NEW step, InsertNoting(t, l), UNCHANGED <<policy, requests>>,
             Goto(t, step), \A k \in Levels : Left(k, step) <= Left(k, pc[t])
      PROVE  TypesInv' /\ CountsInv'
  <2>1. /\ Called /\ access_counter' = access_counter /\ req' \in [Threads -> Requested]
        /\ unsaved' \subseteq Addresses
    BY <1>7, NotingTyped DEF TypesInv
  <2> QED
    BY <1>7, <2>1, OtherTypes DEF Goto
<1>8. ASSUME Promote1(t) PROVE TypesInv' /\ CountsInv'
  <2> DEFINE old == Old(1, req[t].address)
             step == IF old.valid /\ old.dirty THEN "writeback2" ELSE "idle"
  <2>1. pc[t] = "promote1" /\ UNCHANGED <<policy, requests>> /\ InsertNoting(t, 1)
        /\ Goto(t, step)
    BY <1>8 DEF Promote1, At
  <2>2. \A k \in Levels : Left(k, step) <= Left(k, pc[t])
    BY <2>1 DEF Left
  <2> QED
    BY <1>7, <2>1, <2>2
<1>9. ASSUME Promote2(t) PROVE TypesInv' /\ CountsInv'
  <2> DEFINE step == IF Old(2, req[t].address).valid THEN "back1" ELSE "fill1"
  <2>1. pc[t] = "promote2" /\ UNCHANGED <<policy, requests>> /\ InsertNoting(t, 2)
        /\ Goto(t, step)
    BY <1>9 DEF Promote2, At
  <2>2. \A k \in Levels : Left(k, step) <= Left(k, pc[t])
    BY <2>1 DEF Left
  <2> QED
    BY <1>7, <2>1, <2>2
<1>10. ASSUME Fetch3(t) PROVE TypesInv' /\ CountsInv'
  <2> DEFINE step == IF Old(3, req[t].address).valid THEN "back2" ELSE "fill2"
  <2>1. pc[t] = "fetch3" /\ UNCHANGED <<policy, requests>> /\ InsertNoting(t, 3)
        /\ Goto(t, step)
    BY <1>10 DEF Fetch3, At
  <2>2. \A k \in Levels : Left(k, step) <= Left(k, pc[t])
    BY <2>1 DEF Left
  <2> QED
    BY <1>7, <2>1, <2>2
<1>11. ASSUME NEW l \in Levels, NEW step, Invalidate(l, req[t].evicted),
              req' = req, unsaved' \subseteq unsaved, UNCHANGED <<policy, requests>>,
              Goto(t, step), \A k \in Levels : Left(k, step) <= Left(k, pc[t])
       PROVE  TypesInv' /\ CountsInv'
  <2>1. Called /\ access_counter' = access_counter
    BY <1>0, <1>11, InvalidateCalled
  <2>2. req' \in [Threads -> Requested] /\ unsaved' \subseteq Addresses
    BY <1>11 DEF TypesInv
  <2> QED
    BY <1>11, <2>1, <2>2, OtherTypes DEF Goto
<1>12. ASSUME Back1(t) PROVE TypesInv' /\ CountsInv'
  <2> DEFINE step == IF req[t].ev_dirty \/ DirtyIn(1, req[t].evicted)
                     THEN "writeback3" ELSE "fill1"
  <2>1. /\ pc[t] = "back1" /\ UNCHANGED <<policy, requests>> /\ Invalidate(1, req[t].evicted)
        /\ Goto(t, step) /\ req' = req /\ unsaved' \subseteq unsaved
    BY <1>12 DEF Back1, At, SameRequest
  <2>2. \A k \in Levels : Left(k, step) <= Left(k, pc[t])
    BY <2>1 DEF Left
  <2> QED
    BY <1>11, <2>1, <2>2
<1>13. ASSUME Back2(t) PROVE TypesInv' /\ CountsInv'
  <2> DEFINE step == IF DirtyIn(2, req[t].evicted) THEN "fill2" ELSE "back1of3"
  <2>1. /\ pc[t] = "back2" /\ UNCHANGED <<policy, requests>> /\ Invalidate(2, req[t].evicted)
        /\ Goto(t, step) /\ req' = req /\ unsaved' \subseteq unsaved
    BY <1>13 DEF Back2, At, Saved
  <2>2. \A k \in Levels : Left(k, step) <= Left(k, pc[t])
    BY <2>1 DEF Left
  <2> QED
    BY <1>11, <2>1, <2>2
<1>14. ASSUME Back1Of3(t) PROVE TypesInv' /\ CountsInv'
  <2>1. /\ pc[t] = "back1of3" /\ UNCHANGED <<policy, requests>>
        /\ Invalidate(1, req[t].evicted)
        /\ Goto(t, "fill2") /\ req' = req /\ unsaved' \subseteq unsaved
    BY <1>14 DEF Back1Of3, At, Saved
  <2>2. \A k \in Levels : Left(k, "fill2") <= Left(k, pc[t])
    BY <2>1 DEF Left
  <2> QED
    BY <1>11, <2>1, <2>2
<1>15. ASSUME NEW l \in Levels, NEW step, Fill(t, l, step), UNCHANGED <<policy, requests>>,
              \A k \in Levels : Left(k, step) <= Left(k, pc[t])
       PROVE  TypesInv' /\ CountsInv'
  <2>1. Called /\ access_counter' = access_counter
    BY <1>0, <1>15, InsertCalled DEF Fill
  <2>2. /\ req' \in [Threads -> Requested] /\ unsaved' \subseteq Addresses
        /\ pc' = [pc EXCEPT ![t] = step]
    BY <1>15 DEF Fill, SameRequest, TypesInv, Goto
  <2> QED
    BY <1>15, <2>1, <2>2, OtherTypes
<1>16. ASSUME Fill2(t) PROVE TypesInv' /\ CountsInv'
  <2>1. pc[t] = "fill2" /\ UNCHANGED <<policy, requests>> /\ Fill(t, 2, "fill1")
    BY <1>16 DEF Fill2, At
  <2>2. \A k \in Levels : Left(k, "fill1") <= Left(k, pc[t])
    BY <2>1 DEF Left
  <2> QED
    BY <1>15, <2>1, <2>2
<1>17. ASSUME Fill1(t) PROVE TypesInv' /\ CountsInv'
  <2>1. pc[t] = "fill1" /\ UNCHANGED <<policy, requests>> /\ Fill(t, 1, "idle")
    BY <1>17 DEF Fill1, At
  <2>2. \A k \in Levels : Left(k, "idle") <= Left(k, pc[t])
    BY <2>1 DEF Left
  <2> QED
    BY <1>15, <2>1, <2>2
<1> QED
  BY <1>1, <1>3, <1>4, <1>5, <1>6, <1>8, <1>9, <1>10, <1>12, <1>13, <1>14, <1>16, <1>17
     DEF Request

LEMMA RangeSteps ==
  RangeStep(1) = "range1" /\ RangeStep(2) = "range2" /\ RangeStep(3) = "range3"
BY DEF RangeStep

LEMMA RangeLeft ==
  ASSUME NEW k \in Levels, NEW l \in Levels
  PROVE  Left(k, RangeStep(l)) = 0 /\ Left(k, "idle") = 0
BY RangeSteps DEF Left, Levels

\* The step after an invalidated block, and where it goes on: never below 0.
NextStep(t, l) ==
  IF (req[t].address + BlockSize[l]) % PageSize # 0 THEN pc[t]
  ELSE IF l < 3 THEN RangeStep(l + 1) ELSE "idle"

NextAddress(t, l) ==
  IF (req[t].address + BlockSize[l]) % PageSize # 0
  THEN req[t].address + BlockSize[l]
  ELSE (req[t].address + BlockSize[l]) - PageSize

LEMMA BlockGone ==
  ASSUME TypesInv, NEW t \in Threads, NEW l \in Levels, InvalidateBlock(t, l)
  PROVE  /\ pc[t] = RangeStep(l) /\ UNCHANGED <<policy, requests, unsaved>>
         /\ Invalidate(l, req[t].address) /\ req[t].address \in Nat
         /\ req' = [req EXCEPT ![t].address = NextAddress(t, l)]
         /\ pc' = [pc EXCEPT ![t] = NextStep(t, l)]
         /\ NextAddress(t, l) \in Nat
<1> DEFINE a == req[t].address
           b == BlockSize[l]
           x == a + b
<1>1. a \in Nat /\ b \in Nat \ {0} /\ PageSize \in Nat \ {0}
  BY RequestTyped, Shapes
<1>2. /\ pc[t] = RangeStep(l) /\ UNCHANGED <<policy, requests, unsaved>>
      /\ Invalidate(l, a)
      /\ req' = [req EXCEPT ![t].address = IF x % PageSize # 0 THEN x ELSE x - PageSize]
      /\ pc' = [pc EXCEPT ![t] = IF x % PageSize # 0 THEN pc[t]
                                 ELSE IF l < 3 THEN RangeStep(l + 1) ELSE "idle"]
  BY DEF InvalidateBlock, At, Goto
<1>21. NextAddress(t, l) = IF x % PageSize # 0 THEN x ELSE x - PageSize
  BY DEF NextAddress
<1>22. NextStep(t, l) = IF x % PageSize # 0 THEN pc[t]
                        ELSE IF l < 3 THEN RangeStep(l + 1) ELSE "idle"
  BY Zenon DEF NextStep
<1>3. x \in Nat \ {0}
  BY <1>1
<1> HIDE DEF a, b, x
<1>4. x % PageSize = 0 => x >= PageSize
  <2> SUFFICES ASSUME x < PageSize PROVE x % PageSize = x
    BY <1>1, <1>3
  <2>1. 0 \in Nat /\ x \in 0 .. PageSize - 1
    BY <1>1, <1>3
  <2>2. (0 * PageSize + x) % PageSize = x
    BY <1>1, <2>1, Division
  <2>3. 0 * PageSize + x = x
    BY <1>1, <1>3
  <2> QED
    BY <2>2, <2>3
<1>5. x \in Nat /\ (x % PageSize = 0 => x - PageSize \in Nat)
  BY <1>1, <1>3, <1>4
<1>6. NextAddress(t, l) \in Nat
  BY <1>5, <1>21
<1> QED
  BY <1>1, <1>2, <1>21, <1>22, <1>6 DEF a

LEMMA RangeTypes ==
  ASSUME TypesInv, CountsInv, NEW t \in Threads, InvalidateRange(t)
  PROVE  TypesInv' /\ CountsInv'
<1>1. ASSUME NEW start \in FrameStarts, StartRange(t, start)
      PROVE  TypesInv' /\ CountsInv'
  <2>1. /\ pc[t] = "idle" /\ UNCHANGED <<lines, access_counter, recent, policy, requests>>
        /\ pc' = [pc EXCEPT ![t] = RangeStep(1)]
        /\ req' = [req EXCEPT ![t] = [NoRequest EXCEPT !.address = start]]
        /\ unsaved' \subseteq unsaved
    BY <1>1 DEF StartRange, Goto
  <2>2. req' \in [Threads -> Requested]
    <3>1. [NoRequest EXCEPT !.address = start] \in Requested
      BY CacheAssumption DEF NoRequest, Requested
    <3> QED
      BY <2>1, <3>1 DEF TypesInv
  <2>3. \A k \in Levels : Left(k, RangeStep(1)) <= Left(k, pc[t])
    <3>1. 1 \in Levels
      BY DEF Levels
    <3> QED
      BY <2>1, <3>1, RangeLeft
  <2>4. Called /\ unsaved' \subseteq Addresses
    BY <2>1 DEF TypesInv, Called, LinesType
  <2> QED
    BY <2>1, <2>2, <2>3, <2>4, OtherTypes
<1>2. ASSUME NEW l \in Levels, InvalidateBlock(t, l)
      PROVE  TypesInv' /\ CountsInv'
  <2>1. /\ pc[t] = RangeStep(l) /\ UNCHANGED <<policy, requests, unsaved>>
        /\ Invalidate(l, req[t].address) /\ req[t].address \in Nat
        /\ req' = [req EXCEPT ![t].address = NextAddress(t, l)]
        /\ pc' = [pc EXCEPT ![t] = NextStep(t, l)]
        /\ NextAddress(t, l) \in Nat
    BY <1>2, BlockGone
  <2>2. Called /\ access_counter' = access_counter
    BY <2>1, InvalidateCalled
  <2>3. req' \in [Threads -> Requested] /\ unsaved' \subseteq Addresses
    BY <2>1 DEF TypesInv, Requested
  <2>4. \A k \in Levels : Left(k, NextStep(t, l)) <= Left(k, pc[t])
    <3> TAKE k \in Levels
    <3>1. Left(k, pc[t]) = 0 /\ Left(k, "idle") = 0
      BY <2>1, RangeLeft
    <3>2. l < 3 => Left(k, RangeStep(l + 1)) = 0
      <4>1. l < 3 => l + 1 \in Levels
        BY DEF Levels
      <4> QED
        BY <4>1, RangeLeft
    <3> QED
      BY <3>1, <3>2 DEF NextStep
  <2> QED
    BY <2>1, <2>2, <2>3, <2>4, OtherTypes
<1> QED
  BY <1>1, <1>2 DEF InvalidateRange

LEMMA TypesStep == TypesInv /\ CountsInv /\ [Next]_vars => TypesInv' /\ CountsInv'
<1> SUFFICES ASSUME TypesInv, CountsInv, [Next]_vars
             PROVE  TypesInv' /\ CountsInv'
  OBVIOUS
<1>1. ASSUME NEW t \in Threads, Request(t) PROVE TypesInv' /\ CountsInv'
  BY <1>1, RequestTypes
<1>2. ASSUME NEW t \in Threads, InvalidateRange(t) PROVE TypesInv' /\ CountsInv'
  BY <1>2, RangeTypes
<1>3. ASSUME NEW p \in Policies, SetPolicy(p) PROVE TypesInv' /\ CountsInv'
  <2>1. /\ policy' = p
        /\ UNCHANGED <<lines, access_counter, recent, unsaved, pc, req, requests>>
    BY <1>3 DEF SetPolicy
  <2> QED
    BY <2>1 DEF TypesInv, LinesType, CountsInv, Due
<1>4. CASE UNCHANGED vars
  BY <1>4 DEF vars, TypesInv, LinesType, CountsInv, Due
<1> QED
  BY <1>1, <1>2, <1>3, <1>4 DEF Next

LEMMA TypesInit == Init => TypesInv /\ CountsInv
<1> SUFFICES ASSUME Init PROVE TypesInv /\ CountsInv
  OBVIOUS
<1>1. LinesType
  <2>1. NoLine \in Line
    BY DEF NoLine, Line
  <2> QED
    BY <2>1 DEF Init, LinesType
<1>2. recent \in [Levels -> Seq(Nat)] /\ access_counter \in [Levels -> Nat]
  BY DEF Init
<1>3. req \in [Threads -> Requested]
  BY DEF Init, NoRequest, Requested
<1>4. requests \in 0 .. MaxRequests /\ policy \in Policies /\ unsaved = {} /\ DOMAIN pc = Threads
  BY CacheAssumption DEF Init
<1>5. CountsInv
  <2> SUFFICES ASSUME NEW l \in Levels
               PROVE  /\ IsFiniteSet(Due(l))
                      /\ access_counter[l] + Cardinality(Due(l)) <= 2 * requests
    BY DEF CountsInv
  <2>1. Due(l) = {}
    <3>1. \A t \in Threads : Left(l, pc[t]) = 0
      BY RangeLeft DEF Init
    <3> QED
      BY <3>1 DEF Due
  <2>2. IsFiniteSet(Due(l)) /\ Cardinality(Due(l)) = 0
    BY <2>1, FS_EmptySet
  <2> QED
    BY <2>2 DEF Init
<1> QED
  BY <1>1, <1>2, <1>3, <1>4, <1>5 DEF TypesInv

LEMMA Types == Spec => [](TypesInv /\ CountsInv)
BY TypesInit, TypesStep, PTL DEF Spec

LEMMA TypesImply == TypesInv /\ CountsInv => TypeOK
<1> SUFFICES ASSUME TypesInv, CountsInv PROVE TypeOK
  OBVIOUS
<1>1. ASSUME NEW l \in Levels PROVE access_counter[l] \in 0 .. 2 * MaxRequests
  <2>1. /\ access_counter[l] \in Nat /\ requests \in 0 .. MaxRequests /\ MaxRequests \in Nat
        /\ access_counter[l] + Cardinality(Due(l)) <= 2 * requests
    BY <1>1, CacheAssumption DEF TypesInv, CountsInv
  <2>2. Cardinality(Due(l)) \in Nat
    BY <1>1, FS_CardinalityType DEF CountsInv
  <2> QED
    BY <2>1, <2>2
<1>2. access_counter \in [Levels -> 0 .. 2 * MaxRequests]
  BY <1>1 DEF TypesInv
<1>3. \A l \in Levels : \A s \in Sets(l) : lines[l][s] \in [Ways(l) -> Line]
  BY DEF TypesInv, LinesType
<1>4. \A l \in Levels : recent[l] \in Seq(Nat)
  BY DEF TypesInv
<1> QED
  BY <1>2, <1>3, <1>4 DEF TypeOK, TypesInv, Requested

\* Every variable of the caches has its type, however the requests of the threads
\* interleave: no counter runs ahead of the two accesses that a request makes of
\* a level at most, and what an evicted line's address is computed from is a line.
THEOREM CachesTypeCorrect == Spec => []TypeOK
BY Types, TypesImply, PTL

-----------------------------------------------------------------------------
(* Blocks and their order.  One thread: what a request found missing stays  *)
(* missing until the request itself inserts it.                            *)

SingleThread == \A t, u \in Threads : t = u

\* p was asked for after q, and its time says so.
Newer(asked, p, q) ==
  q.last_access_time < p.last_access_time /\ Before(asked, p.block, q.block)

\* The valid lines of a level: each is in its block's set and no newer than the
\* level's counter, and two of a set differ in block and in age.
InOrder(l, rows, count, asked) ==
  \A s \in Sets(l) : \A w \in Ways(l) : rows[s][w].valid =>
    /\ rows[s][w].block % NumSets[l] = s
    /\ rows[s][w].last_access_time <= count
    /\ rows[s][w].block \in In(asked)
    /\ \A x \in Ways(l) : x # w /\ rows[s][x].valid =>
         /\ rows[s][x].block # rows[s][w].block
         /\ Newer(asked, rows[s][w], rows[s][x]) \/ Newer(asked, rows[s][x], rows[s][w])

\* The level was asked for block b and does not have it; whatever it has is older.
Lacks(l, rows, count, asked, b) ==
  /\ b \in In(asked)
  /\ \A s \in Sets(l) : \A w \in Ways(l) : rows[s][w].valid =>
       /\ rows[s][w].block # b
       /\ rows[s][w].last_access_time < count
       /\ Before(asked, b, rows[s][w].block)

Ordered(l) == InOrder(l, lines[l], access_counter[l], recent[l])
Missing(l, a) == Lacks(l, lines[l], access_counter[l], recent[l], Block(l, a))

OrderInv == \A l \in Levels : Ordered(l)

\* No line is new, and none is newer.
NoNewLine(l, rows, next) ==
  \A s \in Sets(l) : \A w \in Ways(l) : next[s][w].valid =>
    /\ rows[s][w].valid
    /\ next[s][w].block = rows[s][w].block
    /\ next[s][w].last_access_time = rows[s][w].last_access_time

LEMMA OrderKept ==
  ASSUME NEW l, NEW rows, NEW next, NEW count, NEW asked,
         NoNewLine(l, rows, next), InOrder(l, rows, count, asked)
  PROVE  InOrder(l, next, count, asked)
<1>1. ASSUME NEW s \in Sets(l), NEW w \in Ways(l), next[s][w].valid
      PROVE  /\ next[s][w].block % NumSets[l] = s
             /\ next[s][w].last_access_time <= count
             /\ next[s][w].block \in In(asked)
  BY <1>1 DEF NoNewLine, InOrder
<1>2. ASSUME NEW s \in Sets(l), NEW w \in Ways(l), next[s][w].valid,
             NEW x \in Ways(l), x # w, next[s][x].valid
      PROVE  /\ next[s][x].block # next[s][w].block
             /\ \/ Newer(asked, next[s][w], next[s][x])
                \/ Newer(asked, next[s][x], next[s][w])
  <2>1. /\ next[s][w].block = rows[s][w].block /\ next[s][x].block = rows[s][x].block
        /\ next[s][w].last_access_time = rows[s][w].last_access_time
        /\ next[s][x].last_access_time = rows[s][x].last_access_time
        /\ rows[s][w].valid /\ rows[s][x].valid
    BY <1>2 DEF NoNewLine
  <2>2. /\ rows[s][x].block # rows[s][w].block
        /\ \/ Newer(asked, rows[s][w], rows[s][x])
           \/ Newer(asked, rows[s][x], rows[s][w])
    BY <1>2, <2>1 DEF InOrder
  <2> QED
    BY <2>1, <2>2 DEF Newer
<1> QED
  BY <1>1, <1>2 DEF InOrder

LEMMA LacksKept ==
  ASSUME NEW l, NEW rows, NEW next, NEW count, NEW asked, NEW b,
         NoNewLine(l, rows, next), Lacks(l, rows, count, asked, b)
  PROVE  Lacks(l, next, count, asked, b)
BY DEF NoNewLine, Lacks

\* The lines of a level whose times, counter and list the step leaves alone.
KeptLevel(l) ==
  /\ access_counter'[l] = access_counter[l] /\ recent'[l] = recent[l]
  /\ NoNewLine(l, lines[l], lines'[l])

LEMMA LevelKept ==
  ASSUME NEW l \in Levels, KeptLevel(l)
  PROVE  /\ Ordered(l) => Ordered(l)'
         /\ \A a \in Nat : Missing(l, a) => Missing(l, a)'
<1>1. Ordered(l) => Ordered(l)'
  BY OrderKept DEF KeptLevel, Ordered
<1>2. ASSUME NEW a \in Nat, Missing(l, a) PROVE Missing(l, a)'
  BY <1>2, LacksKept DEF KeptLevel, Missing
<1> QED
  BY <1>1, <1>2

\* What access() does to the list and the times.
ToFront(asked, later, b) ==
  /\ b \in In(later) /\ In(asked) \subseteq In(later)
  /\ \A y \in In(asked) : y # b => Before(later, b, y)
  /\ \A x, y \in In(asked) :
       x # b /\ y # b /\ Before(asked, x, y) => Before(later, x, y)

Renewed(l, rows, next, b, time) ==
  \A s \in Sets(l) : \A w \in Ways(l) :
    /\ next[s][w].valid = rows[s][w].valid /\ next[s][w].block = rows[s][w].block
    /\ rows[s][w].valid =>
         next[s][w].last_access_time =
           IF rows[s][w].block = b THEN time ELSE rows[s][w].last_access_time

LEMMA AccessOrders ==
  ASSUME NEW l, NEW rows, NEW next, NEW count \in Nat, NEW asked, NEW later, NEW b,
         \A s \in Sets(l) : \A w \in Ways(l) : rows[s][w].last_access_time \in Nat,
         InOrder(l, rows, count, asked), ToFront(asked, later, b),
         Renewed(l, rows, next, b, count + 1)
  PROVE  /\ InOrder(l, next, count + 1, later)
         /\ (\A s \in Sets(l) : \A w \in Ways(l) : rows[s][w].valid => rows[s][w].block # b)
            => Lacks(l, next, count + 1, later, b)
<1>1. ASSUME NEW s \in Sets(l), NEW w \in Ways(l), next[s][w].valid
      PROVE  /\ rows[s][w].valid
             /\ next[s][w].block = rows[s][w].block
             /\ next[s][w].last_access_time =
                  IF rows[s][w].block = b THEN count + 1 ELSE rows[s][w].last_access_time
             /\ rows[s][w].block % NumSets[l] = s
             /\ rows[s][w].last_access_time <= count
             /\ rows[s][w].last_access_time \in Nat
             /\ rows[s][w].block \in In(asked)
  BY <1>1 DEF Renewed, InOrder
<1>2. ASSUME NEW s \in Sets(l), NEW w \in Ways(l), next[s][w].valid
      PROVE  /\ next[s][w].block % NumSets[l] = s
             /\ next[s][w].last_access_time <= count + 1
             /\ next[s][w].block \in In(later)
  BY <1>1, <1>2 DEF ToFront
<1>3. ASSUME NEW p, NEW q, NEW old, NEW new,
             p.last_access_time \in Nat, q.last_access_time \in Nat,
             p.last_access_time <= count, q.last_access_time <= count,
             p.block \in In(asked), q.block \in In(asked), Newer(asked, p, q),
             p.block # q.block, p.block # b, q.block # b,
             new.block = p.block, new.last_access_time = p.last_access_time,
             old.block = q.block, old.last_access_time = q.last_access_time
      PROVE  Newer(later, new, old)
  BY <1>3 DEF Newer, ToFront
<1>4. ASSUME NEW q, NEW old, NEW new,
             q.last_access_time \in Nat, q.last_access_time <= count,
             q.block \in In(asked), q.block # b,
             new.block = b, new.last_access_time = count + 1,
             old.block = q.block, old.last_access_time = q.last_access_time
      PROVE  Newer(later, new, old)
  BY <1>4 DEF Newer, ToFront
<1>5. ASSUME NEW s \in Sets(l), NEW w \in Ways(l), next[s][w].valid,
             NEW x \in Ways(l), x # w, next[s][x].valid
      PROVE  /\ next[s][x].block # next[s][w].block
             /\ \/ Newer(later, next[s][w], next[s][x])
                \/ Newer(later, next[s][x], next[s][w])
  <2>1. /\ rows[s][x].block # rows[s][w].block
        /\ \/ Newer(asked, rows[s][w], rows[s][x])
           \/ Newer(asked, rows[s][x], rows[s][w])
    BY <1>1, <1>5 DEF InOrder
  <2>2. /\ rows[s][w].last_access_time \in Nat /\ rows[s][x].last_access_time \in Nat
        /\ rows[s][w].last_access_time <= count /\ rows[s][x].last_access_time <= count
        /\ rows[s][w].block \in In(asked) /\ rows[s][x].block \in In(asked)
        /\ next[s][w].block = rows[s][w].block /\ next[s][x].block = rows[s][x].block
    BY <1>1, <1>5
  <2>3. CASE rows[s][w].block = b
    <3>1. /\ next[s][w].last_access_time = count + 1
          /\ next[s][x].last_access_time = rows[s][x].last_access_time
      BY <1>1, <1>5, <2>1, <2>3
    <3>2. Newer(later, next[s][w], next[s][x])
      BY <1>4, <2>1, <2>2, <2>3, <3>1
    <3> QED
      BY <2>1, <2>2, <3>2
  <2>4. CASE rows[s][x].block = b
    <3>1. /\ next[s][x].last_access_time = count + 1
          /\ next[s][w].last_access_time = rows[s][w].last_access_time
      BY <1>1, <1>5, <2>1, <2>4
    <3>2. Newer(later, next[s][x], next[s][w])
      BY <1>4, <2>1, <2>2, <2>4, <3>1
    <3> QED
      BY <2>1, <2>2, <3>2
  <2>5. CASE rows[s][w].block # b /\ rows[s][x].block # b
    <3>1. /\ next[s][w].last_access_time = rows[s][w].last_access_time
          /\ next[s][x].last_access_time = rows[s][x].last_access_time
      BY <1>1, <1>5, <2>5
    <3> QED
      BY <1>3, <2>1, <2>2, <2>5, <3>1
  <2> QED
    BY <2>3, <2>4, <2>5
<1>6. InOrder(l, next, count + 1, later)
  BY <1>2, <1>5 DEF InOrder
<1>7. ASSUME \A s \in Sets(l) : \A w \in Ways(l) : rows[s][w].valid => rows[s][w].block # b
      PROVE  Lacks(l, next, count + 1, later, b)
  <2>1. ASSUME NEW s \in Sets(l), NEW w \in Ways(l), next[s][w].valid
        PROVE  /\ next[s][w].block # b
               /\ next[s][w].last_access_time < count + 1
               /\ Before(later, b, next[s][w].block)
    <3>1. rows[s][w].block # b
      BY <1>1, <1>7, <2>1
    <3> QED
      BY <1>1, <2>1, <3>1 DEF ToFront
  <2> QED
    BY <2>1 DEF Lacks, ToFront
<1> QED
  BY <1>6, <1>7

\* What insert() does: the block it loads is in no line, and older are the others.
LEMMA InsertOrders ==
  ASSUME NEW l, NEW rows, NEW next, NEW count \in Nat, NEW asked, NEW b,
         NEW here \in Sets(l), NEW way \in Ways(l),
         InOrder(l, rows, count, asked), Lacks(l, rows, count, asked, b),
         b % NumSets[l] = here,
         \A s \in Sets(l) : \A w \in Ways(l) :
           ~(s = here /\ w = way) => next[s][w] = rows[s][w],
         next[here][way].block = b, next[here][way].last_access_time = count
  PROVE  InOrder(l, next, count, asked)
<1>1. ASSUME NEW s \in Sets(l), NEW w \in Ways(l), next[s][w].valid
      PROVE  /\ next[s][w].block % NumSets[l] = s
             /\ next[s][w].last_access_time <= count
             /\ next[s][w].block \in In(asked)
  BY <1>1 DEF InOrder, Lacks
<1>2. ASSUME NEW w \in Ways(l), w # way, next[here][w].valid
      PROVE  /\ next[here][w].block # b
             /\ Newer(asked, next[here][way], next[here][w])
  <2>1. next[here][w] = rows[here][w] /\ rows[here][w].valid
    BY <1>2
  <2> QED
    BY <1>2, <2>1 DEF Lacks, Newer
<1>3. ASSUME NEW s \in Sets(l), NEW w \in Ways(l), next[s][w].valid,
             NEW x \in Ways(l), x # w, next[s][x].valid
      PROVE  /\ next[s][x].block # next[s][w].block
             /\ \/ Newer(asked, next[s][w], next[s][x])
                \/ Newer(asked, next[s][x], next[s][w])
  <2>1. CASE s = here /\ w = way
    BY <1>2, <1>3, <2>1
  <2>2. CASE s = here /\ x = way
    BY <1>2, <1>3, <2>2
  <2>3. CASE ~(s = here /\ w = way) /\ ~(s = here /\ x = way)
    <3>1. next[s][w] = rows[s][w] /\ next[s][x] = rows[s][x]
      BY <2>3
    <3> QED
      BY <1>3, <3>1 DEF InOrder
  <2> QED
    BY <2>1, <2>2, <2>3
<1> QED
  BY <1>1, <1>3 DEF InOrder

\* Of the lines of a level, the first that holds a block is the only one that does.
LEMMA HolderIs ==
  ASSUME TypesInv, NEW l \in Levels, NEW a \in Nat, Ordered(l),
         NEW s \in Sets(l), NEW w \in Ways(l), lines[l][s][w].valid
  PROVE  lines[l][s][w].block = Block(l, a)
           <=> s = SetOf(l, a) /\ FirstHolding(l, a, w)
<1>1. Block(l, a) % NumSets[l] = SetOf(l, a)
  BY AddressType
<1>2. ASSUME lines[l][s][w].block = Block(l, a)
      PROVE  s = SetOf(l, a) /\ FirstHolding(l, a, w)
  <2>1. s = SetOf(l, a)
    BY <1>1, <1>2 DEF Ordered, InOrder
  <2>2. Holds(l, a, w)
    BY <1>2, <2>1 DEF Holds, LineAt
  <2>3. ASSUME NEW x \in Ways(l), x < w, Holds(l, a, x) PROVE FALSE
    <3>1. lines[l][s][x].valid /\ lines[l][s][x].block = Block(l, a)
      BY <2>1, <2>3 DEF Holds, LineAt
    <3>2. x # w
      BY <2>3 DEF Ways
    <3> QED
      BY <1>2, <3>1, <3>2 DEF Ordered, InOrder
  <2> QED
    BY <2>1, <2>2, <2>3 DEF FirstHolding
<1>3. ASSUME s = SetOf(l, a), FirstHolding(l, a, w)
      PROVE  lines[l][s][w].block = Block(l, a)
  BY <1>3 DEF FirstHolding, Holds, LineAt
<1> QED
  BY <1>2, <1>3

\* What the calls promise of the levels' order, and of what other blocks miss.
OthersKept(l) ==
  \A k \in Levels, a \in Nat : k # l /\ Missing(k, a) => Missing(k, a)'

LEMMA AccessKeeps ==
  ASSUME TypesInv, OrderInv, SingleThread, NEW t \in Threads, NEW l \in Levels,
         NEW a \in Nat, NEW write \in BOOLEAN, Access(t, l, a, write)
  PROVE  /\ OrderInv' /\ OthersKept(l)
         /\ ~Has(l, a) => Missing(l, a)'
<1> DEFINE b == Block(l, a)
<1>1. Touched(l, a)
  BY AccessTouches
<1>2. /\ \A k \in Levels : k # l => recent'[k] = recent[k]
      /\ ToFront(recent[l], recent'[l], b)
  <2>1. Asked(l, a)
    BY DEF Access
  <2> QED
    BY <2>1, AskedMoves DEF ToFront
<1>3. /\ access_counter'[l] = access_counter[l] + 1 /\ access_counter[l] \in Nat
      /\ \A k \in Levels : k # l => access_counter'[k] = access_counter[k]
  <2>1. access_counter' = [access_counter EXCEPT ![l] = @ + 1]
    BY DEF Access, Count, SingleThread
  <2> QED
    BY <2>1 DEF TypesInv
<1>4. ASSUME NEW k \in Levels, k # l PROVE KeptLevel(k)
  <2>1. NoNewLine(k, lines[k], lines'[k])
    BY <1>1, <1>4 DEF Touched, NoNewLine
  <2> QED
    BY <1>2, <1>3, <1>4, <2>1 DEF KeptLevel
<1>5. Renewed(l, lines[l], lines'[l], b, access_counter[l] + 1)
  <2>1. ASSUME NEW s \in Sets(l), NEW w \in Ways(l)
        PROVE  /\ lines'[l][s][w].valid = lines[l][s][w].valid
               /\ lines'[l][s][w].block = lines[l][s][w].block
               /\ lines[l][s][w].valid =>
                    lines'[l][s][w].last_access_time =
                      IF lines[l][s][w].block = b THEN access_counter[l] + 1
                      ELSE lines[l][s][w].last_access_time
    <3>1. lines[l][s][w].valid =>
            (lines[l][s][w].block = b <=> s = SetOf(l, a) /\ FirstHolding(l, a, w))
      BY HolderIs DEF OrderInv
    <3> HIDE DEF b
    <3> QED
      BY <1>1, <1>3, <3>1 DEF Touched
  <2> HIDE DEF b
  <2> QED
    BY <2>1 DEF Renewed
<1>6. \A s \in Sets(l) : \A w \in Ways(l) : lines[l][s][w].last_access_time \in Nat
  BY DEF TypesInv, LinesType, Line
<1>7. /\ InOrder(l, lines'[l], access_counter'[l], recent'[l])
      /\ (\A s \in Sets(l) : \A w \in Ways(l) : lines[l][s][w].valid => lines[l][s][w].block # b)
         => Lacks(l, lines'[l], access_counter'[l], recent'[l], b)
  <2>1. InOrder(l, lines[l], access_counter[l], recent[l])
    BY DEF OrderInv, Ordered
  <2> HIDE DEF b
  <2> QED
    BY <1>2, <1>3, <1>5, <1>6, <2>1, AccessOrders
<1>8. OrderInv'
  <2>1. \A k \in Levels : k # l => Ordered(k)'
    BY <1>4, LevelKept DEF OrderInv
  <2>2. Ordered(l)'
    BY <1>7 DEF Ordered
  <2> QED
    BY <2>1, <2>2 DEF OrderInv
<1>9. OthersKept(l)
  BY <1>4, LevelKept DEF OthersKept
<1>10. ASSUME ~Has(l, a) PROVE Missing(l, a)'
  <2>1. ASSUME NEW s \in Sets(l), NEW w \in Ways(l), lines[l][s][w].valid
        PROVE  lines[l][s][w].block # b
    <3>1. ~FirstHolding(l, a, w)
      BY <1>10 DEF Has, FirstHolding
    <3> QED
      BY <2>1, <3>1, HolderIs DEF OrderInv
  <2> QED
    BY <1>7, <2>1 DEF Missing
<1> QED
  BY <1>8, <1>9, <1>10

LEMMA InsertKeeps ==
  ASSUME TypesInv, OrderInv, NEW l \in Levels, NEW a \in Nat,
         NEW write \in BOOLEAN, Insert(l, a, write), Missing(l, a)
  PROVE  OrderInv' /\ OthersKept(l)
<1>1. Filled(l, a) /\ UNCHANGED <<access_counter, recent>>
  BY InsertFills
<1>2. /\ SetOf(l, a) \in Sets(l) /\ Victim(l, a) \in Ways(l)
      /\ Block(l, a) % NumSets[l] = SetOf(l, a)
  BY AddressType, VictimFound
<1>3. ASSUME NEW k \in Levels, k # l PROVE KeptLevel(k)
  <2>1. NoNewLine(k, lines[k], lines'[k])
    BY <1>1, <1>3 DEF Filled, NoNewLine
  <2> QED
    BY <1>1, <2>1 DEF KeptLevel
<1>4. Ordered(l)'
  <2>1. /\ \A s \in Sets(l) : \A w \in Ways(l) :
             ~(s = SetOf(l, a) /\ w = Victim(l, a)) => lines'[l][s][w] = lines[l][s][w]
        /\ lines'[l][SetOf(l, a)][Victim(l, a)].block = Block(l, a)
        /\ lines'[l][SetOf(l, a)][Victim(l, a)].last_access_time = access_counter[l]
    BY <1>1 DEF Filled
  <2>2. /\ InOrder(l, lines[l], access_counter[l], recent[l])
        /\ Lacks(l, lines[l], access_counter[l], recent[l], Block(l, a))
    BY DEF OrderInv, Ordered, Missing
  <2>3. access_counter[l] \in Nat
    BY DEF TypesInv
  <2>4. InOrder(l, lines'[l], access_counter[l], recent[l])
    <3> DEFINE rows == lines[l]
               next == lines'[l]
               count == access_counter[l]
               asked == recent[l]
               b == Block(l, a)
               here == SetOf(l, a)
               way == Victim(l, a)
    <3> SUFFICES InOrder(l, next, count, asked)
      OBVIOUS
    <3>1. /\ count \in Nat /\ here \in Sets(l) /\ way \in Ways(l)
          /\ InOrder(l, rows, count, asked) /\ Lacks(l, rows, count, asked, b)
          /\ b % NumSets[l] = here
          /\ \A s \in Sets(l) : \A w \in Ways(l) :
               ~(s = here /\ w = way) => next[s][w] = rows[s][w]
          /\ next[here][way].block = b /\ next[here][way].last_access_time = count
      BY <1>2, <2>1, <2>2, <2>3
    <3> HIDE DEF rows, next, count, asked, b, here, way
    <3> QED
      BY <3>1, InsertOrders
  <2> QED
    BY <1>1, <2>4 DEF Ordered
<1>5. \A k \in Levels : k # l => Ordered(k)'
  BY <1>3, LevelKept DEF OrderInv
<1> QED
  BY <1>3, <1>4, <1>5, LevelKept DEF OrderInv, OthersKept

LEMMA InvalidateKeeps ==
  ASSUME TypesInv, OrderInv, NEW l \in Levels, NEW a \in Nat, Invalidate(l, a)
  PROVE  OrderInv' /\ \A k \in Levels, b \in Nat : Missing(k, b) => Missing(k, b)'
<1>1. Cleared(l, a) /\ UNCHANGED <<access_counter, recent>>
  BY InvalidateClears
<1>2. ASSUME NEW k \in Levels PROVE KeptLevel(k)
  BY <1>1 DEF Cleared, NoNewLine, KeptLevel
<1> QED
  BY <1>2, LevelKept DEF OrderInv

-----------------------------------------------------------------------------
(* What a request under way knows: the levels it will insert into miss its *)
(* block, from the probe that found it out to the insertion.               *)

Missed(step) ==
  CASE step \in {"probe2", "promote1", "back1", "writeback3", "fill1"}      -> {1}
    [] step \in {"probe3", "promote2", "back2", "back1of3", "fill2"}        -> {1, 2}
    [] step = "fetch3"                                                      -> {1, 2, 3}
    [] OTHER                                                                -> {}

MissedInv ==
  \A t \in Threads : \A l \in Missed(pc[t]) : Missing(l, req[t].address)

LEMMA MissedType ==
  ASSUME NEW step
  PROVE  Missed(step) \subseteq Levels
BY DEF Missed, Levels

\* What a thread's step may leave to be inserted.
LEMMA GoesOn ==
  ASSUME SingleThread, NEW t \in Threads, NEW a \in Nat, NEW step, DOMAIN pc = Threads,
         MissedInv, req[t].address = a, req'[t].address = a,
         pc' = [pc EXCEPT ![t] = step], NEW l \in Levels, OthersKept(l),
         \A k \in Missed(step) : (k # l /\ k \in Missed(pc[t])) \/ Missing(k, a)'
  PROVE  MissedInv'
<1> SUFFICES ASSUME NEW k \in Missed(step) PROVE Missing(k, a)'
  BY DEF MissedInv, SingleThread
<1>1. CASE k # l /\ k \in Missed(pc[t])
  <2>1. Missing(k, a) /\ k \in Levels
    BY <1>1, MissedType DEF MissedInv
  <2> QED
    BY <1>1, <2>1 DEF OthersKept
<1> QED
  BY <1>1

LEMMA ProbeKeeps ==
  ASSUME TypesInv, OrderInv, MissedInv, SingleThread, NEW t \in Threads, NEW l \in Levels,
         NEW hit, NEW miss, Probe(t, l, hit, miss),
         Missed(hit) \subseteq Missed(pc[t]) \ {l},
         Missed(miss) \subseteq Missed(pc[t]) \cup {l}
  PROVE  OrderInv' /\ MissedInv'
<1>1. PICK a \in Nat, write \in BOOLEAN : a = req[t].address /\ write = req[t].write
  BY RequestTyped
<1> DEFINE step == IF Has(l, a) THEN hit ELSE miss
<1>2. Access(t, l, a, write) /\ pc' = [pc EXCEPT ![t] = step] /\ req' = req
  BY <1>1 DEF Probe, SameRequest, Goto
<1>3. OrderInv' /\ OthersKept(l) /\ (~Has(l, a) => Missing(l, a)')
  BY <1>2, AccessKeeps
<1>4. \A k \in Missed(step) : (k # l /\ k \in Missed(pc[t])) \/ Missing(k, a)'
  BY <1>3
<1>5. DOMAIN pc = Threads /\ req[t].address = a /\ req'[t].address = a
  BY <1>1, <1>2 DEF TypesInv
<1> HIDE DEF step
<1>6. MissedInv'
  BY <1>2, <1>3, <1>4, <1>5, GoesOn
<1> QED
  BY <1>3, <1>6

LEMMA WriteBackKeeps ==
  ASSUME TypesInv, OrderInv, MissedInv, SingleThread, NEW t \in Threads, NEW l \in Levels,
         NEW next, WriteBack(t, l, next), Missed(next) \subseteq Missed(pc[t]) \ {l}
  PROVE  OrderInv' /\ MissedInv'
<1>1. PICK a \in Nat, e \in Nat : a = req[t].address /\ e = req[t].evicted
  BY RequestTyped
<1>2. Access(t, l, e, TRUE) /\ pc' = [pc EXCEPT ![t] = next] /\ req' = req
  BY <1>1 DEF WriteBack, SameRequest, Goto
<1>3. OrderInv' /\ OthersKept(l)
  BY <1>2, AccessKeeps
<1>4. \A k \in Missed(next) : (k # l /\ k \in Missed(pc[t])) \/ Missing(k, a)'
  OBVIOUS
<1>5. DOMAIN pc = Threads /\ req[t].address = a /\ req'[t].address = a
  BY <1>1, <1>2 DEF TypesInv
<1>6. MissedInv'
  BY <1>2, <1>3, <1>4, <1>5, GoesOn
<1> QED
  BY <1>3, <1>6

LEMMA FillKeeps ==
  ASSUME TypesInv, OrderInv, MissedInv, SingleThread, NEW t \in Threads, NEW l \in Levels,
         NEW next, pc' = [pc EXCEPT ![t] = next],
         Insert(l, req[t].address, req[t].write), req'[t].address = req[t].address,
         l \in Missed(pc[t]), Missed(next) \subseteq Missed(pc[t]) \ {l}
  PROVE  OrderInv' /\ MissedInv'
<1>1. PICK a \in Nat, write \in BOOLEAN : a = req[t].address /\ write = req[t].write
  BY RequestTyped
<1>2. Insert(l, a, write) /\ Missing(l, a) /\ req'[t].address = a
  BY <1>1 DEF MissedInv
<1>3. OrderInv' /\ OthersKept(l)
  BY <1>2, InsertKeeps
<1>4. \A k \in Missed(next) : (k # l /\ k \in Missed(pc[t])) \/ Missing(k, a)'
  OBVIOUS
<1>5. DOMAIN pc = Threads
  BY DEF TypesInv
<1>6. MissedInv'
  BY <1>1, <1>2, <1>3, <1>4, <1>5, GoesOn
<1> QED
  BY <1>3, <1>6

LEMMA DropKeeps ==
  ASSUME TypesInv, OrderInv, MissedInv, SingleThread, NEW t \in Threads, NEW l \in Levels,
         NEW next, pc' = [pc EXCEPT ![t] = next], NEW a \in Nat, Invalidate(l, a),
         \/ req'[t].address = req[t].address /\ Missed(next) \subseteq Missed(pc[t])
         \/ Missed(next) = {}
  PROVE  OrderInv' /\ MissedInv'
<1>1. OrderInv' /\ \A k \in Levels, b \in Nat : Missing(k, b) => Missing(k, b)'
  BY InvalidateKeeps
<1>2. MissedInv'
  <2>1. CASE Missed(next) = {}
    BY <2>1 DEF MissedInv, TypesInv, SingleThread
  <2>2. CASE req'[t].address = req[t].address /\ Missed(next) \subseteq Missed(pc[t])
    <3>1. PICK b \in Nat : b = req[t].address
      BY RequestTyped
    <3>2. \A k \in Missed(next) : k \in Levels /\ Missing(k, b)
      BY <2>2, <3>1, MissedType DEF MissedInv
    <3>3. \A k \in Missed(next) : Missing(k, b)'
      BY <1>1, <3>2
    <3> QED
      BY <2>2, <3>1, <3>3 DEF MissedInv, TypesInv, SingleThread
  <2> QED
    BY <2>1, <2>2
<1> QED
  BY <1>1, <1>2

LEMMA MissedAt ==
  /\ Missed("idle") = {} /\ Missed("writeback2") = {}
  /\ \A step \in {"probe2", "promote1", "back1", "writeback3", "fill1"} : Missed(step) = {1}
  /\ \A step \in {"probe3", "promote2", "back2", "back1of3", "fill2"} : Missed(step) = {1, 2}
  /\ Missed("fetch3") = {1, 2, 3}
  /\ \A l \in Levels : Missed(RangeStep(l)) = {}
BY RangeSteps DEF Missed, Levels

LEMMA RequestOrders ==
  ASSUME TypesInv, OrderInv, MissedInv, SingleThread, NEW t \in Threads, Request(t)
  PROVE  OrderInv' /\ MissedInv'
<1> USE DEF Levels
<1>1. ASSUME NEW a \in Addresses, NEW write \in BOOLEAN, Start(t, a, write)
      PROVE  OrderInv' /\ MissedInv'
  <2>1. /\ Access(t, 1, a, write) /\ a \in Nat /\ 1 \in Levels /\ pc[t] = "idle"
        /\ pc' = [pc EXCEPT ![t] = IF Has(1, a) THEN "idle" ELSE "probe2"]
        /\ req' = [req EXCEPT ![t] = [NoRequest EXCEPT !.address = a, !.write = write]]
    BY <1>1, CacheAssumption DEF Start, Goto
  <2>2. OrderInv' /\ (~Has(1, a) => Missing(1, a)')
    BY <2>1, AccessKeeps
  <2>3. req'[t].address = a /\ pc'[t] = IF Has(1, a) THEN "idle" ELSE "probe2"
    BY <2>1 DEF TypesInv, NoRequest
  <2>4. ASSUME NEW k \in Missed(pc'[t]) PROVE Missing(k, a)'
    BY <2>2, <2>3, <2>4, MissedAt
  <2>5. MissedInv'
    BY <2>3, <2>4 DEF MissedInv, SingleThread
  <2> QED
    BY <2>2, <2>5
<1>2. ASSUME Probe2(t) PROVE OrderInv' /\ MissedInv'
  <2>1. pc[t] = "probe2" /\ Probe(t, 2, "promote1", "probe3")
    BY <1>2 DEF Probe2, At
  <2>2. /\ Missed("promote1") \subseteq Missed(pc[t]) \ {2}
        /\ Missed("probe3") \subseteq Missed(pc[t]) \cup {2}
    BY <2>1, MissedAt
  <2> QED
    BY <2>1, <2>2, ProbeKeeps
<1>3. ASSUME Probe3(t) PROVE OrderInv' /\ MissedInv'
  <2>1. pc[t] = "probe3" /\ Probe(t, 3, "promote2", "fetch3")
    BY <1>3 DEF Probe3, At
  <2>2. /\ Missed("promote2") \subseteq Missed(pc[t]) \ {3}
        /\ Missed("fetch3") \subseteq Missed(pc[t]) \cup {3}
    BY <2>1, MissedAt
  <2> QED
    BY <2>1, <2>2, ProbeKeeps
<1>4. ASSUME WriteBack2(t) PROVE OrderInv' /\ MissedInv'
  <2>1. pc[t] = "writeback2" /\ WriteBack(t, 2, "idle")
    BY <1>4 DEF WriteBack2, At
  <2>2. Missed("idle") \subseteq Missed(pc[t]) \ {2}
    BY MissedAt
  <2> QED
    BY <2>1, <2>2, WriteBackKeeps
<1>5. ASSUME WriteBack3(t) PROVE OrderInv' /\ MissedInv'
  <2>1. pc[t] = "writeback3" /\ WriteBack(t, 3, "fill1")
    BY <1>5 DEF WriteBack3, At
  <2>2. Missed("fill1") \subseteq Missed(pc[t]) \ {3}
    BY <2>1, MissedAt
  <2> QED
    BY <2>1, <2>2, WriteBackKeeps
<1>6. ASSUME NEW l \in Levels, NEW next, InsertNoting(t, l), Goto(t, next),
             l \in Missed(pc[t]), Missed(next) \subseteq Missed(pc[t]) \ {l}
      PROVE  OrderInv' /\ MissedInv'
  <2>1. req'[t].address = req[t].address
    BY <1>6, NotingTyped
  <2>2. Insert(l, req[t].address, req[t].write)
    BY <1>6 DEF InsertNoting
  <2> QED
    BY <1>6, <2>1, <2>2, FillKeeps DEF Goto
<1>7. ASSUME Promote1(t) PROVE OrderInv' /\ MissedInv'
  <2>1. PICK next \in {"idle", "writeback2"} :
          pc[t] = "promote1" /\ InsertNoting(t, 1) /\ Goto(t, next)
    BY <1>7 DEF Promote1, At
  <2>2. 1 \in Missed(pc[t]) /\ Missed(next) \subseteq Missed(pc[t]) \ {1}
    BY <2>1, MissedAt
  <2> QED
    BY <1>6, <2>1, <2>2
<1>8. ASSUME Promote2(t) PROVE OrderInv' /\ MissedInv'
  <2>1. PICK next \in {"back1", "fill1"} :
          pc[t] = "promote2" /\ InsertNoting(t, 2) /\ Goto(t, next)
    BY <1>8 DEF Promote2, At
  <2>2. 2 \in Missed(pc[t]) /\ Missed(next) \subseteq Missed(pc[t]) \ {2}
    BY <2>1, MissedAt
  <2> QED
    BY <1>6, <2>1, <2>2
<1>9. ASSUME Fetch3(t) PROVE OrderInv' /\ MissedInv'
  <2>1. PICK next \in {"back2", "fill2"} :
          pc[t] = "fetch3" /\ InsertNoting(t, 3) /\ Goto(t, next)
    BY <1>9 DEF Fetch3, At
  <2>2. 3 \in Missed(pc[t]) /\ Missed(next) \subseteq Missed(pc[t]) \ {3}
    BY <2>1, MissedAt
  <2> QED
    BY <1>6, <2>1, <2>2
<1>10. ASSUME NEW l \in Levels, NEW next, Invalidate(l, req[t].evicted), req' = req,
              Goto(t, next), Missed(next) \subseteq Missed(pc[t])
       PROVE  OrderInv' /\ MissedInv'
  <2>1. req[t].evicted \in Nat
    BY RequestTyped
  <2> QED
    BY <1>10, <2>1, DropKeeps DEF Goto
<1>11. ASSUME Back1(t) PROVE OrderInv' /\ MissedInv'
  <2>1. PICK next \in {"writeback3", "fill1"} :
          /\ pc[t] = "back1" /\ Invalidate(1, req[t].evicted) /\ req' = req
          /\ Goto(t, next)
    BY <1>11 DEF Back1, At, SameRequest
  <2>2. Missed(next) \subseteq Missed(pc[t])
    BY <2>1, MissedAt
  <2> QED
    BY <1>10, <2>1, <2>2
<1>12. ASSUME Back2(t) PROVE OrderInv' /\ MissedInv'
  <2>1. PICK next \in {"fill2", "back1of3"} :
          /\ pc[t] = "back2" /\ Invalidate(2, req[t].evicted) /\ req' = req
          /\ Goto(t, next)
    BY <1>12 DEF Back2, At
  <2>2. Missed(next) \subseteq Missed(pc[t])
    BY <2>1, MissedAt
  <2> QED
    BY <1>10, <2>1, <2>2
<1>13. ASSUME Back1Of3(t) PROVE OrderInv' /\ MissedInv'
  <2>1. /\ pc[t] = "back1of3" /\ Invalidate(1, req[t].evicted) /\ req' = req
        /\ Goto(t, "fill2")
    BY <1>13 DEF Back1Of3, At
  <2>2. Missed("fill2") \subseteq Missed(pc[t])
    BY <2>1, MissedAt
  <2> QED
    BY <1>10, <2>1, <2>2
<1>14. ASSUME NEW l \in Levels, NEW next, Fill(t, l, next),
              l \in Missed(pc[t]), Missed(next) \subseteq Missed(pc[t]) \ {l}
       PROVE  OrderInv' /\ MissedInv'
  <2>1. /\ Insert(l, req[t].address, req[t].write) /\ req'[t].address = req[t].address
        /\ pc' = [pc EXCEPT ![t] = next]
    BY <1>14 DEF Fill, SameRequest, Goto
  <2> QED
    BY <1>14, <2>1, FillKeeps
<1>15. ASSUME Fill2(t) PROVE OrderInv' /\ MissedInv'
  <2>1. pc[t] = "fill2" /\ Fill(t, 2, "fill1")
    BY <1>15 DEF Fill2, At
  <2>2. 2 \in Missed(pc[t]) /\ Missed("fill1") \subseteq Missed(pc[t]) \ {2}
    BY <2>1, MissedAt
  <2> QED
    BY <1>14, <2>1, <2>2
<1>16. ASSUME Fill1(t) PROVE OrderInv' /\ MissedInv'
  <2>1. pc[t] = "fill1" /\ Fill(t, 1, "idle")
    BY <1>16 DEF Fill1, At
  <2>2. 1 \in Missed(pc[t]) /\ Missed("idle") \subseteq Missed(pc[t]) \ {1}
    BY <2>1, MissedAt
  <2> QED
    BY <1>14, <2>1, <2>2
<1> QED
  BY <1>1, <1>2, <1>3, <1>4, <1>5, <1>7, <1>8, <1>9, <1>11, <1>12, <1>13, <1>15, <1>16
     DEF Request

LEMMA UnmovedOrder ==
  ASSUME OrderInv, MissedInv, UNCHANGED <<lines, access_counter, recent, pc>>,
         \A t \in Threads : Missed(pc[t]) # {} => req'[t] = req[t]
  PROVE  OrderInv' /\ MissedInv'
<1>1. OrderInv'
  BY DEF OrderInv, Ordered
<1>2. ASSUME NEW t \in Threads, NEW l \in Missed(pc[t]) PROVE Missing(l, req[t].address)'
  <2>1. Missing(l, req[t].address) /\ req'[t] = req[t]
    BY <1>2 DEF MissedInv
  <2> QED
    BY <2>1 DEF Missing
<1> QED
  BY <1>1, <1>2 DEF MissedInv

LEMMA RangeOrders ==
  ASSUME TypesInv, OrderInv, MissedInv, SingleThread, NEW t \in Threads, InvalidateRange(t)
  PROVE  OrderInv' /\ MissedInv'
<1>1. ASSUME NEW start \in FrameStarts, StartRange(t, start)
      PROVE  OrderInv' /\ MissedInv'
  <2>1. UNCHANGED <<lines, access_counter, recent>> /\ pc' = [pc EXCEPT ![t] = RangeStep(1)]
    BY <1>1 DEF StartRange, Goto
  <2>2. OrderInv'
    BY <2>1 DEF OrderInv, Ordered
  <2>3. Missed(pc'[t]) = {}
    <3>1. 1 \in Levels
      BY DEF Levels
    <3> QED
      BY <2>1, <3>1, MissedAt DEF TypesInv
  <2> QED
    BY <2>2, <2>3 DEF MissedInv, SingleThread
<1>2. ASSUME NEW l \in Levels, InvalidateBlock(t, l) PROVE OrderInv' /\ MissedInv'
  <2>1. /\ pc[t] = RangeStep(l) /\ Invalidate(l, req[t].address) /\ req[t].address \in Nat
        /\ pc' = [pc EXCEPT ![t] = NextStep(t, l)]
    BY <1>2, BlockGone
  <2>2. Missed(NextStep(t, l)) = {}
    <3>1. Missed(pc[t]) = {} /\ Missed("idle") = {}
      BY <2>1, MissedAt
    <3>2. l < 3 => Missed(RangeStep(l + 1)) = {}
      <4>1. l < 3 => l + 1 \in Levels
        BY DEF Levels
      <4> QED
        BY <4>1, MissedAt
    <3> QED
      BY <3>1, <3>2 DEF NextStep
  <2> QED
    BY <2>1, <2>2, DropKeeps
<1> QED
  BY <1>1, <1>2 DEF InvalidateRange

LEMMA OrderStep ==
  SingleThread /\ TypesInv /\ OrderInv /\ MissedInv /\ [Next]_vars => OrderInv' /\ MissedInv'
<1> SUFFICES ASSUME SingleThread, TypesInv, OrderInv, MissedInv, [Next]_vars
             PROVE  OrderInv' /\ MissedInv'
  OBVIOUS
<1>1. ASSUME NEW t \in Threads, Request(t) PROVE OrderInv' /\ MissedInv'
  BY <1>1, RequestOrders
<1>2. ASSUME NEW t \in Threads, InvalidateRange(t) PROVE OrderInv' /\ MissedInv'
  BY <1>2, RangeOrders
<1>3. ASSUME NEW p \in Policies, SetPolicy(p) PROVE OrderInv' /\ MissedInv'
  <2>1. UNCHANGED <<lines, access_counter, recent, pc, req>>
    BY <1>3 DEF SetPolicy
  <2> QED
    BY <2>1, UnmovedOrder
<1>4. CASE UNCHANGED vars
  BY <1>4, UnmovedOrder DEF vars
<1> QED
  BY <1>1, <1>2, <1>3, <1>4 DEF Next

LEMMA OrderInit == Init => OrderInv /\ MissedInv
<1> SUFFICES ASSUME Init PROVE OrderInv /\ MissedInv
  OBVIOUS
<1>1. OrderInv
  BY DEF Init, NoLine, OrderInv, Ordered, InOrder
<1>2. \A t \in Threads : Missed(pc[t]) = {}
  BY MissedAt DEF Init
<1> QED
  BY <1>1, <1>2 DEF MissedInv

LEMMA OneThread == SingleThread => (Spec => [](TypesInv /\ OrderInv /\ MissedInv))
<1> SUFFICES ASSUME SingleThread PROVE Spec => [](TypesInv /\ OrderInv /\ MissedInv)
  OBVIOUS
<1>1. TypesInv /\ OrderInv /\ MissedInv /\ [Next]_vars /\ TypesInv' =>
        (TypesInv /\ OrderInv /\ MissedInv)'
  BY OrderStep
<1>2. Init => OrderInv /\ MissedInv
  BY OrderInit
<1>3. Spec => []TypesInv
  BY Types, PTL
<1> QED
  BY <1>1, <1>2, <1>3, PTL DEF Spec

LEMMA OrderImplies == OrderInv => NoDuplicates
BY DEF OrderInv, Ordered, InOrder, NoDuplicates

\* With one thread, a block has one line of a level at most: whatever insert() loads
\* was found missing by a probe of the same request, and what the request did to the
\* level in between brought no line.  (Two threads break it.)
THEOREM BlocksOnce == SingleThread => (Spec => []NoDuplicates)
<1> SUFFICES ASSUME SingleThread PROVE Spec => []NoDuplicates
  OBVIOUS
<1> QED
  BY OneThread, OrderImplies, PTL

-----------------------------------------------------------------------------
(* What a step is to the levels.                                           *)

\* One call of one level, or none.
OneCall(t) ==
  \/ \E l \in Levels, a \in Nat, write \in BOOLEAN : Access(t, l, a, write)
  \/ \E l \in Levels, write \in BOOLEAN :
       l \in Missed(pc[t]) /\ Insert(l, req[t].address, write)
  \/ \E l \in Levels, a \in Nat : Invalidate(l, a)

LEMMA RequestCalls ==
  ASSUME TypesInv, NEW t \in Threads, Request(t)
  PROVE  OneCall(t)
<1> USE DEF Levels
<1>0. /\ req[t].address \in Nat /\ req[t].write \in BOOLEAN
      /\ req[t].evicted \in Nat /\ req[t].ev_dirty \in BOOLEAN
  BY RequestTyped
<1>1. ASSUME NEW a \in Addresses, NEW write \in BOOLEAN, Start(t, a, write)
      PROVE  OneCall(t)
  <2>1. Access(t, 1, a, write) /\ a \in Nat
    BY <1>1, CacheAssumption DEF Start
  <2> QED
    BY <2>1 DEF OneCall
<1>2. ASSUME Probe2(t) PROVE OneCall(t)
  <2>1. Access(t, 2, req[t].address, req[t].write)
    BY <1>2 DEF Probe2, Probe
  <2> QED
    BY <1>0, <2>1 DEF OneCall
<1>3. ASSUME Probe3(t) PROVE OneCall(t)
  <2>1. Access(t, 3, req[t].address, req[t].write)
    BY <1>3 DEF Probe3, Probe
  <2> QED
    BY <1>0, <2>1 DEF OneCall
<1>4. ASSUME WriteBack2(t) PROVE OneCall(t)
  <2>1. Access(t, 2, req[t].evicted, TRUE)
    BY <1>4 DEF WriteBack2, WriteBack
  <2>2. 2 \in Levels /\ TRUE \in BOOLEAN
    OBVIOUS
  <2> HIDE DEF Levels
  <2> QED
    BY <1>0, <2>1, <2>2, Zenon DEF OneCall
<1>5. ASSUME WriteBack3(t) PROVE OneCall(t)
  <2>1. Access(t, 3, req[t].evicted, TRUE)
    BY <1>5 DEF WriteBack3, WriteBack
  <2>2. 3 \in Levels /\ TRUE \in BOOLEAN
    OBVIOUS
  <2> HIDE DEF Levels
  <2> QED
    BY <1>0, <2>1, <2>2, Zenon DEF OneCall
<1>6. ASSUME NEW l \in Levels, Insert(l, req[t].address, req[t].write), l \in Missed(pc[t])
      PROVE  OneCall(t)
  BY <1>0, <1>6 DEF OneCall
<1>7. ASSUME Promote1(t) PROVE OneCall(t)
  <2>1. pc[t] = "promote1" /\ Insert(1, req[t].address, req[t].write)
    BY <1>7 DEF Promote1, InsertNoting, At
  <2> QED
    BY <1>6, <2>1, MissedAt
<1>8. ASSUME Promote2(t) PROVE OneCall(t)
  <2>1. pc[t] = "promote2" /\ Insert(2, req[t].address, req[t].write)
    BY <1>8 DEF Promote2, InsertNoting, At
  <2> QED
    BY <1>6, <2>1, MissedAt
<1>9. ASSUME Fetch3(t) PROVE OneCall(t)
  <2>1. pc[t] = "fetch3" /\ Insert(3, req[t].address, req[t].write)
    BY <1>9 DEF Fetch3, InsertNoting, At
  <2> QED
    BY <1>6, <2>1, MissedAt
<1>10. ASSUME Fill2(t) PROVE OneCall(t)
  <2>1. pc[t] = "fill2" /\ Insert(2, req[t].address, req[t].write)
    BY <1>10 DEF Fill2, Fill, At
  <2> QED
    BY <1>6, <2>1, MissedAt
<1>11. ASSUME Fill1(t) PROVE OneCall(t)
  <2>1. pc[t] = "fill1" /\ Insert(1, req[t].address, req[t].write)
    BY <1>11 DEF Fill1, Fill, At
  <2> QED
    BY <1>6, <2>1, MissedAt
<1>12. ASSUME NEW l \in Levels, Invalidate(l, req[t].evicted) PROVE OneCall(t)
  BY <1>0, <1>12 DEF OneCall
<1>13. ASSUME Back1(t) \/ Back2(t) \/ Back1Of3(t) PROVE OneCall(t)
  <2>1. \E l \in Levels : Invalidate(l, req[t].evicted)
    BY <1>13 DEF Back1, Back2, Back1Of3
  <2> QED
    BY <1>12, <2>1
<1> QED
  BY <1>1, <1>2, <1>3, <1>4, <1>5, <1>7, <1>8, <1>9, <1>10, <1>11, <1>13 DEF Request

LEMMA StepCalls ==
  ASSUME TypesInv, Next
  PROVE  (\E t \in Threads : OneCall(t)) \/ UNCHANGED lines
<1>1. ASSUME NEW t \in Threads, Request(t) PROVE \E u \in Threads : OneCall(u)
  BY <1>1, RequestCalls
<1>2. ASSUME NEW t \in Threads, InvalidateRange(t)
      PROVE  (\E u \in Threads : OneCall(u)) \/ UNCHANGED lines
  <2>1. ASSUME NEW start \in FrameStarts, StartRange(t, start) PROVE UNCHANGED lines
    BY <2>1 DEF StartRange
  <2>2. ASSUME NEW l \in Levels, InvalidateBlock(t, l) PROVE OneCall(t)
    <3>1. Invalidate(l, req[t].address) /\ req[t].address \in Nat
      BY <2>2, BlockGone
    <3> QED
      BY <3>1 DEF OneCall
  <2> QED
    BY <1>2, <2>1, <2>2 DEF InvalidateRange
<1>3. ASSUME NEW p \in Policies, SetPolicy(p) PROVE UNCHANGED lines
  BY <1>3 DEF SetPolicy
<1> QED
  BY <1>1, <1>2, <1>3 DEF Next

\* The line that insert() loads over is the least recently used of its set.
LeastRecent(l, s, w) ==
  \A x \in Ways(l) \ {w} : Before(recent[l], lines[l][s][x].block, lines[l][s][w].block)

LEMMA CallEvicts ==
  ASSUME TypesInv, OrderInv, policy = "LRU", NEW t \in Threads, OneCall(t),
         NEW l \in Levels, NEW s \in Sets(l), NEW w \in Ways(l),
         lines[l][s][w].valid, lines'[l][s][w].block # lines[l][s][w].block
  PROVE  LeastRecent(l, s, w)
<1>1. ASSUME NEW k \in Levels, NEW a \in Nat, NEW write \in BOOLEAN, Access(t, k, a, write)
      PROVE  FALSE
  BY <1>1, AccessTouches DEF Touched
<1>2. ASSUME NEW k \in Levels, NEW a \in Nat, Invalidate(k, a) PROVE FALSE
  BY <1>2, InvalidateClears DEF Cleared
<1>3. ASSUME NEW k \in Levels, NEW a \in Nat, NEW write \in BOOLEAN, Insert(k, a, write)
      PROVE  LeastRecent(l, s, w)
  <2>1. k = l /\ s = SetOf(l, a) /\ w = Victim(l, a)
    <3>1. lines'[l][s][w] # lines[l][s][w]
      OBVIOUS
    <3> QED
      BY <1>3, <3>1, InsertFills DEF Filled
  <2>2. VictimIs(l, a, w)
    BY <2>1, VictimFound
  <2>3. ASSUME NEW x \in Ways(l), x # w
        PROVE  Before(recent[l], lines[l][s][x].block, lines[l][s][w].block)
    <3>1. /\ lines[l][s][x].valid
          /\ lines[l][s][w].last_access_time <= lines[l][s][x].last_access_time
      BY <2>1, <2>2 DEF VictimIs, LineAt, Rank
    <3>2. /\ lines[l][s][w].last_access_time \in Nat /\ lines[l][s][x].last_access_time \in Nat
          /\ \/ Newer(recent[l], lines[l][s][w], lines[l][s][x])
             \/ Newer(recent[l], lines[l][s][x], lines[l][s][w])
      BY <2>3, <3>1 DEF OrderInv, Ordered, InOrder, TypesInv, LinesType, Line
    <3> QED
      BY <3>1, <3>2 DEF Newer
  <2> QED
    BY <2>3 DEF LeastRecent
<1>4. req[t].address \in Nat
  BY RequestTyped
<1> QED
  BY <1>1, <1>2, <1>3, <1>4 DEF OneCall

\* With one thread and the policy LRU, the line that makes room is the one whose block
\* the level was asked for least recently: the order of the times that insert()
\* compares is the order in which the blocks were last asked for, because a line is
\* inserted at the time of the probe that missed it, which no other line has.
THEOREM LeastRecentLeaves == SingleThread => (Spec => LRUEvictsLeastRecent)
<1> SUFFICES ASSUME SingleThread PROVE Spec => LRUEvictsLeastRecent
  OBVIOUS
<1> DEFINE Leaves ==
      policy = "LRU" =>
       \A l \in Levels : \A s \in Sets(l) : \A w \in Ways(l) :
         LET old == lines[l][s][w] IN
         old.valid /\ lines'[l][s][w].block # old.block =>
           \A x \in Ways(l) \ {w} :
             LET kept == lines[l][s][x] IN
             \E i, j \in DOMAIN recent[l] :
               i < j /\ recent[l][i] = kept.block /\ recent[l][j] = old.block
<1>1. ASSUME TypesInv, OrderInv, Next PROVE Leaves
  <2> SUFFICES ASSUME policy = "LRU", NEW l \in Levels, NEW s \in Sets(l), NEW w \in Ways(l),
                      lines[l][s][w].valid, lines'[l][s][w].block # lines[l][s][w].block
               PROVE  LeastRecent(l, s, w)
    BY DEF LeastRecent, Before
  <2>1. PICK t \in Threads : OneCall(t)
    BY <1>1, StepCalls
  <2> QED
    BY <1>1, <2>1, CallEvicts
<1>2. TypesInv /\ OrderInv /\ [Next]_vars => [Leaves]_vars
  BY <1>1
<1>3. Spec => [](TypesInv /\ OrderInv)
  BY OneThread, PTL
<1> HIDE DEF Leaves
<1>4. Spec => [][Leaves]_vars
  BY <1>2, <1>3, PTL DEF Spec
<1> QED
  BY <1>4 DEF Leaves, LRUEvictsLeastRecent

-----------------------------------------------------------------------------
(* The ranges that an eviction invalidates.  Pages are whole blocks of      *)
(* every level.                                                            *)

LEMMA Quotient ==
  ASSUME NEW x \in Nat, NEW d \in Nat \ {0}
  PROVE  /\ x \div d \in Nat /\ x % d \in 0 .. d - 1
         /\ x = (x \div d) * d + (x % d)
<1>1. x \div d \in Int /\ x % d \in 0 .. d - 1 /\ x = d * (x \div d) + (x % d)
  OBVIOUS
<1> DEFINE q == x \div d
           r == x % d
<1>2. q \in Int /\ r \in 0 .. d - 1 /\ x = d * q + r
  BY <1>1
<1> HIDE DEF q, r
<1>3. ~ (q <= -1)
  <2> SUFFICES ASSUME q <= -1 PROVE FALSE
    OBVIOUS
  <2>1. d * q <= -d
    BY <1>2
  <2> QED
    BY <1>2, <2>1
<1>4. q \in Nat /\ x = q * d + r
  BY <1>2, <1>3
<1> QED
  BY <1>2, <1>4 DEF q, r

LEMMA QuotientIs ==
  ASSUME NEW x \in Nat, NEW d \in Nat \ {0}, NEW m \in Nat, m * d <= x, x < m * d + d
  PROVE  x \div d = m /\ x % d = x - m * d
<1>1. x - m * d \in 0 .. d - 1 /\ x = m * d + (x - m * d)
  OBVIOUS
<1> DEFINE r == x - m * d
<1> HIDE DEF r
<1>2. r \in 0 .. d - 1 /\ x = m * d + r
  BY <1>1 DEF r
<1>3. (m * d + r) \div d = m /\ (m * d + r) % d = r
  BY <1>2, Division
<1> QED
  BY <1>2, <1>3 DEF r

\* Of two multiples, the one that is less is less by a whole step.
LEMMA WholeStep ==
  ASSUME NEW i \in Nat, NEW j \in Nat, NEW b \in Nat \ {0}, i * b < j * b
  PROVE  i * b + b <= j * b
<1>1. i < j
  <2> SUFFICES ASSUME j <= i PROVE FALSE
    OBVIOUS
  <2>1. (i - j) * b >= 0
    OBVIOUS
  <2> QED
    BY <2>1
<1>2. (j - i - 1) * b >= 0
  BY <1>1
<1> QED
  BY <1>2

LEMMA Multiple ==
  ASSUME NEW x \in Nat, NEW d \in Nat \ {0}, x % d = 0
  PROVE  \E i \in Nat : x = i * d
<1>1. x \div d \in Nat /\ x = (x \div d) * d + (x % d)
  BY Quotient
<1>2. x = (x \div d) * d
  BY <1>1
<1> QED
  BY <1>1, <1>2

LEMMA MultipleIs ==
  ASSUME NEW i \in Nat, NEW d \in Nat \ {0}
  PROVE  (i * d) % d = 0 /\ (i * d) \div d = i
<1>1. 0 \in 0 .. d - 1 /\ i * d + 0 = i * d
  OBVIOUS
<1>2. (i * d + 0) \div d = i /\ (i * d + 0) % d = 0
  BY <1>1, Division
<1> QED
  BY <1>1, <1>2

\* A step of b through pages of p: on in the page, or to the start of the next.
LEMMA StepInPage ==
  ASSUME NEW a \in Nat, NEW b \in Nat \ {0}, NEW p \in Nat \ {0}, a % b = 0, p % b = 0
  PROVE  LET m == a \div p
             x == a + b
         IN  /\ x % b = 0 /\ m \in Nat /\ m * p <= a
             /\ x % p # 0 => x \div p = m
             /\ x % p = 0 => x = m * p + p
<1> DEFINE m == a \div p
           x == a + b
<1>1. m \in Nat /\ m * p <= a /\ a < m * p + p
  <2>1. m \in Nat /\ a % p \in 0 .. p - 1 /\ a = m * p + (a % p)
    BY Quotient
  <2> HIDE DEF m
  <2> QED
    BY <2>1
<1> HIDE DEF m
<1>2. PICK i \in Nat, n \in Nat : a = i * b /\ p = n * b
  BY Multiple
<1>3. m * p + p = ((m + 1) * n) * b /\ (m + 1) * n \in Nat
  BY <1>1, <1>2
<1>4. x <= m * p + p
  <2> DEFINE j == (m + 1) * n
  <2>1. j \in Nat /\ m * p + p = j * b
    BY <1>3
  <2> HIDE DEF j
  <2>2. i * b < j * b
    BY <1>1, <1>2, <2>1
  <2>3. i * b + b <= j * b
    BY <2>1, <2>2, WholeStep
  <2> QED
    BY <1>2, <2>1, <2>3
<1>5. x % b = 0
  <2>1. x = (i + 1) * b /\ i + 1 \in Nat
    BY <1>2
  <2> HIDE DEF x
  <2> QED
    BY <2>1, MultipleIs
<1>6. x \in Nat /\ m * p <= x
  BY <1>1
<1> HIDE DEF x
<1>7. x < m * p + p => x \div p = m /\ x % p = x - m * p
  BY <1>1, <1>6, QuotientIs
<1>8. x = m * p + p => x % p = 0
  <2>1. m * p + p = (m + 1) * p /\ m + 1 \in Nat
    BY <1>1
  <2> QED
    BY <2>1, MultipleIs
<1>9. x # m * p
  BY <1>1 DEF x
<1>10. x % p # 0 => x \div p = m
  BY <1>1, <1>4, <1>6, <1>7, <1>8
<1>11. x % p = 0 => x = m * p + p
  BY <1>1, <1>4, <1>6, <1>7, <1>9
<1> QED
  BY <1>1, <1>5, <1>10, <1>11 DEF x, m

LEMMA RangeStepsDiffer ==
  /\ \A k, l \in Levels : RangeStep(k) = RangeStep(l) => k = l
  /\ \A l \in Levels : RangeStep(l) # "idle"
BY RangeSteps DEF Levels

\* The first address of a line's block.
First(l, line) == line.block * BlockSize[l]

\* Of page m, what may be left when level l is searched from address a on.
LeftFrom(rows, m, l, a) ==
  \A k \in Levels : \A s \in Sets(k) : \A w \in Ways(k) :
    rows[k][s][w].valid /\ First(k, rows[k][s][w]) \div PageSize = m =>
      k >= l /\ (k = l => a <= First(k, rows[k][s][w]))

RangeInv ==
  \A t \in Threads : \A l \in Levels : pc[t] = RangeStep(l) =>
    /\ req[t].address % BlockSize[l] = 0
    /\ LeftFrom(lines, req[t].address \div PageSize, l, req[t].address)

\* A block is invalidated: what is left of the page comes after it.
LEMMA LeftAfter ==
  ASSUME TypesInv, OrderInv, NEW l \in Levels, NEW a \in Nat, NEW m,
         Invalidate(l, a), a % BlockSize[l] = 0, LeftFrom(lines, m, l, a)
  PROVE  LeftFrom(lines', m, l, a + BlockSize[l])
<1> DEFINE b == BlockSize[l]
<1>1. b \in Nat \ {0}
  BY Shapes
<1>2. PICK i \in Nat : a = i * b
  BY <1>1, Multiple
<1>3. Block(l, a) = i
  BY <1>1, <1>2, MultipleIs DEF Block
<1>4. Cleared(l, a)
  BY InvalidateClears
<1>5. ASSUME NEW k \in Levels, NEW s \in Sets(k), NEW w \in Ways(k),
             lines'[k][s][w].valid, First(k, lines'[k][s][w]) \div PageSize = m
      PROVE  k >= l /\ (k = l => a + b <= First(k, lines'[k][s][w]))
  <2>1. /\ lines[k][s][w].valid /\ lines'[k][s][w].block = lines[k][s][w].block
        /\ ~(k = l /\ s = SetOf(l, a) /\ FirstHolding(l, a, w))
    BY <1>4, <1>5 DEF Cleared
  <2>2. k >= l /\ (k = l => a <= First(k, lines[k][s][w]))
    BY <1>5, <2>1 DEF LeftFrom, First
  <2>3. ASSUME k = l PROVE a + b <= First(k, lines'[k][s][w])
    <3> DEFINE j == lines[l][s][w].block
    <3>1. j \in Nat
      BY <1>5, <2>3 DEF TypesInv, LinesType, Line
    <3>2. j # i
      BY <1>3, <1>5, <2>1, <2>3, HolderIs DEF OrderInv
    <3>3. i * b <= j * b /\ First(k, lines'[k][s][w]) = j * b
      BY <1>2, <2>1, <2>2, <2>3 DEF First
    <3> HIDE DEF b, j
    <3>4. i * b # j * b
      BY <1>1, <3>1, <3>2, MultipleIs
    <3>5. i * b + b <= j * b
      BY <1>1, <3>1, <3>3, <3>4, WholeStep
    <3> QED
      BY <1>2, <3>3, <3>5
  <2> QED
    BY <2>2, <2>3
<1> QED
  BY <1>5 DEF LeftFrom

\* The last block of a page at a level: none is left there.
LEMMA LeftAbove ==
  ASSUME NEW rows, NEW l \in Levels, NEW m \in Nat,
         \A k \in Levels : \A s \in Sets(k) : \A w \in Ways(k) : rows[k][s][w].block \in Nat,
         LeftFrom(rows, m, l, m * PageSize + PageSize)
  PROVE  \A k \in Levels : \A s \in Sets(k) : \A w \in Ways(k) :
           rows[k][s][w].valid /\ First(k, rows[k][s][w]) \div PageSize = m =>
             k > l /\ m * PageSize <= First(k, rows[k][s][w])
<1> SUFFICES ASSUME NEW k \in Levels, NEW s \in Sets(k), NEW w \in Ways(k),
                    rows[k][s][w].valid, First(k, rows[k][s][w]) \div PageSize = m
             PROVE  k > l /\ m * PageSize <= First(k, rows[k][s][w])
  OBVIOUS
<1> DEFINE y == First(k, rows[k][s][w])
           p == PageSize
<1>1. p \in Nat \ {0} /\ y \in Nat
  BY Shapes DEF First
<1>2. y \div p = m /\ k >= l /\ (k = l => m * p + p <= y)
  BY DEF LeftFrom
<1> HIDE DEF y, p
<1>3. m * p <= y /\ y < m * p + p
  <2>1. y = (y \div p) * p + (y % p) /\ y % p \in 0 .. p - 1
    BY <1>1, Quotient
  <2>2. y = m * p + (y % p)
    BY <1>2, <2>1
  <2> QED
    BY <1>1, <2>1, <2>2
<1>4. k # l
  BY <1>1, <1>2, <1>3
<1> QED
  BY <1>2, <1>3, <1>4 DEF y, p, Levels

LEMMA PageStart ==
  ASSUME NEW m \in Nat, NEW l \in Levels
  PROVE  /\ m * PageSize \in Nat /\ (m * PageSize) % BlockSize[l] = 0
         /\ (m * PageSize) \div PageSize = m
<1> DEFINE b == BlockSize[l]
           p == PageSize
<1>1. b \in Nat \ {0} /\ p \in Nat \ {0} /\ p % b = 0
  BY Shapes
<1> HIDE DEF b, p
<1>2. PICK n \in Nat : p = n * b
  BY <1>1, Multiple
<1>3. m * p = (m * n) * b /\ m * n \in Nat
  BY <1>1, <1>2
<1>4. (m * p) % b = 0
  BY <1>1, <1>3, MultipleIs
<1>5. (m * p) \div p = m /\ m * p \in Nat
  BY <1>1, MultipleIs
<1> QED
  BY <1>4, <1>5 DEF b, p

LEMMA BlocksTyped ==
  ASSUME LinesType
  PROVE  \A k \in Levels : \A s \in Sets(k) : \A w \in Ways(k) : lines[k][s][w].block \in Nat
BY DEF LinesType, Line

\* One step of an eviction, in a page that is m: whether the level is done.
LEMMA RangeMoves ==
  ASSUME TypesInv, TypesInv', OrderInv, RangeInv, NEW t \in Threads, NEW l \in Levels,
         InvalidateBlock(t, l)
  PROVE  LET m    == req[t].address \div PageSize
             next == NextAddress(t, l)
         IN  /\ pc[t] = RangeStep(l) /\ pc'[t] = NextStep(t, l) /\ req'[t].address = next
             /\ next \div PageSize = m
             /\ \A k \in Levels : NextStep(t, l) = RangeStep(k) =>
                  next % BlockSize[k] = 0 /\ LeftFrom(lines', m, k, next)
             /\ NextStep(t, l) = "idle" =>
                  \A k \in Levels : \A s \in Sets(k) : \A w \in Ways(k) :
                    lines'[k][s][w].valid => First(k, lines'[k][s][w]) \div PageSize # m
<1> DEFINE m == req[t].address \div PageSize
           a == req[t].address
           b == BlockSize[l]
           x == a + b
           p == PageSize
           next == NextAddress(t, l)
           step == NextStep(t, l)
<1>1. /\ pc[t] = RangeStep(l) /\ Invalidate(l, a) /\ a \in Nat
      /\ req' = [req EXCEPT ![t].address = next] /\ pc' = [pc EXCEPT ![t] = step]
      /\ next \in Nat
  BY BlockGone
<1>2. pc'[t] = step /\ req'[t].address = next
  BY <1>1 DEF TypesInv, Requested
<1>3. /\ next = IF x % p # 0 THEN x ELSE x - p
      /\ step = IF x % p # 0 THEN RangeStep(l)
                ELSE IF l < 3 THEN RangeStep(l + 1) ELSE "idle"
  BY <1>1 DEF NextAddress, NextStep
<1>4. a % b = 0 /\ LeftFrom(lines, m, l, a)
  BY <1>1 DEF RangeInv
<1>5. LeftFrom(lines', m, l, x)
  BY <1>1, <1>4, LeftAfter
<1>6. b \in Nat \ {0} /\ p \in Nat \ {0} /\ p % b = 0
  BY Shapes
<1>7. /\ x % b = 0 /\ m \in Nat /\ m * p <= a
      /\ x % p # 0 => x \div p = m
      /\ x % p = 0 => x = m * p + p
  BY <1>1, <1>4, <1>6, StepInPage
<1> HIDE DEF a, b, x, p, m, next, step
<1>8. CASE x % p # 0
  <2>1. next = x /\ step = RangeStep(l)
    BY <1>3, <1>8
  <2>2. next \div p = m
    BY <1>7, <1>8, <2>1
  <2>3. ASSUME NEW k \in Levels, step = RangeStep(k)
        PROVE  next % BlockSize[k] = 0 /\ LeftFrom(lines', m, k, next)
    <3>1. k = l
      BY <2>1, <2>3, RangeStepsDiffer
    <3> QED
      BY <1>5, <1>7, <2>1, <3>1 DEF b
  <2>4. step # "idle"
    BY <2>1, RangeStepsDiffer
  <2> QED
    BY <1>1, <1>2, <2>2, <2>3, <2>4 DEF a, m, next, step, p
<1>9. CASE x % p = 0
  <2>1. next = x - p /\ x = m * p + p
    BY <1>3, <1>7, <1>9
  <2>2. next = m * p
    BY <1>6, <1>7, <2>1
  <2>3. next \div p = m /\ \A k \in Levels : next % BlockSize[k] = 0
    BY <1>7, <2>2, PageStart DEF p
  <2>4. \A k \in Levels : \A s \in Sets(k) : \A w \in Ways(k) :
          lines'[k][s][w].valid /\ First(k, lines'[k][s][w]) \div p = m =>
            k > l /\ m * p <= First(k, lines'[k][s][w])
    <3>1. LeftFrom(lines', m, l, m * PageSize + PageSize)
      BY <1>5, <2>1 DEF p
    <3>2. \A k \in Levels : \A s \in Sets(k) : \A w \in Ways(k) : lines'[k][s][w].block \in Nat
      BY BlocksTyped DEF TypesInv, LinesType, Line
    <3> QED
      BY <1>7, <3>1, <3>2, LeftAbove DEF p
  <2>5. ASSUME NEW k \in Levels, step = RangeStep(k) PROVE LeftFrom(lines', m, k, next)
    <3>1. l < 3 /\ k = l + 1
      <4>1. l < 3 => l + 1 \in Levels
        BY DEF Levels
      <4> QED
        BY <1>3, <1>9, <2>5, <4>1, RangeStepsDiffer
    <3> QED
      BY <2>2, <2>4, <3>1 DEF LeftFrom, p, Levels
  <2>6. ASSUME step = "idle", NEW k \in Levels, NEW s \in Sets(k), NEW w \in Ways(k),
               lines'[k][s][w].valid
        PROVE  First(k, lines'[k][s][w]) \div p # m
    <3>1. l = 3
      <4>1. l < 3 => l + 1 \in Levels
        BY DEF Levels
      <4>2. ~(l < 3)
        BY <1>3, <1>9, <2>6, <4>1, RangeStepsDiffer
      <4> QED
        BY <4>2 DEF Levels
    <3> QED
      BY <2>4, <2>6, <3>1 DEF Levels
  <2> QED
    BY <1>1, <1>2, <2>3, <2>5, <2>6 DEF a, m, next, step, p
<1> QED
  BY <1>8, <1>9

LEMMA RequestNotRange ==
  ASSUME TypesInv, NEW t \in Threads, Request(t)
  PROVE  ~InRange(t) /\ ~InRange(t)'
<1> DEFINE steps == {"idle", "probe2", "probe3", "promote1", "writeback2", "promote2", "back1",
                     "writeback3", "fetch3", "back2", "back1of3", "fill2", "fill1"}
<1>1. \A l \in Levels : RangeStep(l) \notin steps
  BY RangeSteps DEF Levels
<1>2. ASSUME NEW here \in steps, NEW next \in steps, pc[t] = here, Goto(t, next)
      PROVE  ~InRange(t) /\ ~InRange(t)'
  <2>1. pc'[t] = next
    BY <1>2 DEF Goto, TypesInv
  <2> HIDE DEF steps
  <2> QED
    BY <1>1, <1>2, <2>1 DEF InRange
<1>3. \E here \in steps, next \in steps : pc[t] = here /\ Goto(t, next)
  <2>1. ASSUME NEW a \in Addresses, NEW write \in BOOLEAN, Start(t, a, write)
        PROVE  \E here \in steps, next \in steps : pc[t] = here /\ Goto(t, next)
    <3>1. pc[t] = "idle" /\ Goto(t, IF Has(1, a) THEN "idle" ELSE "probe2")
      BY <2>1 DEF Start
    <3> QED
      BY <3>1
  <2>2. ASSUME NEW l, NEW hit \in steps, NEW miss \in steps, Probe(t, l, hit, miss)
        PROVE  \E next \in steps : Goto(t, next)
    <3>1. Goto(t, IF Has(l, req[t].address) THEN hit ELSE miss)
      BY <2>2 DEF Probe
    <3> QED
      BY <2>2, <3>1
  <2>3. ASSUME Probe2(t) \/ Probe3(t)
        PROVE  \E here \in steps, next \in steps : pc[t] = here /\ Goto(t, next)
    <3>1. pc[t] \in steps /\ \E next \in steps : Goto(t, next)
      BY <2>2, <2>3 DEF Probe2, Probe3, At
    <3> QED
      BY <3>1
  <2>4. ASSUME Promote1(t) \/ Promote2(t) \/ Fetch3(t)
        PROVE  \E here \in steps, next \in steps : pc[t] = here /\ Goto(t, next)
    <3>1. pc[t] \in steps /\ \E next \in steps : Goto(t, next)
      BY <2>4 DEF Promote1, Promote2, Fetch3, At
    <3> QED
      BY <3>1
  <2>5. ASSUME WriteBack2(t) \/ WriteBack3(t) \/ Fill2(t) \/ Fill1(t)
        PROVE  \E here \in steps, next \in steps : pc[t] = here /\ Goto(t, next)
    <3>1. pc[t] \in steps /\ \E next \in steps : Goto(t, next)
      BY <2>5 DEF WriteBack2, WriteBack3, Fill2, Fill1, WriteBack, Fill, At
    <3> QED
      BY <3>1
  <2>6. ASSUME Back1(t) \/ Back2(t) \/ Back1Of3(t)
        PROVE  \E here \in steps, next \in steps : pc[t] = here /\ Goto(t, next)
    <3>1. pc[t] \in steps /\ \E next \in steps : Goto(t, next)
      BY <2>6 DEF Back1, Back2, Back1Of3, At
    <3> QED
      BY <3>1
  <2> QED
    BY <2>1, <2>3, <2>4, <2>5, <2>6 DEF Request
<1> HIDE DEF steps
<1> QED
  BY <1>2, <1>3

LEMMA StartsRange ==
  ASSUME TypesInv, NEW t \in Threads, NEW start \in FrameStarts, StartRange(t, start),
         SingleThread
  PROVE  RangeInv'
<1>1. /\ UNCHANGED lines /\ pc' = [pc EXCEPT ![t] = RangeStep(1)]
      /\ req' = [req EXCEPT ![t] = [NoRequest EXCEPT !.address = start]]
  BY DEF StartRange, Goto
<1>2. pc'[t] = RangeStep(1) /\ req'[t].address = start /\ 1 \in Levels
  BY <1>1 DEF TypesInv, NoRequest, Levels
<1> DEFINE p == PageSize
           m == start \div p
<1>3. start \in Nat /\ start % p = 0 /\ p \in Nat \ {0}
  BY CacheAssumption
<1>4. m \in Nat /\ start = m * p
  <2>1. m \in Nat /\ start = m * p + (start % p)
    BY <1>3, Quotient
  <2> HIDE DEF m, p
  <2> QED
    BY <1>3, <2>1
<1>5. start % BlockSize[1] = 0
  BY <1>2, <1>4, PageStart
<1>6. LeftFrom(lines, m, 1, start)
  <2> SUFFICES ASSUME NEW k \in Levels, NEW s \in Sets(k), NEW w \in Ways(k),
                      lines[k][s][w].valid, First(k, lines[k][s][w]) \div p = m
               PROVE  start <= First(k, lines[k][s][w])
    BY DEF LeftFrom, Levels
  <2> DEFINE y == First(k, lines[k][s][w])
  <2>1. y \in Nat
    BY Shapes DEF TypesInv, LinesType, Line, First
  <2>2. y \div p = m
    OBVIOUS
  <2> HIDE DEF y, m, p
  <2>3. y = (y \div p) * p + (y % p) /\ y % p \in 0 .. p - 1
    BY <1>3, <2>1, Quotient
  <2>4. y = m * p + (y % p)
    BY <2>2, <2>3
  <2>5. start <= y
    BY <1>3, <1>4, <2>1, <2>3, <2>4
  <2> QED
    BY <2>5 DEF y
<1> HIDE DEF m
<1>7. ASSUME NEW l \in Levels, pc'[t] = RangeStep(l) PROVE l = 1
  BY <1>2, <1>7, RangeStepsDiffer
<1> QED
  BY <1>1, <1>2, <1>5, <1>6, <1>7 DEF RangeInv, SingleThread, m, p

LEMMA RangeKept ==
  ASSUME SingleThread, TypesInv, TypesInv', OrderInv, RangeInv, [Next]_vars
  PROVE  RangeInv'
<1>1. ASSUME NEW t \in Threads, Request(t) PROVE RangeInv'
  <2>1. ~InRange(t)'
    BY <1>1, RequestNotRange
  <2> QED
    BY <2>1 DEF InRange, RangeInv, SingleThread
<1>2. ASSUME NEW t \in Threads, InvalidateRange(t) PROVE RangeInv'
  <2>1. ASSUME NEW l \in Levels, InvalidateBlock(t, l) PROVE RangeInv'
    <3> DEFINE next == NextAddress(t, l)
               step == NextStep(t, l)
               m == req[t].address \div PageSize
    <3>1. /\ pc'[t] = step /\ req'[t].address = next /\ next \div PageSize = m
          /\ \A k \in Levels : step = RangeStep(k) =>
               next % BlockSize[k] = 0 /\ LeftFrom(lines', m, k, next)
      BY <2>1, RangeMoves
    <3> HIDE DEF next, step, m
    <3>2. ASSUME NEW k \in Levels, pc'[t] = RangeStep(k)
          PROVE  /\ req'[t].address % BlockSize[k] = 0
                 /\ LeftFrom(lines', req'[t].address \div PageSize, k, req'[t].address)
      BY <3>1, <3>2
    <3> QED
      BY <3>2 DEF RangeInv, SingleThread
  <2>2. ASSUME NEW start \in FrameStarts, StartRange(t, start) PROVE RangeInv'
    BY <2>2, StartsRange
  <2> QED
    BY <1>2, <2>1, <2>2 DEF InvalidateRange
<1>3. ASSUME NEW q \in Policies, SetPolicy(q) PROVE RangeInv'
  BY <1>3 DEF SetPolicy, RangeInv
<1>4. CASE UNCHANGED vars
  BY <1>4 DEF vars, RangeInv
<1> QED
  BY <1>1, <1>2, <1>3, <1>4 DEF Next

LEMMA RangeHolds == SingleThread => (Spec => []RangeInv)
<1> SUFFICES ASSUME SingleThread PROVE Spec => []RangeInv
  OBVIOUS
<1>1. Init => RangeInv
  BY RangeStepsDiffer DEF Init, RangeInv
<1>2. TypesInv /\ OrderInv /\ TypesInv' /\ RangeInv /\ [Next]_vars => RangeInv'
  BY RangeKept
<1>3. Spec => [](TypesInv /\ OrderInv)
  BY OneThread, PTL
<1> QED
  BY <1>1, <1>2, <1>3, PTL DEF Spec

\* With one thread, no line of a page is left anywhere when the invalidation that its
\* eviction makes returns, although it goes by blocks of a size of each level's own:
\* what is left of the page is always in a level still to be searched, or in the
\* level that is searched, from the address where the search is on.
THEOREM PagesGone == SingleThread => (Spec => RangeGone)
<1> SUFFICES ASSUME SingleThread PROVE Spec => RangeGone
  OBVIOUS
<1> DEFINE Gone ==
      \A t \in Threads :
       InRange(t) /\ pc'[t] = "idle" =>
         \A l \in Levels : \A s \in Sets(l) : \A w \in Ways(l) :
           LET line == lines'[l][s][w] IN
           line.valid => (line.block * BlockSize[l]) \div PageSize
                           # req[t].address \div PageSize
<1>1. ASSUME TypesInv, TypesInv', OrderInv, RangeInv, Next PROVE Gone
  <2> SUFFICES ASSUME NEW t \in Threads, InRange(t), pc'[t] = "idle"
               PROVE  \A l \in Levels : \A s \in Sets(l) : \A w \in Ways(l) :
                        lines'[l][s][w].valid =>
                          First(l, lines'[l][s][w]) \div PageSize
                            # req[t].address \div PageSize
    BY DEF First
  <2>1. ~Request(t) /\ pc[t] # "idle"
    BY <1>1, RequestNotRange, RangeStepsDiffer DEF InRange
  <2>2. PICK l \in Levels : InvalidateBlock(t, l)
    <3>1. ~\E q \in Policies : SetPolicy(q)
      BY <2>1 DEF SetPolicy
    <3>2. ~\E start \in FrameStarts : StartRange(t, start)
      BY <2>1 DEF StartRange
    <3> QED
      BY <1>1, <2>1, <3>1, <3>2 DEF Next, InvalidateRange, SingleThread
  <2>3. NextStep(t, l) = "idle"
    BY <1>1, <2>2, RangeMoves
  <2> QED
    BY <1>1, <2>2, <2>3, RangeMoves
<1>2. TypesInv /\ TypesInv' /\ OrderInv /\ RangeInv /\ [Next]_vars => [Gone]_vars
  BY <1>1
<1>3. Spec => [](TypesInv /\ OrderInv /\ RangeInv)
  BY OneThread, RangeHolds, PTL
<1> HIDE DEF Gone
<1>4. Spec => [][Gone]_vars
  BY <1>2, <1>3, PTL DEF Spec
<1> QED
  BY <1>4 DEF Gone, RangeGone

-----------------------------------------------------------------------------
(* The lock of a set, which lets CacheHierarchy take the calls on a set as *)
(* single steps.                                                           *)

CONSTANT SPIN_LIMIT

VARIABLES flag_, lock_pc, spins

SetLock == INSTANCE SpinLock WITH pc <- lock_pc

LEMMA LockInit == SPIN_LIMIT \in Nat /\ SetLock!Init => SetLock!IInv
<1> SUFFICES ASSUME SPIN_LIMIT \in Nat, SetLock!Init
             PROVE  SetLock!IInv
  OBVIOUS
<1>1. SetLock!TypeOK
  <2>1. 0 \in 0 .. SPIN_LIMIT
    OBVIOUS
  <2> QED
    BY <2>1, Zenon DEF SetLock!Init, SetLock!TypeOK
<1>2. \A t \in Threads : lock_pc[t] # "inside"
  BY DEF SetLock!Init
<1> QED
  BY <1>1, <1>2 DEF SetLock!IInv, SetLock!MutualExclusion, SetLock!FlagKeeps

LEMMA LockStep ==
  SPIN_LIMIT \in Nat /\ SetLock!IInv /\ [SetLock!Next]_(SetLock!vars) => SetLock!IInv'
<1> SUFFICES ASSUME SPIN_LIMIT \in Nat, SetLock!IInv, [SetLock!Next]_(SetLock!vars)
             PROVE  SetLock!IInv'
  OBVIOUS
<1> USE DEF SetLock!IInv, SetLock!TypeOK, SetLock!MutualExclusion, SetLock!FlagKeeps
<1>1. CASE UNCHANGED SetLock!vars
  BY <1>1 DEF SetLock!vars
<1>2. ASSUME NEW t \in Threads, SetLock!Lock(t)
      PROVE  SetLock!IInv'
  BY <1>2 DEF SetLock!Lock
<1>3. ASSUME NEW t \in Threads, SetLock!Spin(t)
      PROVE  SetLock!IInv'
  BY <1>3 DEF SetLock!Spin
<1>4. ASSUME NEW t \in Threads, SetLock!Acquire(t) \/ SetLock!TryLock(t)
      PROVE  SetLock!IInv'
  BY <1>4 DEF SetLock!Acquire, SetLock!TryLock
<1>5. ASSUME NEW t \in Threads, SetLock!Unlock(t)
      PROVE  SetLock!IInv'
  BY <1>5 DEF SetLock!Unlock
<1> QED
  BY <1>1, <1>2, <1>3, <1>4, <1>5 DEF SetLock!Next

\* For any number of threads the spin lock of ThreadSafety.h keeps all but one
\* out, and a waiting thread yields in time.
THEOREM SpinLockExcludes ==
  ASSUME SPIN_LIMIT \in Nat
  PROVE  SetLock!Spec => [](SetLock!TypeOK /\ SetLock!MutualExclusion)
<1>1. SetLock!IInv => SetLock!TypeOK /\ SetLock!MutualExclusion
  BY DEF SetLock!IInv
<1> QED
  BY <1>1, LockInit, LockStep, PTL DEF SetLock!Spec

-----------------------------------------------------------------------------
(* From end to end.  The pipeline's steps are steps of VirtualMemory and of *)
(* CacheHierarchy, and what is proved of the two holds in it.              *)

VM == INSTANCE VirtualMemoryProofs WITH
  Policies <- PagePolicies, policy <- page_policy, access_counter <- accesses,
  recency <- <<>>, loads <- <<>>, written <- {}, recent <- {}   \* no record is kept

LEMMA VMInit == MMU!Init <=> VM!Init
BY DEF MMU!Init, VM!Init, MMU!NoPage, VM!NoPage, MMU!NoEntry, VM!NoEntry,
       MMU!Sets, VM!Sets, MMU!Ways, VM!Ways, MMU!Frames, VM!Frames

LEMMA VMToInt == \A v : VM!ToInt(v) = MMU!ToInt(v)
BY DEF VM!ToInt, MMU!ToInt

LEMMA SameTranslateTLBHit ==
  ASSUME NEW t, NEW v, NEW write
  PROVE  MMU!TranslateTLBHit(t, v, write) <=> VM!TranslateTLBHit(t, v, write)
BY Zenon DEF MMU!TranslateTLBHit, VM!TranslateTLBHit, MMU!settings, VM!settings,
       MMU!Idle, VM!Idle, MMU!Permits, VM!Permits, MMU!MaxPages, VM!MaxPages,
       MMU!Accepted, VM!Accepted, MMU!Access, VM!Access, MMU!SetOf, VM!SetOf, MMU!Ways,
       VM!Ways, MMU!Matches, VM!Matches, MMU!FirstMatch, VM!FirstMatch, MMU!Return,
       VM!Return, MMU!Reachable, VM!Reachable, MMU!Touched, VM!Touched

LEMMA SameTranslateTableHit ==
  ASSUME NEW t, NEW v, NEW write
  PROVE  MMU!TranslateTableHit(t, v, write) <=> VM!TranslateTableHit(t, v, write)
BY Zenon DEF MMU!TranslateTableHit, VM!TranslateTableHit, MMU!settings, VM!settings,
       MMU!Idle, VM!Idle, MMU!Permits, VM!Permits, MMU!MaxPages, VM!MaxPages,
       MMU!Accepted, VM!Accepted, MMU!Access, VM!Access, MMU!SetOf, VM!SetOf, MMU!Ways,
       VM!Ways, MMU!Matches, VM!Matches, MMU!Misses, VM!Misses, MMU!FirstMatch,
       VM!FirstMatch, MMU!Return, VM!Return, MMU!Reachable, VM!Reachable, MMU!Touched,
       VM!Touched, MMU!Mapped, VM!Mapped, MMU!InsertWay, VM!InsertWay, MMU!Inserted,
       VM!Inserted

LEMMA SameTranslateFaultFree ==
  ASSUME NEW t, NEW v, NEW write
  PROVE  MMU!TranslateFaultFree(t, v, write) <=> VM!TranslateFaultFree(t, v, write)
BY Zenon DEF MMU!TranslateFaultFree, VM!TranslateFaultFree, MMU!settings, VM!settings,
       MMU!Idle, VM!Idle, MMU!Permits, VM!Permits, MMU!MaxPages, VM!MaxPages,
       MMU!Accepted, VM!Accepted, MMU!Access, VM!Access, MMU!SetOf, VM!SetOf, MMU!Ways,
       VM!Ways, MMU!Matches, VM!Matches, MMU!Misses, VM!Misses, MMU!FirstMatch,
       VM!FirstMatch, MMU!Return, VM!Return, MMU!Reachable, VM!Reachable, MMU!Mapped,
       VM!Mapped, MMU!InsertWay, VM!InsertWay, MMU!Inserted, VM!Inserted, MMU!Fault,
       VM!Fault, MMU!Load, VM!Load, MMU!WithMapping, VM!WithMapping, MMU!ToInt, VM!ToInt

LEMMA SameTranslateFaultOldest ==
  ASSUME NEW t, NEW v, NEW write
  PROVE  MMU!TranslateFaultOldest(t, v, write) <=> VM!TranslateFaultOldest(t, v, write)
BY Zenon DEF MMU!TranslateFaultOldest, VM!TranslateFaultOldest, MMU!settings,
       VM!settings, MMU!Idle, VM!Idle, MMU!Permits, VM!Permits, MMU!MaxPages,
       VM!MaxPages, MMU!Accepted, VM!Accepted, MMU!Access, VM!Access, MMU!SetOf,
       VM!SetOf, MMU!Ways, VM!Ways, MMU!Frames, VM!Frames, MMU!Matches, VM!Matches,
       MMU!Misses, VM!Misses, MMU!FirstMatch, VM!FirstMatch, MMU!Return, VM!Return,
       MMU!Reachable, VM!Reachable, MMU!Mapped, VM!Mapped, MMU!InsertWay, VM!InsertWay,
       MMU!Inserted, VM!Inserted, MMU!Fault, VM!Fault, MMU!Load, VM!Load,
       MMU!WithMapping, VM!WithMapping, MMU!ToInt, VM!ToInt, MMU!Age, VM!Age,
       MMU!Oldest, VM!Oldest, MMU!EvictAndLoad, VM!EvictAndLoad, MMU!WithoutMapping,
       VM!WithoutMapping, MMU!Invalidated, VM!Invalidated

LEMMA SameTranslateFaultClock ==
  ASSUME NEW t, NEW v, NEW write
  PROVE  MMU!TranslateFaultClock(t, v, write) <=> VM!TranslateFaultClock(t, v, write)
BY Zenon DEF MMU!TranslateFaultClock, VM!TranslateFaultClock, MMU!settings, VM!settings,
       MMU!Idle, VM!Idle, MMU!Permits, VM!Permits, MMU!MaxPages, VM!MaxPages,
       MMU!Accepted, VM!Accepted, MMU!Access, VM!Access, MMU!SetOf, VM!SetOf, MMU!Ways,
       VM!Ways, MMU!Frames, VM!Frames, MMU!Matches, VM!Matches, MMU!Misses, VM!Misses,
       MMU!FirstMatch, VM!FirstMatch, MMU!Return, VM!Return, MMU!Reachable,
       VM!Reachable, MMU!Mapped, VM!Mapped, MMU!InsertWay, VM!InsertWay, MMU!Inserted,
       VM!Inserted, MMU!Fault, VM!Fault, MMU!Load, VM!Load, MMU!WithMapping,
       VM!WithMapping, MMU!ToInt, VM!ToInt, MMU!HandAt, VM!HandAt, MMU!StopsAt,
       VM!StopsAt, MMU!Passed, VM!Passed, MMU!Swept, VM!Swept, MMU!EvictAndLoad,
       VM!EvictAndLoad, MMU!WithoutMapping, VM!WithoutMapping, MMU!Invalidated,
       VM!Invalidated

LEMMA SameTranslateNoFrame ==
  ASSUME NEW t, NEW v, NEW write
  PROVE  MMU!TranslateNoFrame(t, v, write) <=> VM!TranslateNoFrame(t, v, write)
BY Zenon DEF MMU!TranslateNoFrame, VM!TranslateNoFrame, MMU!settings, VM!settings,
       MMU!Idle, VM!Idle, MMU!Permits, VM!Permits, MMU!MaxPages, VM!MaxPages,
       MMU!Accepted, VM!Accepted, MMU!Access, VM!Access, MMU!SetOf, VM!SetOf, MMU!Ways,
       VM!Ways, MMU!Frames, VM!Frames, MMU!Matches, VM!Matches, MMU!Misses, VM!Misses,
       MMU!Reachable, VM!Reachable, MMU!Mapped, VM!Mapped, MMU!Fault, VM!Fault

LEMMA SameRequests ==
  ASSUME NEW t
  PROVE  MMU!Request(t) <=> VM!Request(t)
BY Zenon DEF MMU!Request, VM!Request, MMU!settings, VM!settings

\* The parts of translate() that leave the caches alone, and those that evict.
Served(t, v, write) ==
  \/ VM!TranslateTLBHit(t, v, write) \/ VM!TranslateTableHit(t, v, write)
  \/ VM!TranslateFaultFree(t, v, write) \/ VM!TranslateNoFrame(t, v, write)

Evicting(t, v, write) ==
  VM!TranslateFaultOldest(t, v, write) \/ VM!TranslateFaultClock(t, v, write)

LEMMA TranslateIs ==
  ASSUME NEW t \in Threads, NEW v \in Vpns, NEW write \in BOOLEAN, Translate(t, v, write)
  PROVE  /\ pc[t] = "idle" /\ Unlocked
         /\ is_write' = [is_write EXCEPT ![t] = write]
         /\ \/ Served(t, v, write) /\ UNCHANGED vars
            \/ /\ Evicting(t, v, write)
               /\ \E r \in inflight' : r.thread = t /\ StartRange(t, r.frame * PageSize)
<1>1. /\ MMU!TranslateTLBHit(t, v, write) <=> VM!TranslateTLBHit(t, v, write)
      /\ MMU!TranslateTableHit(t, v, write) <=> VM!TranslateTableHit(t, v, write)
      /\ MMU!TranslateFaultFree(t, v, write) <=> VM!TranslateFaultFree(t, v, write)
      /\ MMU!TranslateNoFrame(t, v, write) <=> VM!TranslateNoFrame(t, v, write)
      /\ MMU!TranslateFaultOldest(t, v, write) <=> VM!TranslateFaultOldest(t, v, write)
      /\ MMU!TranslateFaultClock(t, v, write) <=> VM!TranslateFaultClock(t, v, write)
  BY SameTranslateTLBHit, SameTranslateTableHit, SameTranslateFaultFree,
     SameTranslateNoFrame, SameTranslateFaultOldest, SameTranslateFaultClock
<1> QED
  BY <1>1 DEF Translate, Served, Evicting

LEMMA TranslatesVM ==
  ASSUME NEW t \in Threads, NEW v \in Vpns, NEW write \in BOOLEAN,
         Served(t, v, write) \/ Evicting(t, v, write)
  PROVE  VM!Next
BY DEF Served, Evicting, VM!Translate, VM!Next

LEMMA StepsOfVM == [PNext]_pvars => [VM!Next]_(VM!vars)
<1> SUFFICES ASSUME [PNext]_pvars PROVE [VM!Next]_(VM!vars)
  OBVIOUS
<1>1. UNCHANGED mvars => UNCHANGED VM!vars
  BY DEF mvars, VM!vars
<1>2. ASSUME NEW t \in Threads, NEW v \in Vpns, NEW write \in BOOLEAN, Translate(t, v, write)
      PROVE  VM!Next
  BY <1>2, TranslateIs, TranslatesVM
<1>3. ASSUME NEW t \in Threads, BeginRequest(t) PROVE VM!Next
  <2>1. VM!Request(t)
    BY <1>3, SameRequests DEF BeginRequest
  <2> QED
    BY <2>1 DEF VM!Next
<1>4. ASSUME NEW t \in Threads, Continue(t) PROVE UNCHANGED mvars
  BY <1>4 DEF Continue
<1>5. CASE UNCHANGED pvars
  BY <1>1, <1>5 DEF pvars
<1> QED
  BY <1>1, <1>2, <1>3, <1>4, <1>5 DEF PNext

LEMMA VMSizes ==
  /\ NumFrames \in Nat \ {0}
  /\ TlbSets \in Nat \ {0}
  /\ TlbWays \in Nat \ {0}
  /\ Vpns \subseteq Nat
  /\ {FlatPages, MultiPages, WalkLimit, IntMod} \subseteq Nat
  /\ IntMod > 0
  /\ FlatPages <= IntMod \div 2
  /\ RegionPages \subseteq Vpns
  /\ MaxAccess \in Nat
BY MMUAssumption

LEMMA VMPages ==
  /\ \A v \in Vpns : VM!ToInt(v) >= 0 => VM!ToInt(v) \in Vpns
  /\ Modes = {"flat", "multi"} => \A v \in Vpns : v < FlatPages
BY MMUAssumption, VMToInt

LEMMA VMChoices ==
  /\ Modes # {} /\ Modes \subseteq {"flat", "multi"}
  /\ PagePolicies # {} /\ PagePolicies \subseteq {"LRU", "FIFO", "CLOCK"}
BY MMUAssumption

\* By the way Pipeline is composed, its steps are steps of VirtualMemory.
LEMMA PipelineTranslates == PSpec => VM!Spec
<1>1. PInit => VM!Init
  BY VMInit DEF PInit
<1> QED
  BY <1>1, StepsOfVM, PTL DEF PSpec, VM!Spec

LEMMA VMTypes == PSpec => []VM!TypeOK
<1>1. VM!Spec => []VM!TypeOK
  BY VM!TypeCorrect, VMSizes, VMPages, VMChoices
<1> QED
  BY <1>1, PipelineTranslates, PTL

\* The kinds of the threads' accesses.
KindsInv == is_write \in [Threads -> BOOLEAN]

LEMMA KindsKept == PSpec => []KindsInv
<1>1. PInit => KindsInv
  BY DEF PInit, KindsInv
<1>2. KindsInv /\ [PNext]_pvars => KindsInv'
  <2> SUFFICES ASSUME KindsInv, [PNext]_pvars PROVE KindsInv'
    OBVIOUS
  <2>1. ASSUME NEW t \in Threads, NEW v \in Vpns, NEW write \in BOOLEAN,
               Translate(t, v, write)
        PROVE  KindsInv'
    <3>1. is_write' = [is_write EXCEPT ![t] = write]
      BY <2>1 DEF Translate
    <3> QED
      BY <3>1 DEF KindsInv
  <2>2. ASSUME UNCHANGED is_write PROVE KindsInv'
    BY <2>2 DEF KindsInv
  <2> QED
    BY <2>1, <2>2 DEF PNext, BeginRequest, Continue, pvars
<1> QED
  BY <1>1, <1>2, PTL DEF PSpec

LEMMA AnswerTyped ==
  ASSUME VM!TypeOK, NEW r \in inflight
  PROVE  r.thread \in Threads /\ r.vpn \in Vpns /\ r.frame \in VM!Frames
BY DEF VM!TypeOK

LEMMA FrameStart ==
  ASSUME NEW f \in VM!Frames
  PROVE  /\ f \in Nat /\ f * PageSize \in FrameStarts
         /\ \A offset \in Offsets :
              /\ f * PageSize + offset \in Addresses
              /\ (f * PageSize + offset) \div PageSize = f
<1>1. f \in Nat /\ PageSize \in Nat \ {0}
  BY VMSizes, CacheAssumption DEF VM!Frames
<1>2. f * PageSize \in FrameStarts
  BY PipelineAssumption DEF VM!Frames, MMU!Frames
<1>3. ASSUME NEW offset \in Offsets
      PROVE  /\ f * PageSize + offset \in Addresses
             /\ (f * PageSize + offset) \div PageSize = f
  <2>1. offset \in 0 .. PageSize - 1
    BY PipelineAssumption
  <2>2. f * PageSize + offset \in Addresses
    BY <1>2, PipelineAssumption
  <2> QED
    BY <1>1, <2>1, <2>2, Division
<1> QED
  BY <1>1, <1>2, <1>3

LEMMA StepsOfCaches ==
  ASSUME VM!TypeOK, VM!TypeOK', KindsInv, [PNext]_pvars
  PROVE  [Next]_vars
<1>1. ASSUME NEW t \in Threads, NEW v \in Vpns, NEW write \in BOOLEAN, Translate(t, v, write)
      PROVE  [Next]_vars
  <2>1. CASE UNCHANGED vars
    BY <2>1
  <2>2. ASSUME NEW r \in inflight', StartRange(t, r.frame * PageSize) PROVE Next
    <3>1. r.frame \in VM!Frames
      BY <2>2 DEF VM!TypeOK
    <3>2. r.frame * PageSize \in FrameStarts
      BY <3>1, FrameStart
    <3> QED
      BY <2>2, <3>2 DEF InvalidateRange, Next
  <2> QED
    BY <1>1, <2>1, <2>2, TranslateIs
<1>2. ASSUME NEW t \in Threads, BeginRequest(t) PROVE Next
  <2>1. PICK r \in inflight, offset \in Offsets :
          Start(t, r.frame * PageSize + offset, is_write[t])
    BY <1>2 DEF BeginRequest
  <2>2. r.frame * PageSize + offset \in Addresses /\ is_write[t] \in BOOLEAN
    BY AnswerTyped, FrameStart DEF KindsInv
  <2>3. Request(t)
    BY <2>1, <2>2 DEF Request
  <2> QED
    BY <2>3 DEF Next
<1>3. ASSUME NEW t \in Threads, Continue(t) PROVE Next
  BY <1>3 DEF Continue, Next
<1>4. ASSUME NEW p \in Policies, SetPolicy(p) PROVE Next
  BY <1>4 DEF Next
<1>5. CASE UNCHANGED pvars
  BY <1>5 DEF pvars
<1> QED
  BY <1>1, <1>2, <1>3, <1>4, <1>5 DEF PNext

\* Every behaviour of the pipeline is one of CacheHierarchy: the addresses that
\* translate() answers and the ranges that it has invalidated are addresses and
\* ranges of the instance, so that what holds of the caches alone holds here.
THEOREM PipelineRequests == PSpec => Spec
<1>1. PInit => Init
  BY DEF PInit
<1>2. VM!TypeOK /\ VM!TypeOK' /\ KindsInv /\ [PNext]_pvars => [Next]_vars
  BY StepsOfCaches
<1> QED
  BY <1>1, <1>2, VMTypes, KindsKept, PTL DEF PSpec, Spec

-----------------------------------------------------------------------------
(* Whose lines the caches hold.                                            *)

\* The frame has an owner and lines of it were asked for since.
Owned(f) == frame_table[f] \in Vpns /\ [frame |-> f, vpn |-> frame_table[f]] \in cached

\* The frame whose lines an eviction is invalidating.
Cleaning(f) == \E t \in Threads : InRange(t) /\ req[t].address \div PageSize = f

\* Some level has a valid line of the frame.
HasLine(rows, f) ==
  \E k \in Levels : \E s \in Sets(k) : \E w \in Ways(k) :
    rows[k][s][w].valid /\ First(k, rows[k][s][w]) \div PageSize = f

LinesOwned == \A f : HasLine(lines, f) => Owned(f) \/ Cleaning(f)

\* What a request under way is going to insert is of such a frame.
RequestsOwned ==
  \A t \in Threads : Missed(pc[t]) # {} => Owned(req[t].address \div PageSize)

\* A thread has one answer of translate() at a time.
OneAnswer == \A r, q \in inflight : r = q

BelongInv == LinesOwned /\ RequestsOwned /\ OneAnswer

\* All that is known when it is one thread.
Known ==
  /\ TypesInv /\ OrderInv /\ MissedInv /\ RangeInv
  /\ VM!TypeOK /\ VM!FramesAccounted /\ VM!TranslationsFresh

LEMMA BlockInPage ==
  ASSUME NEW l \in Levels, NEW a \in Nat
  PROVE  (Block(l, a) * BlockSize[l]) \div PageSize = a \div PageSize
<1> DEFINE b == BlockSize[l]
           p == PageSize
           i == a \div b
           m == a \div p
<1>1. b \in Nat \ {0} /\ p \in Nat \ {0} /\ p % b = 0
  BY Shapes
<1>2. i \in Nat /\ a % b \in 0 .. b - 1 /\ a = i * b + (a % b)
  BY <1>1, Quotient
<1>3. m \in Nat /\ a % p \in 0 .. p - 1 /\ a = m * p + (a % p)
  BY <1>1, Quotient
<1> HIDE DEF b, p, i, m
<1>4. i * b <= a /\ a < i * b + b
  BY <1>1, <1>2
<1>5. m * p <= a /\ a < m * p + p
  BY <1>1, <1>3
<1>6. PICK n \in Nat : p = n * b
  BY <1>1, Multiple
<1>7. m * p <= i * b
  <2> DEFINE j == m * n
  <2>1. j \in Nat /\ m * p = j * b
    BY <1>1, <1>3, <1>6
  <2> HIDE DEF j
  <2>2. ~(i * b < j * b)
    <3> SUFFICES ASSUME i * b < j * b PROVE FALSE
      OBVIOUS
    <3>1. i * b + b <= j * b
      BY <1>1, <1>2, <2>1, WholeStep
    <3> QED
      BY <1>1, <1>2, <1>4, <1>5, <2>1, <3>1
  <2> QED
    BY <1>1, <1>2, <2>1, <2>2
<1>8. i * b \in Nat /\ i * b < m * p + p
  BY <1>1, <1>2, <1>3, <1>4, <1>5
<1>9. (i * b) \div p = m
  BY <1>1, <1>3, <1>7, <1>8, QuotientIs
<1> QED
  BY <1>9 DEF Block, b, p, i, m

\* The lines after a step, by the call it makes.
LEMMA LinesAfter ==
  ASSUME TypesInv, NEW t \in Threads, OneCall(t), NEW f, HasLine(lines', f)
  PROVE  HasLine(lines, f) \/ (Missed(pc[t]) # {} /\ f = req[t].address \div PageSize)
<1>1. PICK k \in Levels : \E s \in Sets(k) : \E w \in Ways(k) :
        lines'[k][s][w].valid /\ First(k, lines'[k][s][w]) \div PageSize = f
  BY DEF HasLine
<1>2. PICK s \in Sets(k) : \E w \in Ways(k) :
        lines'[k][s][w].valid /\ First(k, lines'[k][s][w]) \div PageSize = f
  BY <1>1
<1>3. PICK w \in Ways(k) :
        lines'[k][s][w].valid /\ First(k, lines'[k][s][w]) \div PageSize = f
  BY <1>2
<1>4. ASSUME lines[k][s][w].valid, lines[k][s][w].block = lines'[k][s][w].block
      PROVE  HasLine(lines, f)
  BY <1>3, <1>4 DEF HasLine, First
<1>5. ASSUME NEW l \in Levels, NEW a \in Nat, NEW write \in BOOLEAN, Access(t, l, a, write)
      PROVE  HasLine(lines, f)
  <2>1. Touched(l, a)
    BY <1>5, AccessTouches
  <2> QED
    BY <1>3, <1>4, <2>1 DEF Touched
<1>6. ASSUME NEW l \in Levels, NEW a \in Nat, Invalidate(l, a) PROVE HasLine(lines, f)
  <2>1. Cleared(l, a)
    BY <1>6, InvalidateClears
  <2> QED
    BY <1>3, <1>4, <2>1 DEF Cleared
<1>7. ASSUME NEW l \in Levels, NEW a \in Nat, NEW write \in BOOLEAN, Insert(l, a, write)
      PROVE  HasLine(lines, f) \/ f = a \div PageSize
  <2>1. Filled(l, a)
    BY <1>7, InsertFills
  <2>2. CASE k = l /\ s = SetOf(l, a) /\ w = Victim(l, a)
    <3>1. lines'[k][s][w].block = Block(l, a)
      BY <2>1, <2>2 DEF Filled
    <3>2. f = (Block(l, a) * BlockSize[l]) \div PageSize
      BY <1>3, <2>2, <3>1 DEF First
    <3> QED
      BY <3>2, BlockInPage
  <2>3. CASE ~(k = l /\ s = SetOf(l, a) /\ w = Victim(l, a))
    <3>1. lines'[k][s][w] = lines[k][s][w]
      BY <2>1, <2>3 DEF Filled
    <3> QED
      BY <1>3, <1>4, <3>1
  <2> QED
    BY <2>2, <2>3
<1>8. req[t].address \in Nat
  BY RequestTyped
<1> QED
  BY <1>5, <1>6, <1>7, <1>8 DEF OneCall

\* A request that has something to insert had it to insert before, or began now.
LEMMA RequestGoesOn ==
  ASSUME TypesInv, NEW t \in Threads, Request(t), pc[t] # "idle", Missed(pc'[t]) # {}
  PROVE  Missed(pc[t]) # {} /\ req'[t].address = req[t].address
<1> USE DEF Levels
<1>1. ASSUME NEW a \in Addresses, NEW write \in BOOLEAN, Start(t, a, write) PROVE FALSE
  BY <1>1 DEF Start
<1>2. CASE Probe2(t) \/ Probe3(t) \/ WriteBack3(t) \/ Fill2(t) \/ Fill1(t)
           \/ Back1(t) \/ Back2(t) \/ Back1Of3(t)
  <2>1. req' = req
    BY <1>2 DEF Probe2, Probe3, Probe, WriteBack3, WriteBack, Fill2, Fill1, Fill,
                Back1, Back2, Back1Of3, SameRequest
  <2>2. pc[t] \in {"probe2", "probe3", "writeback3", "fill2", "fill1", "back1", "back2",
                   "back1of3"}
    BY <1>2 DEF Probe2, Probe3, WriteBack3, Fill2, Fill1, Back1, Back2, Back1Of3, At
  <2> QED
    BY <2>1, <2>2, MissedAt
<1>3. CASE Promote1(t) \/ Promote2(t) \/ Fetch3(t)
  <2>1. PICK l \in Levels : InsertNoting(t, l)
    BY <1>3 DEF Promote1, Promote2, Fetch3
  <2>2. req'[t].address = req[t].address
    BY <2>1, NotingTyped
  <2>3. pc[t] \in {"promote1", "promote2", "fetch3"}
    BY <1>3 DEF Promote1, Promote2, Fetch3, At
  <2> QED
    BY <2>2, <2>3, MissedAt
<1>4. CASE WriteBack2(t)
  <2>1. pc' = [pc EXCEPT ![t] = "idle"]
    BY <1>4 DEF WriteBack2, WriteBack, Goto
  <2> QED
    BY <2>1, MissedAt DEF TypesInv
<1> QED
  BY <1>1, <1>2, <1>3, <1>4 DEF Request

LEMMA NotCleaning ==
  ASSUME SingleThread, NEW t \in Threads, ~InRange(t)
  PROVE  \A f : ~Cleaning(f)
BY DEF Cleaning, SingleThread

\* translate() without an eviction: a frame that is handed out was free, so that it
\* had no owner and no line.
LEMMA ServedBelongs ==
  ASSUME Known, BelongInv, SingleThread, NEW t \in Threads, NEW v \in Vpns,
         NEW write \in BOOLEAN, Served(t, v, write), UNCHANGED vars
  PROVE  BelongInv'
<1> DEFINE now == [thread |-> t, vpn |-> v]
<1>1. inflight = {}
  <2>1. VM!Idle(t)
    BY DEF Served, VM!TranslateTLBHit, VM!TranslateTableHit, VM!TranslateFaultFree,
           VM!TranslateNoFrame, VM!Fault, VM!Access
  <2> QED
    BY <2>1, AnswerTyped DEF VM!Idle, SingleThread, Known
<1>2. OneAnswer'
  <2>1. inflight' = inflight \/ \E f : VM!Return(t, v, f)
    BY DEF Served, VM!TranslateTLBHit, VM!TranslateTableHit, VM!TranslateFaultFree,
           VM!TranslateNoFrame, VM!Load
  <2> QED
    BY <1>1, <2>1 DEF VM!Return, OneAnswer
<1>3. ASSUME NEW f, Owned(f) PROVE Owned(f)'
  <2>1. CASE VM!TranslateTLBHit(t, v, write) \/ VM!TranslateTableHit(t, v, write)
             \/ VM!TranslateNoFrame(t, v, write)
    <3>1. UNCHANGED <<frame_table, cached>>
      BY <2>1 DEF VM!TranslateTLBHit, VM!TranslateTableHit, VM!TranslateNoFrame
    <3> QED
      BY <1>3, <3>1 DEF Owned
  <2>2. CASE VM!TranslateFaultFree(t, v, write)
    <3> DEFINE g == Head(free_frames)
    <3>1. /\ free_frames # <<>> /\ cached' = cached
          /\ frame_table' = [frame_table EXCEPT ![g] = VM!ToInt(v)]
      BY <2>2 DEF VM!TranslateFaultFree, VM!Load
    <3>2. 1 \in DOMAIN free_frames /\ g = free_frames[1] /\ g \in VM!Frames
      BY <3>1 DEF Known, VM!TypeOK
    <3>3. frame_table[g] = -1
      BY <3>2 DEF Known, VM!FramesAccounted
    <3>4. frame_table[f] # -1
      BY <1>3, VMSizes DEF Owned
    <3> HIDE DEF g
    <3>5. f # g
      BY <3>3, <3>4
    <3>6. frame_table'[f] = frame_table[f]
      BY <3>1, <3>5
    <3> QED
      BY <1>3, <3>1, <3>6 DEF Owned
  <2> QED
    BY <2>1, <2>2 DEF Served
<1>4. UNCHANGED <<lines, pc, req>>
  BY DEF vars
<1>5. LinesOwned'
  <2>1. \A f : Cleaning(f) => Cleaning(f)'
    BY <1>4 DEF Cleaning, InRange
  <2> QED
    BY <1>3, <1>4, <2>1 DEF BelongInv, LinesOwned
<1>6. RequestsOwned'
  <2> SUFFICES ASSUME NEW u \in Threads, Missed(pc[u]) # {}
               PROVE  Owned(req[u].address \div PageSize)'
    BY <1>4 DEF RequestsOwned
  <2>1. Owned(req[u].address \div PageSize)
    BY DEF BelongInv, RequestsOwned
  <2> QED
    BY <1>3, <1>4, <2>1 DEF Owned
<1> QED
  BY <1>2, <1>5, <1>6 DEF BelongInv

\* An eviction: its frame loses its owner, and is the one that is cleaned from now on.
LEMMA EvictingBelongs ==
  ASSUME Known, TypesInv', BelongInv, SingleThread, NEW t \in Threads, NEW v \in Vpns,
         NEW write \in BOOLEAN, Evicting(t, v, write), Unlocked,
         NEW r \in inflight', r.thread = t, StartRange(t, r.frame * PageSize)
  PROVE  BelongInv'
<1>1. inflight = {}
  <2>1. VM!Idle(t)
    BY DEF Evicting, VM!TranslateFaultOldest, VM!TranslateFaultClock, VM!Fault, VM!Access
  <2> QED
    BY <2>1, AnswerTyped DEF VM!Idle, SingleThread, Known
<1>2. PICK f \in VM!Frames : \E pt : VM!EvictAndLoad(t, v, write, f, pt)
  <2>1. CASE VM!TranslateFaultOldest(t, v, write)
    BY <2>1 DEF VM!TranslateFaultOldest
  <2>2. CASE VM!TranslateFaultClock(t, v, write)
    <3>1. PICK k \in 0 .. 2 * NumFrames - 1 :
            VM!EvictAndLoad(t, v, write, VM!HandAt(k), VM!Swept(k))
      BY <2>2 DEF VM!TranslateFaultClock
    <3>2. VM!HandAt(k) \in VM!Frames
      BY VMSizes DEF VM!HandAt, VM!Frames, Known, VM!TypeOK
    <3> QED
      BY <3>1, <3>2
  <2> QED
    BY <2>1, <2>2 DEF Evicting
<1>3. /\ frame_table' = [frame_table EXCEPT ![f] = VM!ToInt(v)]
      /\ cached' = {c \in cached : c.frame # f}
      /\ inflight' = inflight \cup {[thread |-> t, vpn |-> v, frame |-> f]}
  BY <1>2 DEF VM!EvictAndLoad, VM!Load, VM!Return
<1>4. OneAnswer' /\ r.frame = f
  BY <1>1, <1>3 DEF OneAnswer
<1>5. ASSUME NEW g, g # f, Owned(g) PROVE Owned(g)'
  BY <1>3, <1>5 DEF Owned
<1>6. UNCHANGED lines /\ pc'[t] = RangeStep(1) /\ req'[t].address = f * PageSize
  BY <1>4 DEF StartRange, Goto, TypesInv, NoRequest
<1>7. f \in Nat /\ (f * PageSize) \div PageSize = f /\ 1 \in Levels
  BY VMSizes, CacheAssumption, MultipleIs DEF VM!Frames, Levels
<1>8. Cleaning(f)'
  BY <1>6, <1>7 DEF Cleaning, InRange
<1>9. LinesOwned'
  <2> SUFFICES ASSUME NEW g, HasLine(lines, g) PROVE Owned(g)' \/ Cleaning(g)'
    BY <1>6 DEF LinesOwned
  <2>1. Owned(g)
    BY DEF BelongInv, LinesOwned, Unlocked, Cleaning
  <2> QED
    BY <1>5, <1>8, <2>1
<1>10. RequestsOwned'
  BY <1>6, <1>7, MissedAt DEF RequestsOwned, SingleThread
<1> QED
  BY <1>4, <1>9, <1>10 DEF BelongInv

\* A request begins in the frame that translate() answered, whose owner is the page
\* that it answered for.
LEMMA BeginBelongs ==
  ASSUME Known, TypesInv', BelongInv, SingleThread, KindsInv, NEW t \in Threads,
         BeginRequest(t)
  PROVE  BelongInv'
<1>1. PICK r \in inflight, offset \in Offsets :
        /\ r.thread = t
        /\ Start(t, r.frame * PageSize + offset, is_write[t])
        /\ VM!Request(t)
  BY SameRequests DEF BeginRequest
<1> DEFINE a == r.frame * PageSize + offset
<1>2. /\ inflight' = inflight \ {r} /\ UNCHANGED frame_table
      /\ cached' = cached \cup {[frame |-> r.frame, vpn |-> r.vpn]}
  BY <1>1 DEF VM!Request, BelongInv, OneAnswer
<1>3. OneAnswer'
  BY <1>2 DEF OneAnswer, BelongInv
<1>4. a \in Addresses /\ a \div PageSize = r.frame /\ r.vpn \in Vpns /\ is_write[t] \in BOOLEAN
  BY AnswerTyped, FrameStart DEF Known, KindsInv
<1>5. Owned(r.frame)' /\ \A f : Owned(f) => Owned(f)'
  <2>1. frame_table[r.frame] = r.vpn
    BY DEF Known, VM!TranslationsFresh
  <2> QED
    BY <1>2, <1>4, <2>1 DEF Owned
<1>6. /\ pc[t] = "idle" /\ Access(t, 1, a, is_write[t]) /\ a \in Nat /\ 1 \in Levels
      /\ req' = [req EXCEPT ![t] = [NoRequest EXCEPT !.address = a, !.write = is_write[t]]]
  BY <1>1, <1>4, CacheAssumption DEF Start, Levels
<1>7. req'[t].address = a
  BY <1>6 DEF Known, TypesInv, NoRequest
<1>8. Missed(pc[t]) = {} /\ ~InRange(t)
  BY <1>6, MissedAt, RangeStepsDiffer DEF InRange
<1>9. OneCall(t)
  BY <1>4, <1>6 DEF OneCall
<1> HIDE DEF a
<1>10. LinesOwned'
  <2> SUFFICES ASSUME NEW f, HasLine(lines', f) PROVE Owned(f)'
    BY DEF LinesOwned
  <2>1. HasLine(lines, f)
    BY <1>8, <1>9, LinesAfter DEF Known
  <2>2. Owned(f)
    BY <1>8, <2>1, NotCleaning DEF BelongInv, LinesOwned
  <2> QED
    BY <1>5, <2>2
<1>11. RequestsOwned'
  <2>1. req'[t].address \div PageSize = r.frame
    BY <1>4, <1>7
  <2> QED
    BY <1>5, <2>1 DEF RequestsOwned, SingleThread, Owned
<1> QED
  BY <1>3, <1>10, <1>11 DEF BelongInv

\* A later step: only what the request has yet to insert comes, and a frame is clean
\* when nobody cleans it any more.
LEMMA ContinueBelongs ==
  ASSUME Known, TypesInv', BelongInv, SingleThread, NEW t \in Threads, Continue(t)
  PROVE  BelongInv'
<1>1. pc[t] # "idle" /\ UNCHANGED <<frame_table, cached, inflight>>
  BY DEF Continue, mvars
<1>2. OneAnswer' /\ \A f : Owned(f) => Owned(f)'
  BY <1>1 DEF BelongInv, OneAnswer, Owned
<1>3. ASSUME Request(t) PROVE BelongInv'
  <2>1. ~InRange(t) /\ OneCall(t)
    BY <1>3, RequestNotRange, RequestCalls DEF Known
  <2>2. LinesOwned'
    <3> SUFFICES ASSUME NEW f, HasLine(lines', f) PROVE Owned(f)'
      BY DEF LinesOwned
    <3>1. CASE HasLine(lines, f)
      <4>1. Owned(f)
        BY <2>1, <3>1, NotCleaning DEF BelongInv, LinesOwned
      <4> QED
        BY <1>2, <4>1
    <3>2. CASE Missed(pc[t]) # {} /\ f = req[t].address \div PageSize
      <4>1. Owned(f)
        BY <3>2 DEF BelongInv, RequestsOwned
      <4> QED
        BY <1>2, <4>1
    <3> QED
      BY <2>1, <3>1, <3>2, LinesAfter DEF Known
  <2>3. RequestsOwned'
    <3> SUFFICES ASSUME Missed(pc'[t]) # {} PROVE Owned(req[t].address \div PageSize)'
      BY DEF RequestsOwned, SingleThread
    <3>1. Missed(pc[t]) # {} /\ req'[t].address = req[t].address
      BY <1>1, <1>3, RequestGoesOn DEF Known
    <3>2. Owned(req[t].address \div PageSize)
      BY <3>1 DEF BelongInv, RequestsOwned
    <3> QED
      BY <1>1, <3>1, <3>2 DEF Owned
  <2> QED
    BY <1>2, <2>2, <2>3 DEF BelongInv
<1>4. ASSUME NEW l \in Levels, InvalidateBlock(t, l) PROVE BelongInv'
  <2> DEFINE m == req[t].address \div PageSize
             step == NextStep(t, l)
  <2>1. /\ pc[t] = RangeStep(l) /\ pc'[t] = step /\ req'[t].address \div PageSize = m
        /\ step = "idle" => ~HasLine(lines', m)
    <3>1. /\ pc[t] = RangeStep(l) /\ pc'[t] = step /\ req'[t].address = NextAddress(t, l)
          /\ NextAddress(t, l) \div PageSize = m
          /\ step = "idle" =>
               \A k \in Levels : \A s \in Sets(k) : \A w \in Ways(k) :
                 lines'[k][s][w].valid => First(k, lines'[k][s][w]) \div PageSize # m
      BY <1>4, RangeMoves DEF Known
    <3> HIDE DEF m, step
    <3> QED
      BY <3>1 DEF HasLine
  <2>2. step = "idle" \/ \E k \in Levels : step = RangeStep(k)
    <3>1. l < 3 => l + 1 \in Levels
      BY DEF Levels
    <3> QED
      BY <2>1, <3>1 DEF NextStep
  <2>3. Missed(pc[t]) = {} /\ Missed(pc'[t]) = {}
    BY <2>1, <2>2, MissedAt
  <2>4. OneCall(t)
    <3>1. Invalidate(l, req[t].address) /\ req[t].address \in Nat
      BY <1>4, BlockGone DEF Known
    <3> QED
      BY <3>1 DEF OneCall
  <2> HIDE DEF m, step
  <2>5. ASSUME NEW f, HasLine(lines', f) PROVE Owned(f)' \/ Cleaning(f)'
    <3>1. HasLine(lines, f)
      BY <2>3, <2>4, <2>5, LinesAfter DEF Known
    <3>2. CASE Owned(f)
      BY <1>2, <3>2
    <3>3. CASE Cleaning(f)
      <4>1. f = m
        BY <3>3 DEF Cleaning, SingleThread, m
      <4>2. step # "idle"
        BY <2>1, <2>5, <4>1
      <4> QED
        BY <2>1, <2>2, <4>1, <4>2 DEF Cleaning, InRange
    <3> QED
      BY <3>1, <3>2, <3>3 DEF BelongInv, LinesOwned
  <2>6. LinesOwned'
    BY <2>5 DEF LinesOwned
  <2>7. RequestsOwned'
    BY <2>3 DEF RequestsOwned, SingleThread
  <2> QED
    BY <1>2, <2>6, <2>7 DEF BelongInv
<1> QED
  BY <1>1, <1>3, <1>4 DEF Continue, InvalidateRange, StartRange

LEMMA BelongStep ==
  ASSUME Known, TypesInv', KindsInv, BelongInv, SingleThread, [PNext]_pvars
  PROVE  BelongInv'
<1>1. ASSUME NEW t \in Threads, NEW v \in Vpns, NEW write \in BOOLEAN, Translate(t, v, write)
      PROVE  BelongInv'
  <2>1. Unlocked
    BY <1>1, TranslateIs
  <2>2. CASE Served(t, v, write) /\ UNCHANGED vars
    BY <2>2, ServedBelongs
  <2>3. CASE /\ Evicting(t, v, write)
             /\ \E r \in inflight' : r.thread = t /\ StartRange(t, r.frame * PageSize)
    BY <2>1, <2>3, EvictingBelongs
  <2> QED
    BY <1>1, <2>2, <2>3, TranslateIs
<1>2. ASSUME NEW t \in Threads, BeginRequest(t) PROVE BelongInv'
  BY <1>2, BeginBelongs
<1>3. ASSUME NEW t \in Threads, Continue(t) PROVE BelongInv'
  BY <1>3, ContinueBelongs
<1>4. ASSUME UNCHANGED <<lines, pc, req, mvars>> PROVE BelongInv'
  <2>1. UNCHANGED <<lines, pc, req, frame_table, cached, inflight>>
    BY <1>4 DEF mvars
  <2>2. \A f : (Owned(f) => Owned(f)') /\ (Cleaning(f) => Cleaning(f)')
    BY <2>1 DEF Owned, Cleaning, InRange
  <2>3. LinesOwned'
    BY <2>1, <2>2 DEF BelongInv, LinesOwned
  <2>4. RequestsOwned' /\ OneAnswer'
    BY <2>1 DEF BelongInv, RequestsOwned, OneAnswer, Owned
  <2> QED
    BY <2>3, <2>4 DEF BelongInv
<1>5. ASSUME NEW p \in Policies, SetPolicy(p), UNCHANGED <<mvars, is_write>> PROVE BelongInv'
  BY <1>4, <1>5 DEF SetPolicy
<1>6. CASE UNCHANGED pvars
  BY <1>4, <1>6 DEF pvars, vars
<1> QED
  BY <1>1, <1>2, <1>3, <1>5, <1>6 DEF PNext

\* With one thread that keeps to one page table mode and to page numbers that fit the
\* frame table, every valid line of the caches is of a frame that has an owner, and
\* was asked for since the owner has it: an eviction finds all lines of the frame,
\* and a request is made in a frame whose page is still the one translate() answered
\* for.  Neither component can see this of itself.
THEOREM LinesOfOwners ==
  ASSUME SingleThread, VM!SingleMode, VM!SmallVpns
  PROVE  PSpec => []LinesBelong
<1>1. PInit => BelongInv
  BY MissedAt DEF PInit, Init, NoLine, VM!Init, MMU!Init, BelongInv, LinesOwned, HasLine,
                  RequestsOwned, OneAnswer
<1>2. Known /\ TypesInv' /\ KindsInv /\ BelongInv /\ [PNext]_pvars => BelongInv'
  BY BelongStep
<1>3. PSpec => []Known
  <2>1. Spec => [](TypesInv /\ OrderInv /\ MissedInv)
    BY OneThread
  <2>2. Spec => []RangeInv
    BY RangeHolds
  <2>3. VM!Spec => []VM!FramesAccounted
    BY VM!FramesKept, VMSizes, VMPages, VMChoices
  <2>4. VM!Spec => [](VM!NoStaleLines /\ VM!TranslationsFresh)
    <3>1. VM!SingleThread
      BY DEF SingleThread, VM!SingleThread
    <3> QED
      BY <3>1, VM!CachesFresh, VMSizes, VMPages, VMChoices
  <2> QED
    BY <2>1, <2>2, <2>3, <2>4, VMTypes, PipelineTranslates, PipelineRequests, PTL DEF Known
<1>4. BelongInv => LinesBelong
  <2> SUFFICES ASSUME BelongInv, Unlocked, NEW l \in Levels, NEW s \in Sets(l),
                      NEW w \in Ways(l), lines[l][s][w].valid
               PROVE  Owned((lines[l][s][w].block * BlockSize[l]) \div PageSize)
    BY DEF LinesBelong, Owned
  <2>1. HasLine(lines, (lines[l][s][w].block * BlockSize[l]) \div PageSize)
    BY DEF HasLine, First
  <2> QED
    BY <2>1 DEF BelongInv, LinesOwned, Cleaning, Unlocked
<1>5. PSpec => []BelongInv
  BY <1>1, <1>2, <1>3, KindsKept, PTL DEF PSpec, Known
<1> QED
  BY <1>4, <1>5, PTL
=============================================================================
