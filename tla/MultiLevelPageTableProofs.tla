---------------------- MODULE MultiLevelPageTableProofs ----------------------
(***************************************************************************)
(* What holds of the tree for every number of levels and of bits in each,  *)
(* and whatever the pages.                                                 *)
(***************************************************************************)
EXTENDS MultiLevelPageTable, VirtualMemoryProofs, SequenceTheorems

(* The indices of a page number.                                           *)

\* The pages that one entry of the level before the given one stands for.
Span(level) == 2 ^ BitsFrom(level)

LEMMA LevelsType ==
  /\ PT_LEVELS \in Nat \ {0}
  /\ \A level \in 1 .. PT_LEVELS : ML_LEVEL_BITS[level] \in Nat
BY TreeAssumption DEF PT_LEVELS

LEMMA BitsAdd ==
  ASSUME NEW level, level \in 1 .. PT_LEVELS
  PROVE  /\ BitsFrom(level) \in Nat /\ BitsFrom(level + 1) \in Nat
         /\ BitsFrom(level) = ML_LEVEL_BITS[level] + BitsFrom(level + 1)
<1> DEFINE S == level .. PT_LEVELS
           f == [l \in S |-> ML_LEVEL_BITS[l]]
           rest == [l \in (level + 1) .. PT_LEVELS |-> ML_LEVEL_BITS[l]]
<1>1. level \in S
  BY LevelsType
<1>2. IsFiniteSet(S)
  BY LevelsType, FS_Interval
<1>3. f \in [S -> Nat]
  BY LevelsType
<1>4. S \ {level} = (level + 1) .. PT_LEVELS
  BY LevelsType
<1>5. rest \in [S \ {level} -> Nat] /\ \A l \in S \ {level} : rest[l] = f[l]
  BY <1>4, LevelsType
<1>6. Total(f) = BitsFrom(level) /\ Total(rest) = BitsFrom(level + 1)
  BY DEF BitsFrom
<1>7. f[level] = ML_LEVEL_BITS[level]
  BY <1>1
<1> HIDE DEF S, f, rest
<1>8. Total(rest) \in Nat /\ Total(f) = f[level] + Total(rest)
  BY ONLY <1>1, <1>2, <1>3, <1>5, TotalRest
<1> QED
  BY <1>6, <1>7, <1>8, LevelsType

LEMMA BitsEnd == BitsFrom(PT_LEVELS + 1) = 0
<1> DEFINE f == [l \in (PT_LEVELS + 1) .. PT_LEVELS |-> ML_LEVEL_BITS[l]]
<1>1. DOMAIN f = {}
  BY LevelsType
<1>2. Units(f) = {}
  BY <1>1 DEF Units
<1> QED
  BY <1>2, FS_EmptySet DEF BitsFrom, Total

LEMMA Spans ==
  ASSUME NEW level \in 1 .. PT_LEVELS
  PROVE  /\ Span(level) = Span(level + 1) * 2 ^ ML_LEVEL_BITS[level]
         /\ Span(level + 1) \in Nat \ {0}
         /\ 2 ^ ML_LEVEL_BITS[level] \in Nat \ {0}
<1>1. /\ BitsFrom(level + 1) \in Nat /\ ML_LEVEL_BITS[level] \in Nat
      /\ BitsFrom(level) = BitsFrom(level + 1) + ML_LEVEL_BITS[level]
  BY BitsAdd, LevelsType
<1> QED
  BY <1>1, PowAdds, PowPositive DEF Span

\* Two numbers with the same quotient above a level and the same index at it
\* have the same quotient below it.
LEMMA SameBelow ==
  ASSUME NEW u \in Nat, NEW v \in Nat, NEW level \in 1 .. PT_LEVELS,
         u \div Span(level) = v \div Span(level),
         extract_index(u, level) = extract_index(v, level)
  PROVE  u \div Span(level + 1) = v \div Span(level + 1)
<1> DEFINE a == Span(level + 1)
           b == 2 ^ ML_LEVEL_BITS[level]
           x == u \div a
           y == v \div a
<1>1. a \in Nat \ {0} /\ b \in Nat \ {0} /\ Span(level) = a * b
  BY Spans
<1>2. x % b = y % b
  BY DEF extract_index, Span
<1>3. x \div b = u \div Span(level) /\ y \div b = v \div Span(level)
  BY <1>1, DivisionTwice
<1> HIDE DEF a, b
<1>4. x \in Nat /\ y \in Nat
  BY <1>1
<1> HIDE DEF x, y
<1>5. x = (x \div b) * b + (x % b) /\ y = (y \div b) * b + (y % b)
  BY <1>1, <1>4
<1>6. x \div b = y \div b
  BY <1>3
<1>7. x = y
  BY <1>2, <1>5, <1>6
<1> QED
  BY <1>7 DEF x, y, a

\* The indices tell any two pages apart that they can reach.
LEMMA LeafInjective ==
  ASSUME NEW u \in 0 .. WalkLimit - 1, NEW v \in 0 .. WalkLimit - 1,
         Leaf(u) = Leaf(v)
  PROVE  u = v
<1> DEFINE Q(n) == u \div Span(n + 1) = v \div Span(n + 1)
           S == {n \in Nat : n <= PT_LEVELS => Q(n)}
<1>1. u \in Nat /\ v \in Nat /\ WalkLimit \in Nat /\ PT_LEVELS \in Nat \ {0}
  BY SizesAssumption, LevelsType
<1>2. 0 \in S
  <2>1. Span(1) = WalkLimit
    BY TreeAssumption DEF Span
  <2>2. WalkLimit \in Nat \ {0} /\ u = 0 * WalkLimit + u /\ v = 0 * WalkLimit + v
    BY <1>1
  <2>3. u \div WalkLimit = 0 /\ v \div WalkLimit = 0
    BY <2>2, Division
  <2> QED
    BY <2>1, <2>3
<1>3. ASSUME NEW n \in Nat, n \in S PROVE n + 1 \in S
  <2> SUFFICES ASSUME n + 1 <= PT_LEVELS PROVE Q(n + 1)
    OBVIOUS
  <2>1. n + 1 \in 1 .. PT_LEVELS /\ Q(n)
    BY <1>1, <1>3
  <2>2. Leaf(u)[n + 1] = extract_index(u, n + 1)
        /\ Leaf(v)[n + 1] = extract_index(v, n + 1)
    BY <2>1 DEF Leaf, Path
  <2>3. extract_index(u, n + 1) = extract_index(v, n + 1)
    BY <2>2
  <2> QED
    BY <1>1, <2>1, <2>3, SameBelow
<1> HIDE DEF S
<1>4. PT_LEVELS \in S
  BY <1>1, <1>2, <1>3, Induct
<1>5. Q(PT_LEVELS)
  BY <1>1, <1>4 DEF S
<1>6. Span(PT_LEVELS + 1) = 1
  <2>1. 2 ^ 0 = 1
    OBVIOUS
  <2> QED
    BY <2>1, BitsEnd DEF Span
<1> QED
  BY <1>1, <1>5, <1>6

\* The table on the way to an entry, by the indices before.
LEMMA Prefix ==
  ASSUME NEW v \in Nat, NEW levels \in 0 .. PT_LEVELS
  PROVE  SubSeq(Leaf(v), 1, levels) = Path(v, levels)
<1> DEFINE I == {extract_index(v, i) : i \in 1 .. PT_LEVELS}
           sub == SubSeq(Leaf(v), 1, levels)
<1>1. PT_LEVELS \in Nat /\ levels \in Int
  BY LevelsType
<1>2. \A i \in 1 .. levels : Leaf(v)[i] = extract_index(v, i) /\ Leaf(v)[i] \in I
  BY <1>1 DEF Leaf, Path
<1> HIDE DEF I
<1>3. /\ sub \in Seq(I)
      /\ Len(sub) = IF 1 <= levels THEN levels - 1 + 1 ELSE 0
      /\ \A i \in 1 .. levels - 1 + 1 : sub[i] = Leaf(v)[1 + i - 1]
  BY <1>1, <1>2, SubSeqProperties
<1> HIDE DEF sub
<1>4. sub = [i \in 1 .. levels |-> sub[i]]
  BY <1>1, <1>3
<1>5. \A i \in 1 .. levels : sub[i] = extract_index(v, i)
  BY <1>1, <1>2, <1>3
<1>6. sub = Path(v, levels)
  BY <1>4, <1>5 DEF Path
<1> QED
  BY <1>6 DEF sub

-----------------------------------------------------------------------------
(* The tree and the table.                                                 *)

Reached == {v \in Vpns : v < WalkLimit}

\* The leaves lv hold what the table pt says, each page's in its own entry,
\* and no other entry is used.
Mirrors(pt, lv) ==
  /\ lv \in [LeafPaths -> PageTableEntry]
  /\ \A v \in Reached : lv[Leaf(v)] = pt["multi"][v]
  /\ \A path \in LeafPaths :
       lv[path].valid => \E v \in Reached : Leaf(v) = path

\* The tables tb on the way to each mapped page of pt were made.
Built(pt, tb) ==
  /\ <<>> \in tb
  /\ \A v \in Reached : pt["multi"][v].valid =>
       \A levels \in 1 .. PT_LEVELS - 1 : Path(v, levels) \in tb

\* A frame that names a page names one the table has an entry for.
Named(ft) == \A f \in Frames : ft[f] >= 0 => ft[f] \in Vpns

\* LeavesMatch with what the walks to a victim's page need.
TreeInv ==
  /\ TypeInv
  /\ mode = "multi"
  /\ Named(frame_table)
  /\ Mirrors(page_table, leaves)
  /\ Built(page_table, tables)

LEMMA ReachedPages ==
  ASSUME NEW v \in Reached
  PROVE  /\ v \in Vpns /\ v \in 0 .. WalkLimit - 1
         /\ v \in Nat /\ Leaf(v) \in LeafPaths
BY SizesAssumption DEF Reached, LeafPaths

LEMMA ReachedApart ==
  ASSUME NEW u \in Reached, NEW v \in Reached, Leaf(u) = Leaf(v)
  PROVE  u = v
BY ReachedPages, LeafInjective

LEMMA TreeMatches == TreeInv => LeavesMatch
<1> SUFFICES ASSUME TreeInv PROVE LeavesMatch
  OBVIOUS
<1>1. \A v \in Vpns : v < WalkLimit => leaves[Leaf(v)] = page_table["multi"][v]
  BY DEF TreeInv, Mirrors, Reached
<1>2. ASSUME NEW path \in LeafPaths, leaves[path].valid
      PROVE  /\ \E v \in Vpns : v < WalkLimit /\ Leaf(v) = path
             /\ \A levels \in 0 .. PT_LEVELS - 1 :
                  SubSeq(path, 1, levels) \in tables
  <2>1. PICK v \in Reached : Leaf(v) = path
    BY <1>2 DEF TreeInv, Mirrors
  <2>2. page_table["multi"][v].valid
    BY <1>2, <2>1 DEF TreeInv, Mirrors
  <2>3. ASSUME NEW levels \in 0 .. PT_LEVELS - 1
        PROVE  SubSeq(path, 1, levels) \in tables
    <3>1. CASE levels = 0
      <4>1. SubSeq(path, 1, 0) = <<>>
        BY SubSeqEmpty
      <4> QED
        BY <3>1, <4>1 DEF TreeInv, Built
    <3>2. CASE levels # 0
      <4>1. levels \in 0 .. PT_LEVELS /\ levels \in 1 .. PT_LEVELS - 1
        BY <3>2, LevelsType
      <4>2. SubSeq(path, 1, levels) = Path(v, levels)
        BY <2>1, <4>1, ReachedPages, Prefix
      <4> QED
        BY <2>2, <4>1, <4>2 DEF TreeInv, Built
    <3> QED
      BY <3>1, <3>2
  <2> QED
    BY <2>1, <2>3 DEF Reached
<1> QED
  BY <1>1, <1>2 DEF LeavesMatch

LEMMA InitTree == TInit => TreeInv
<1> SUFFICES ASSUME TInit PROVE TreeInv
  OBVIOUS
<1>1. TypeInv /\ mode = "multi"
  BY InitType, TreeAssumption DEF TInit, Init
<1>2. Named(frame_table)
  BY DEF TInit, Init, Named
<1>3. NoPage \in PageTableEntry /\ ~NoPage.valid
  BY DEF NoPage, PageTableEntry
<1>4. \A v \in Vpns : page_table["multi"][v] = NoPage
  BY DEF TInit, Init
<1>5. leaves = [p \in LeafPaths |-> NoPage] /\ tables = {<<>>}
  BY DEF TInit
<1>6. \A v \in Reached : Leaf(v) \in LeafPaths /\ v \in Vpns
  BY ReachedPages
<1>7. Mirrors(page_table, leaves)
  BY <1>3, <1>4, <1>5, <1>6 DEF Mirrors
<1>8. Built(page_table, tables)
  BY <1>3, <1>4, <1>5, <1>6 DEF Built
<1> QED
  BY <1>1, <1>2, <1>7, <1>8 DEF TreeInv

\* One entry written in both.
LEMMA EntryMirrors ==
  ASSUME NEW pt \in Tables, NEW lv, Mirrors(pt, lv), NEW v \in Reached,
         NEW e \in PageTableEntry
  PROVE  Mirrors([pt EXCEPT !["multi"][v] = e], WithEntry(lv, v, e))
<1> DEFINE new == WithEntry(lv, v, e)
           qt == [pt EXCEPT !["multi"][v] = e]
<1>1. v \in Vpns /\ v < WalkLimit /\ Leaf(v) \in LeafPaths
  BY ReachedPages DEF Reached
<1>2. new = [lv EXCEPT ![Leaf(v)] = e]
  BY <1>1 DEF WithEntry
<1>3. /\ new \in [LeafPaths -> PageTableEntry]
      /\ \A path \in LeafPaths : new[path] = IF path = Leaf(v) THEN e ELSE lv[path]
  BY <1>1, <1>2 DEF Mirrors
<1>4. \A u \in Vpns : qt["multi"][u] = IF u = v THEN e ELSE pt["multi"][u]
  BY UpdateAt
<1> HIDE DEF new, qt
<1>5. ASSUME NEW u \in Reached PROVE new[Leaf(u)] = qt["multi"][u]
  <2>1. u \in Vpns /\ Leaf(u) \in LeafPaths /\ (Leaf(u) = Leaf(v) <=> u = v)
    BY ReachedPages, ReachedApart
  <2>2. lv[Leaf(u)] = pt["multi"][u]
    BY DEF Mirrors
  <2> QED
    BY <1>3, <1>4, <2>1, <2>2
<1>6. ASSUME NEW path \in LeafPaths, new[path].valid
      PROVE  \E u \in Reached : Leaf(u) = path
  BY <1>3, <1>6 DEF Mirrors
<1>7. Mirrors(qt, new)
  BY <1>3, <1>5, <1>6 DEF Mirrors
<1> QED
  BY <1>7 DEF qt, new

LEMMA TouchMirrors ==
  ASSUME TreeInv, NEW v \in Vpns, NEW write \in BOOLEAN,
         access_counter' \in Nat, Touch(v, write)
  PROVE  Mirrors(Touched(mode, v, write, access_counter'), leaves')
<1> DEFINE now == access_counter'
           x == page_table["multi"][v]
           used == [x EXCEPT !.last_access = now, !.referenced = TRUE]
           e == IF write THEN [used EXCEPT !.dirty = TRUE] ELSE used
           y == leaves[Leaf(v)]
           d == [y EXCEPT !.last_access = now, !.referenced = TRUE,
                          !.dirty = @ \/ write]
<1>1. mode = "multi" /\ page_table \in Tables /\ Mirrors(page_table, leaves)
  BY DEF TreeInv, TypeInv, Sound
<1>2. x \in PageTableEntry
  BY <1>1 DEF Tables
<1>3. CASE v < WalkLimit
  <2>1. v \in Reached /\ x = y
    BY <1>1, <1>3 DEF Reached, Mirrors
  <2>2. Touched(mode, v, write, now) = [page_table EXCEPT !["multi"][v] = e]
    BY <1>1, <1>3 DEF Touched, Reachable
  <2>3. leaves' = WithEntry(leaves, v, d)
    BY DEF Touch
  <2>4. d = e /\ e \in PageTableEntry
    <3> HIDE DEF x, y
    <3>1. CASE write
      BY <1>2, <2>1, <3>1 DEF PageTableEntry
    <3>2. CASE ~write
      <4>1. d = [y EXCEPT !.last_access = now, !.referenced = TRUE]
        BY <1>2, <2>1, <3>2 DEF PageTableEntry
      <4>2. e = [y EXCEPT !.last_access = now, !.referenced = TRUE]
        BY <2>1, <3>2
      <4> QED
        BY <1>2, <2>1, <4>1, <4>2 DEF PageTableEntry
    <3> QED
      BY <3>1, <3>2
  <2> HIDE DEF d, e, x, y
  <2> QED
    BY <1>1, <2>1, <2>2, <2>3, <2>4, EntryMirrors
<1>4. CASE ~(v < WalkLimit)
  BY <1>1, <1>4 DEF Touched, Reachable, Touch, WithEntry
<1> QED
  BY <1>3, <1>4

LEMMA MapMirrors ==
  ASSUME NEW pt \in Tables, NEW lv, Mirrors(pt, lv), NEW v \in Vpns,
         NEW f \in Frames, NEW write \in BOOLEAN, NEW now \in Nat
  PROVE  Mirrors(WithMapping(pt, "multi", v, f, write, now),
                 map(lv, v, f, now, write))
<1> DEFINE e == [valid |-> TRUE, dirty |-> write, referenced |-> TRUE,
                 frame |-> f, last_access |-> now, load_time |-> now]
<1>1. e \in PageTableEntry
  BY DEF PageTableEntry
<1>2. map(lv, v, f, now, write) = WithEntry(lv, v, e)
  BY DEF map
<1>3. v < WalkLimit => WithMapping(pt, "multi", v, f, write, now)
                         = [pt EXCEPT !["multi"][v] = e]
  BY DEF WithMapping, Reachable
<1>4. ~(v < WalkLimit) => WithMapping(pt, "multi", v, f, write, now) = pt
  BY DEF WithMapping, Reachable
<1>5. ~(v < WalkLimit) => WithEntry(lv, v, e) = lv
  BY DEF WithEntry
<1> HIDE DEF e
<1>6. v < WalkLimit =>
        Mirrors([pt EXCEPT !["multi"][v] = e], WithEntry(lv, v, e))
  BY <1>1, EntryMirrors DEF Reached
<1> QED
  BY <1>2, <1>3, <1>4, <1>5, <1>6

LEMMA UnmapMirrors ==
  ASSUME NEW pt \in Tables, NEW lv, Mirrors(pt, lv), NEW v \in Vpns
  PROVE  Mirrors(WithoutMapping(pt, "multi", v), unmap(lv, v))
<1> DEFINE x == pt["multi"][v]
           e == [x EXCEPT !.valid = FALSE, !.frame = -1,
                          !.dirty = FALSE, !.referenced = FALSE]
           d == [lv[Leaf(v)] EXCEPT !.valid = FALSE, !.frame = -1,
                                    !.dirty = FALSE, !.referenced = FALSE]
<1>0. x \in PageTableEntry
  BY DEF Tables
<1>1. e \in PageTableEntry
  BY <1>0 DEF PageTableEntry
<1>2. unmap(lv, v) = WithEntry(lv, v, d)
  BY DEF unmap
<1>3. v < WalkLimit => WithoutMapping(pt, "multi", v)
                         = [pt EXCEPT !["multi"][v] = e]
  BY DEF WithoutMapping, Reachable
<1>4. ~(v < WalkLimit) => WithoutMapping(pt, "multi", v) = pt
  BY DEF WithoutMapping, Reachable
<1>5. v < WalkLimit => d = e
  BY DEF Mirrors, Reached
<1>6. ~(v < WalkLimit) => WithEntry(lv, v, d) = lv
  BY DEF WithEntry
<1> HIDE DEF d, e
<1>7. v < WalkLimit =>
        Mirrors([pt EXCEPT !["multi"][v] = e], WithEntry(lv, v, e))
  BY <1>1, EntryMirrors DEF Reached
<1> QED
  BY <1>2, <1>3, <1>4, <1>5, <1>6, <1>7

\* The hand clears in the leaves the reference bits it clears in the table.
LEMMA SweptMirrors ==
  ASSUME TreeInv, NEW k \in Nat,
         NEW lv, lv = [path \in LeafPaths |->
           IF \E j \in 0 .. k - 1 : LET p == frame_table[HandAt(j)] IN
                p \in 0 .. WalkLimit - 1 /\ Leaf(p) = path
           THEN [leaves[path] EXCEPT !.referenced = FALSE]
           ELSE leaves[path]]
  PROVE  Mirrors(Swept(k), lv)
<1> DEFINE Met(path) == \E j \in 0 .. k - 1 :
             /\ frame_table[HandAt(j)] \in 0 .. WalkLimit - 1
             /\ Leaf(frame_table[HandAt(j)]) = path
           clear(e) == [e EXCEPT !.referenced = FALSE]
<1>1. mode = "multi" /\ page_table \in Tables /\ Mirrors(page_table, leaves)
  BY DEF TreeInv, TypeInv, Sound
<1>2. \A e \in PageTableEntry :
        clear(e) \in PageTableEntry /\ clear(e).valid = e.valid
  BY DEF PageTableEntry
<1>3. \A path \in LeafPaths :
        lv[path] = IF Met(path) THEN clear(leaves[path]) ELSE leaves[path]
  OBVIOUS
<1>4. \A v \in Vpns :
        Swept(k)["multi"][v] = IF Passed(k, v) THEN clear(page_table["multi"][v])
                                               ELSE page_table["multi"][v]
  BY <1>1 DEF Swept, Tables
<1>5. \A path \in LeafPaths :
        /\ leaves[path] \in PageTableEntry
        /\ lv[path] \in PageTableEntry /\ lv[path].valid = leaves[path].valid
  BY <1>1, <1>2, <1>3 DEF Mirrors
<1>6. DOMAIN lv = LeafPaths /\ lv = [path \in LeafPaths |-> lv[path]]
  OBVIOUS
<1>7. lv \in [LeafPaths -> PageTableEntry]
  BY <1>5, <1>6
<1>8. ASSUME NEW v \in Reached PROVE Met(Leaf(v)) <=> Passed(k, v)
  <2>1. v \in Vpns /\ v \in 0 .. WalkLimit - 1 /\ Reachable(mode, v)
    BY ReachedPages DEF Reached, Reachable
  <2>2. \A j : /\ frame_table[HandAt(j)] \in 0 .. WalkLimit - 1
               /\ Leaf(frame_table[HandAt(j)]) = Leaf(v)
               <=> frame_table[HandAt(j)] = v
    BY <2>1, LeafInjective
  <2> QED
    BY <2>1, <2>2 DEF Passed
<1> HIDE DEF Met, clear
<1>9. ASSUME NEW v \in Reached PROVE lv[Leaf(v)] = Swept(k)["multi"][v]
  <2>1. v \in Vpns /\ Leaf(v) \in LeafPaths
    BY ReachedPages
  <2>2. leaves[Leaf(v)] = page_table["multi"][v]
    BY <1>1 DEF Mirrors
  <2> QED
    BY <1>3, <1>4, <1>8, <2>1, <2>2
<1>10. ASSUME NEW path \in LeafPaths, lv[path].valid
       PROVE  \E v \in Reached : Leaf(v) = path
  BY <1>1, <1>5, <1>10 DEF Mirrors
<1> QED
  BY <1>7, <1>9, <1>10 DEF Mirrors

-----------------------------------------------------------------------------
(* The steps.                                                              *)

\* The only page that qt maps and pt does not is v.
MapsOnly(pt, qt, v) ==
  \A u \in Vpns : qt["multi"][u].valid => pt["multi"][u].valid \/ u = v

LEMMA WalksBuild ==
  ASSUME NEW pt, NEW qt, NEW v, Built(pt, tables), MapsOnly(pt, qt, v),
         NEW pages, Walks(pages), v \in pages
  PROVE  Built(qt, tables')
<1>1. tables \subseteq tables'
  BY DEF Walks
<1>2. \A levels \in 1 .. PT_LEVELS - 1 : v < WalkLimit => Path(v, levels) \in tables'
  BY DEF Walks
<1>3. \A u \in Reached : u \in Vpns /\ u < WalkLimit
  BY DEF Reached
<1> QED
  BY <1>1, <1>2, <1>3 DEF Built, MapsOnly

LEMMA LoadMapsOnly ==
  ASSUME NEW pt \in Tables, NEW v \in Vpns, NEW f, NEW write, NEW now
  PROVE  MapsOnly(pt, WithMapping(pt, "multi", v, f, write, now), v)
BY DEF Tables, WithMapping, MapsOnly

LEMMA UnmapTables ==
  ASSUME NEW pt \in Tables, NEW o \in Vpns
  PROVE  WithoutMapping(pt, "multi", o) \in Tables
<1> DEFINE x == pt["multi"][o]
           e == [x EXCEPT !.valid = FALSE, !.frame = -1,
                          !.dirty = FALSE, !.referenced = FALSE]
<1>0. x \in PageTableEntry
  BY DEF Tables
<1>1. e \in PageTableEntry
  BY <1>0 DEF PageTableEntry
<1>2. WithoutMapping(pt, "multi", o) \in {pt, [pt EXCEPT !["multi"][o] = e]}
  BY DEF WithoutMapping
<1> HIDE DEF e
<1>3. [pt["multi"] EXCEPT ![o] = e] \in [Vpns -> PageTableEntry]
  BY <1>1 DEF Tables
<1>4. [pt EXCEPT !["multi"][o] = e] \in Tables
  BY <1>3 DEF Tables
<1> QED
  BY <1>2, <1>4

LEMMA UnmapMapsOnly ==
  ASSUME NEW pt \in Tables, NEW o \in Vpns, NEW v
  PROVE  MapsOnly(pt, WithoutMapping(pt, "multi", o), v)
<1> DEFINE x == pt["multi"][o]
           e == [x EXCEPT !.valid = FALSE, !.frame = -1,
                          !.dirty = FALSE, !.referenced = FALSE]
<1>1. e.valid = FALSE
  BY DEF Tables, PageTableEntry
<1>2. WithoutMapping(pt, "multi", o) \in {pt, [pt EXCEPT !["multi"][o] = e]}
  BY DEF WithoutMapping
<1> HIDE DEF e
<1>3. \A u \in Vpns : [pt EXCEPT !["multi"][o] = e]["multi"][u] =
                        IF u = o THEN e ELSE pt["multi"][u]
  BY UpdateAt
<1> QED
  BY <1>1, <1>2, <1>3 DEF MapsOnly

LEMMA SweptMapsOnly ==
  ASSUME TypeInv, mode = "multi", NEW k, NEW v
  PROVE  MapsOnly(page_table, Swept(k), v)
<1>1. page_table \in Tables
  BY DEF TypeInv, Sound
<1>2. \A u \in Vpns : Swept(k)["multi"][u] \in
        {page_table["multi"][u], [page_table["multi"][u] EXCEPT !.referenced = FALSE]}
  BY <1>1 DEF Swept, Tables
<1>3. \A u \in Vpns : page_table["multi"][u] \in PageTableEntry
  BY <1>1 DEF Tables
<1> QED
  BY <1>2, <1>3 DEF MapsOnly, PageTableEntry

\* The frame table after a load.
LEMMA LoadNamed ==
  ASSUME TypeInv, Named(frame_table), NEW v \in Vpns, NEW f,
         frame_table' = [frame_table EXCEPT ![f] = ToInt(v)]
  PROVE  Named(frame_table')
<1>1. ToInt(v) >= 0 => ToInt(v) \in Vpns
  BY PagesAssumption
<1>2. frame_table \in [Frames -> Int]
  BY DEF TypeInv
<1> QED
  BY <1>1, <1>2 DEF Named

LEMMA OneOldest ==
  ASSUME TypeInv, mode = "multi", Named(frame_table),
         NEW f \in Frames, NEW g \in Frames, Oldest(f), Oldest(g)
  PROVE  f = g
<1>1. ASSUME NEW h \in Frames, Oldest(h) PROVE Age(h) \in Int
  <2>1. frame_table[h] \in Vpns
    BY <1>1 DEF Oldest, Named
  <2>2. page_table["multi"][frame_table[h]] \in PageTableEntry
    BY <2>1 DEF TypeInv, Sound, Tables
  <2> QED
    BY <2>2 DEF Age, PageTableEntry
<1>2. Age(f) \in Int /\ Age(g) \in Int
  BY <1>1
<1>3. f \in Int /\ g \in Int
  BY FramesNat
<1>4. /\ Age(f) <= Age(g) /\ (g < f => Age(f) < Age(g))
      /\ Age(g) <= Age(f) /\ (f < g => Age(g) < Age(f))
  BY DEF Oldest
<1> QED
  BY <1>2, <1>3, <1>4

\* An eviction, after which the table is pt and the leaves lv mirror it.
LEMMA EvictTree ==
  ASSUME TreeInv, NEW t \in Threads, NEW v \in Vpns, NEW write \in BOOLEAN,
         NEW f \in Frames, frame_table[f] >= 0, access_counter' \in Nat,
         NEW pt \in Tables, NEW lv, Mirrors(pt, lv),
         MapsOnly(page_table, pt, v),
         EvictAndLoad(t, v, write, f, pt), Evict(v, write, f, lv)
  PROVE  /\ Named(frame_table')
         /\ Mirrors(page_table', leaves')
         /\ MapsOnly(page_table, page_table', v)
<1> DEFINE o == frame_table[f]
           now == access_counter'
           wo == WithoutMapping(pt, "multi", o)
           lw == unmap(lv, o)
<1>1. mode = "multi" /\ o \in Vpns
  BY DEF TreeInv, Named
<1>2. /\ page_table' = WithMapping(wo, "multi", v, f, write, now)
      /\ frame_table' = [frame_table EXCEPT ![f] = ToInt(v)]
  BY <1>1 DEF EvictAndLoad, Load
<1>3. leaves' = map(lw, v, f, now, write)
  BY DEF Evict
<1>4. Mirrors(wo, lw) /\ MapsOnly(pt, wo, v)
  BY <1>1, UnmapMirrors, UnmapMapsOnly
<1>5. wo \in Tables
  BY <1>1, UnmapTables
<1> HIDE DEF wo, lw, o
<1>6. Mirrors(page_table', leaves')
  BY <1>2, <1>3, <1>4, <1>5, MapMirrors
<1>7. MapsOnly(wo, page_table', v)
  BY <1>2, <1>5, LoadMapsOnly
<1>8. MapsOnly(page_table, page_table', v)
  BY <1>4, <1>7 DEF MapsOnly
<1>9. Named(frame_table')
  BY <1>2, LoadNamed DEF TreeInv
<1> QED
  BY <1>6, <1>8, <1>9

LEMMA HitTree ==
  ASSUME TreeInv, NEW t \in Threads, NEW v \in Vpns, NEW write \in BOOLEAN,
         Hit(t, v, write)
  PROVE  TreeInv'
<1>1. /\ Translate(t, v, write) /\ Access(t, v, write)
      /\ page_table' = Touched(mode, v, write, access_counter')
      /\ frame_table' = frame_table
  BY DEF Hit, Translate, TranslateTLBHit, TranslateTableHit
<1>2. /\ TypeInv /\ mode = "multi" /\ Named(frame_table)
      /\ Built(page_table, tables)
  BY DEF TreeInv
<1>3. TypeInv' /\ access_counter' \in Nat /\ mode' = mode
  BY <1>1, <1>2, TranslateType, AccessType
<1>4. Mirrors(page_table', leaves')
  BY <1>1, <1>3, TouchMirrors DEF Hit
<1>5. MapsOnly(page_table, page_table', v)
  BY <1>1, <1>2, TouchedLeavesFrames DEF MapsOnly, TypeInv
<1>6. Built(page_table', tables')
  BY <1>2, <1>5, WalksBuild DEF Hit
<1> QED
  BY <1>1, <1>2, <1>3, <1>4, <1>6 DEF TreeInv

LEMMA FaultFreeTree ==
  ASSUME TreeInv, NEW t \in Threads, NEW v \in Vpns, NEW write \in BOOLEAN,
         FaultFree(t, v, write)
  PROVE  TreeInv'
<1> DEFINE f == Head(free_frames)
<1>1. /\ TypeInv /\ mode = "multi" /\ Named(frame_table)
      /\ Mirrors(page_table, leaves) /\ Built(page_table, tables)
      /\ page_table \in Tables
  BY DEF TreeInv, TypeInv, Sound
<1>2. /\ Translate(t, v, write) /\ Access(t, v, write)
      /\ page_table' = WithMapping(page_table, "multi", v, f, write, access_counter')
      /\ frame_table' = [frame_table EXCEPT ![f] = ToInt(v)]
      /\ free_frames # <<>>
  BY <1>1 DEF FaultFree, Translate, TranslateFaultFree, Fault, Load
<1>3. TypeInv' /\ access_counter' \in Nat /\ mode' = mode
  BY <1>1, <1>2, TranslateType, AccessType
<1>4. f \in Frames
  BY <1>2 DEF TreeInv, TypeInv
<1>5. leaves' = map(leaves, v, f, access_counter', write)
  BY DEF FaultFree
<1> HIDE DEF f
<1>6. Mirrors(page_table', leaves')
  BY <1>1, <1>2, <1>3, <1>4, <1>5, MapMirrors
<1>7. MapsOnly(page_table, page_table', v)
  BY <1>1, <1>2, LoadMapsOnly
<1>8. Built(page_table', tables')
  BY <1>1, <1>7, WalksBuild DEF FaultFree
<1>9. Named(frame_table')
  BY <1>1, <1>2, LoadNamed
<1> QED
  BY <1>1, <1>3, <1>6, <1>8, <1>9 DEF TreeInv

LEMMA FaultOldestTree ==
  ASSUME TreeInv, NEW t \in Threads, NEW v \in Vpns, NEW write \in BOOLEAN,
         FaultOldest(t, v, write)
  PROVE  TreeInv'
<1>1. /\ TypeInv /\ mode = "multi" /\ Named(frame_table)
      /\ Mirrors(page_table, leaves) /\ Built(page_table, tables)
      /\ page_table \in Tables
  BY DEF TreeInv, TypeInv, Sound
<1>2. Translate(t, v, write) /\ Access(t, v, write)
  BY DEF FaultOldest, Translate, TranslateFaultOldest, Fault
<1>3. TypeInv' /\ access_counter' \in Nat /\ mode' = mode
  BY <1>1, <1>2, TranslateType, AccessType
<1>4. PICK f \in Frames : Oldest(f) /\ EvictAndLoad(t, v, write, f, page_table)
  BY DEF FaultOldest, TranslateFaultOldest
<1>5. PICK g \in Frames : Oldest(g) /\ Evict(v, write, g, leaves)
  BY DEF FaultOldest
<1>6. f = g
  BY <1>1, <1>4, <1>5, OneOldest
<1>7. frame_table[f] >= 0 /\ MapsOnly(page_table, page_table, v)
  BY <1>4 DEF Oldest, MapsOnly
<1>8. /\ Named(frame_table') /\ Mirrors(page_table', leaves')
      /\ MapsOnly(page_table, page_table', v)
  BY <1>1, <1>3, <1>4, <1>5, <1>6, <1>7, EvictTree
<1>9. Built(page_table', tables')
  <2> DEFINE pages == {v} \cup {frame_table[h] : h \in {h \in Frames : frame_table[h] >= 0}}
  <2>1. Walks(pages) /\ v \in pages
    BY DEF FaultOldest
  <2> HIDE DEF pages
  <2> QED
    BY <1>1, <1>8, <2>1, WalksBuild
<1> QED
  BY <1>1, <1>3, <1>8, <1>9 DEF TreeInv

LEMMA FaultClockTree ==
  ASSUME TreeInv, NEW t \in Threads, NEW v \in Vpns, NEW write \in BOOLEAN,
         FaultClock(t, v, write)
  PROVE  TreeInv'
<1>1. /\ TypeInv /\ mode = "multi" /\ Named(frame_table)
      /\ Mirrors(page_table, leaves) /\ Built(page_table, tables)
      /\ page_table \in Tables
  BY DEF TreeInv, TypeInv, Sound
<1>2. Translate(t, v, write) /\ Access(t, v, write)
  BY DEF FaultClock, Translate, TranslateFaultClock, Fault
<1>3. TypeInv' /\ access_counter' \in Nat /\ mode' = mode
  BY <1>1, <1>2, TranslateType, AccessType
<1>4. PICK k \in 0 .. 2 * NumFrames - 1 :
        /\ StopsAt(k) /\ \A j \in 0 .. k - 1 : ~StopsAt(j)
        /\ EvictAndLoad(t, v, write, HandAt(k), Swept(k))
  BY DEF FaultClock, TranslateFaultClock
<1> DEFINE lv(n) == [path \in LeafPaths |->
             IF \E j \in 0 .. n - 1 : LET p == frame_table[HandAt(j)] IN
                  p \in 0 .. WalkLimit - 1 /\ Leaf(p) = path
             THEN [leaves[path] EXCEPT !.referenced = FALSE]
             ELSE leaves[path]]
           pages(n) == {v} \cup
             {p \in {frame_table[HandAt(j)] : j \in 0 .. n} : p >= 0}
<1>5. PICK n \in 0 .. 2 * NumFrames - 1 :
        /\ StopsAt(n) /\ \A j \in 0 .. n - 1 : ~StopsAt(j)
        /\ Walks(pages(n)) /\ Evict(v, write, HandAt(n), lv(n))
  BY DEF FaultClock
<1>6. k = n /\ k \in Nat
  BY <1>4, <1>5, SizesAssumption
<1>7. HandAt(k) \in Frames
  BY <1>1, <1>6, HandAtType
<1>8. frame_table[HandAt(k)] >= 0
  BY <1>4 DEF StopsAt
<1>9. Mirrors(Swept(k), lv(k))
  <2>1. \E lw : lw = lv(k)
    OBVIOUS
  <2> QED
    BY <1>6, <2>1, SweptMirrors
<1>10. v \in pages(n)
  OBVIOUS
<1> HIDE DEF lv, pages
<1>11. Swept(k) \in Tables /\ MapsOnly(page_table, Swept(k), v)
  BY <1>1, SweptSound, SweptMapsOnly DEF Sound
<1>12. /\ Named(frame_table') /\ Mirrors(page_table', leaves')
       /\ MapsOnly(page_table, page_table', v)
  BY <1>3, <1>4, <1>5, <1>6, <1>7, <1>8, <1>9, <1>11, EvictTree
<1>13. Built(page_table', tables')
  BY <1>1, <1>5, <1>10, <1>12, WalksBuild
<1> QED
  BY <1>1, <1>3, <1>12, <1>13 DEF TreeInv

LEMMA NoFrameTree ==
  ASSUME TreeInv, NEW t \in Threads, NEW v \in Vpns, NEW write \in BOOLEAN,
         NoFrame(t, v, write)
  PROVE  TreeInv'
<1>1. /\ TypeInv /\ mode = "multi" /\ Built(page_table, tables)
  BY DEF TreeInv
<1>2. Translate(t, v, write) /\ Access(t, v, write)
  BY DEF NoFrame, Translate, TranslateNoFrame, Fault
<1>3. TypeInv' /\ mode' = mode
  BY <1>1, <1>2, TranslateType, AccessType
<1>4. page_table' = page_table /\ frame_table' = frame_table /\ leaves' = leaves
  BY DEF NoFrame, TranslateNoFrame
<1>5. MapsOnly(page_table, page_table', v)
  BY <1>4 DEF MapsOnly
<1>6. Built(page_table', tables')
  BY <1>1, <1>5, WalksBuild DEF NoFrame
<1> QED
  BY <1>1, <1>3, <1>4, <1>6 DEF TreeInv

\* The tree's own steps are steps of the MMU.
LEMMA TreeWatches == [TNext]_tvars => [Next]_vars
<1>1. ASSUME NEW t \in Threads, NEW v \in Vpns, NEW write \in BOOLEAN,
             \/ Hit(t, v, write) \/ FaultFree(t, v, write)
             \/ FaultOldest(t, v, write) \/ FaultClock(t, v, write)
             \/ NoFrame(t, v, write)
      PROVE  Translate(t, v, write)
  BY <1>1 DEF Translate, Hit, FaultFree, FaultOldest, FaultClock, NoFrame
<1>2. UNCHANGED tvars => UNCHANGED vars
  BY DEF tvars
<1> QED
  BY <1>1, <1>2 DEF TNext, Next

LEMMA TreeStep == TreeInv /\ [TNext]_tvars => TreeInv'
<1> SUFFICES ASSUME TreeInv, [TNext]_tvars PROVE TreeInv'
  OBVIOUS
<1>1. ASSUME NEW t \in Threads, NEW v \in Vpns, NEW write \in BOOLEAN,
             \/ Hit(t, v, write) \/ FaultFree(t, v, write)
             \/ FaultOldest(t, v, write) \/ FaultClock(t, v, write)
             \/ NoFrame(t, v, write)
      PROVE  TreeInv'
  BY <1>1, HitTree, FaultFreeTree, FaultOldestTree, FaultClockTree, NoFrameTree
<1>2. ASSUME UNCHANGED <<mode, page_table, frame_table, tables, leaves>>
      PROVE  TreeInv'
  <2>1. TypeInv'
    BY TreeWatches, TypeStep DEF TreeInv
  <2> QED
    BY <1>2, <2>1 DEF TreeInv
<1>3. CASE \E t \in Threads : Request(t) /\ UNCHANGED <<tables, leaves>>
  BY <1>2, <1>3 DEF Request, settings
<1>4. CASE \E p \in Policies :
             SetReplacementPolicy(p) /\ UNCHANGED <<tables, leaves>>
  BY <1>2, <1>4 DEF SetReplacementPolicy, Command
<1>5. CASE UNCHANGED tvars
  BY <1>2, <1>5 DEF tvars, vars
<1> QED
  BY <1>1, <1>3, <1>4, <1>5 DEF TNext

\* Each page has an entry of its own in the tree, which holds what the table
\* of VirtualMemory says of it, and the tables on the way to a used entry were
\* made: walk(), map() and unmap() never reach another page's entry, for every
\* number of levels and of bits, and whatever the page numbers.
THEOREM TreeKept == TSpec => []LeavesMatch
BY InitTree, TreeStep, TreeMatches, PTL DEF TSpec
=============================================================================
