------------------------ MODULE SnapshotCaptureProofs ------------------------
(***************************************************************************)
(* The safety proofs of SnapshotCapture, for any number of instances,      *)
(* connections, users, attempts and faults; and what a page of the board   *)
(* is, whatever the scores.                                                *)
(***************************************************************************)
EXTENDS SnapshotCapture, SequenceTheorems, FiniteSetTheorems, FunctionTheorems, TLAPS

Scores == [Users -> Nat]
Size(b) == Cardinality(Ranked(b))

----------------------------------------------------------------------------
(* The order of the board. *)
HigherThan(b, u) == {v \in Users : Above(b, v, u)}

LEMMA AboveIsOrder ==
  ASSUME NEW b \in Scores, NEW u \in Users, NEW v \in Users
  PROVE  /\ ~Above(b, u, u)
         /\ u # v => Above(b, u, v) \/ Above(b, v, u)
         /\ Above(b, u, v) => ~Above(b, v, u) /\ b[u] >= b[v]
         /\ \A w \in Users : Above(b, u, v) /\ Above(b, v, w) => Above(b, u, w)
<1>1. \A x \in Users : x \in Nat /\ b[x] \in Nat
  BY BoardAssumption DEF Scores
<1> QED  BY <1>1 DEF Above

LEMMA PositionIs ==
  ASSUME NEW b \in Scores, NEW u \in Users
  PROVE  /\ IsFiniteSet(HigherThan(b, u)) /\ Cardinality(HigherThan(b, u)) \in Nat
         /\ Position(b, u) = 1 + Cardinality(HigherThan(b, u))
<1>1. HigherThan(b, u) \subseteq Users
  BY DEF HigherThan
<1>2. IsFiniteSet(HigherThan(b, u))
  BY <1>1, BoardAssumption, FS_Subset
<1>3. Cardinality(HigherThan(b, u)) \in Nat
  BY <1>2, FS_CardinalityType
<1> QED  BY <1>2, <1>3 DEF Position, HigherThan

LEMMA PositionsGrow ==
  ASSUME NEW b \in Scores, NEW u \in Users, NEW v \in Users, Above(b, u, v)
  PROVE  Position(b, u) < Position(b, v)
<1> DEFINE H == HigherThan(b, u)  I == HigherThan(b, v)
<1>1. u \notin H /\ H \cup {u} \subseteq I
  BY AboveIsOrder DEF HigherThan
<1>2. /\ IsFiniteSet(H) /\ Cardinality(H) \in Nat /\ IsFiniteSet(I) /\ Cardinality(I) \in Nat
      /\ Position(b, u) = 1 + Cardinality(H) /\ Position(b, v) = 1 + Cardinality(I)
  BY PositionIs
<1> HIDE DEF H, I
<1>3. Cardinality(H \cup {u}) = Cardinality(H) + 1
  BY <1>1, <1>2, FS_AddElement
<1>4. Cardinality(H \cup {u}) <= Cardinality(I)
  BY <1>1, <1>2, FS_Subset
<1> QED  BY <1>2, <1>3, <1>4

LEMMA RankedIsFinite ==
  ASSUME NEW b
  PROVE  Ranked(b) \subseteq Users /\ IsFiniteSet(Ranked(b)) /\ Size(b) \in Nat
<1>1. Ranked(b) \subseteq Users
  BY DEF Ranked
<1>2. IsFiniteSet(Ranked(b))
  BY <1>1, BoardAssumption, FS_Subset
<1> QED  BY <1>1, <1>2, FS_CardinalityType DEF Size

LEMMA PositionsInRange ==
  ASSUME NEW b \in Scores, NEW u \in Ranked(b)
  PROVE  Position(b, u) \in 1..Size(b)
<1> DEFINE H == HigherThan(b, u)
<1>1. u \in Users /\ b[u] > 0
  BY DEF Ranked
<1>2. u \notin H
  BY <1>1, AboveIsOrder DEF HigherThan
<1>3. H \subseteq Ranked(b)
  <2> SUFFICES ASSUME NEW v \in Users, Above(b, v, u) PROVE b[v] > 0
    BY DEF HigherThan, Ranked
  <2>1. b[u] \in Nat /\ b[v] \in Nat
    BY <1>1 DEF Scores
  <2> QED  BY <1>1, <2>1 DEF Above
<1>4. /\ IsFiniteSet(H) /\ Cardinality(H) \in Nat
      /\ Position(b, u) = 1 + Cardinality(H)
  BY <1>1, PositionIs
<1> HIDE DEF H
<1>5. Cardinality(H \cup {u}) = Cardinality(H) + 1
  BY <1>2, <1>4, FS_AddElement
<1>6. Cardinality(H \cup {u}) <= Size(b)
  BY <1>3, RankedIsFinite, FS_Subset DEF Size
<1> QED  BY <1>4, <1>5, <1>6, RankedIsFinite

(* Every place of the board is somebody's: the positions are an injection  *)
(* into as many numbers as there are ranked users.                         *)
LEMMA EveryPlaceIsTaken ==
  ASSUME NEW b \in Scores, NEW k \in 1..Size(b)
  PROVE  \E u \in Ranked(b) : Position(b, u) = k
<1> DEFINE n == Size(b)
           f == [u \in Ranked(b) |-> Position(b, u)]
<1>1. n \in Nat /\ Ranked(b) \subseteq Users
  BY RankedIsFinite
<1>2. f \in [Ranked(b) -> 1..n]
  BY PositionsInRange
<1>3. \A u, v \in Ranked(b) : f[u] = f[v] => u = v
  <2> SUFFICES ASSUME NEW u \in Ranked(b), NEW v \in Ranked(b), f[u] = f[v], u # v
               PROVE  FALSE
    OBVIOUS
  <2>1. Above(b, u, v) \/ Above(b, v, u)
    BY <1>1, AboveIsOrder
  <2>2. Position(b, u) \in Nat /\ Position(b, v) \in Nat
    BY PositionsInRange
  <2>3. Position(b, u) < Position(b, v) \/ Position(b, v) < Position(b, u)
    BY <1>1, <2>1, PositionsGrow
  <2> QED  BY <2>2, <2>3
<1>4. f \in Injection(Ranked(b), 1..n)
  BY <1>2, <1>3 DEF Injection, IsInjective
<1>5. IsFiniteSet(1..n) /\ Cardinality(1..n) = n
  BY <1>1, FS_Interval
<1>6. f \in Surjection(Ranked(b), 1..n)
  BY <1>4, <1>5, FS_Injection DEF Size
<1> QED  BY <1>6 DEF Surjection

(* A page from the top: who is on it, in which order, and who is not. *)
PageLength(b, n) == IF n <= Size(b) THEN n ELSE Size(b)
IsPage(order, b, n) ==
  LET length == PageLength(b, n)
  IN  /\ length \in 0..n /\ order \in [1..length -> Ranked(b)]
      /\ \A k \in 1..length : Position(b, order[k]) = k
      /\ \A j, k \in 1..length : j < k => Above(b, order[j], order[k])
      /\ \A u \in Ranked(b) : (\A k \in 1..length : order[k] # u)
           => length = n /\ n < Size(b) /\ \A k \in 1..length : Above(b, order[k], u)

LEMMA ReverseRangeIsPage ==
  ASSUME NEW b \in Scores, NEW n \in Nat
  PROVE  IsPage(ReverseRange(b, 0, n), b, n)
<1> DEFINE order == ReverseRange(b, 0, n)
           length == PageLength(b, n)
<1>1. Size(b) \in Nat /\ Ranked(b) \subseteq Users
  BY RankedIsFinite
<1>2. length \in 0..n /\ \A k \in 1..length : k \in 1..Size(b)
  BY <1>1 DEF PageLength
<1>3. order = [k \in 1..length |-> CHOOSE u \in Ranked(b) : Position(b, u) = 0 + k]
  BY <1>1 DEF ReverseRange, PageLength, Size
<1> HIDE DEF order, length
<1>4. ASSUME NEW k \in 1..length PROVE order[k] \in Ranked(b) /\ Position(b, order[k]) = k
  <2>1. k \in 1..Size(b) /\ 0 + k = k
    BY <1>2
  <2>2. \E u \in Ranked(b) : Position(b, u) = 0 + k
    BY <2>1, EveryPlaceIsTaken
  <2>3. order[k] = CHOOSE u \in Ranked(b) : Position(b, u) = 0 + k
    BY <1>3
  <2> QED  BY <2>1, <2>2, <2>3
<1>5. order \in [1..length -> Ranked(b)]
  BY <1>3, <1>4
<1>6. ASSUME NEW u \in Users, NEW v \in Users, Position(b, u) < Position(b, v) PROVE Above(b, u, v)
  <2>1. Position(b, u) \in Int /\ Position(b, v) \in Int
    BY PositionIs
  <2>2. u # v
    BY <1>6, <2>1
  <2>3. CASE Above(b, v, u)
    BY <1>6, <2>1, <2>3, PositionsGrow
  <2> QED  BY <2>2, <2>3, AboveIsOrder
<1>7. \A j, k \in 1..length : j < k => Above(b, order[j], order[k])
  BY <1>1, <1>4, <1>6
<1>8. ASSUME NEW u \in Ranked(b), \A k \in 1..length : order[k] # u
      PROVE  length = n /\ n < Size(b) /\ \A k \in 1..length : Above(b, order[k], u)
  <2> DEFINE p == Position(b, u)
  <2>1. p \in 1..Size(b)
    BY PositionsInRange
  <2>2. CASE p \in 1..length
    <3>1. Position(b, order[p]) = Position(b, u) /\ order[p] # u /\ order[p] \in Ranked(b)
      BY <1>4, <1>8, <2>2
    <3>2. Above(b, order[p], u) \/ Above(b, u, order[p])
      BY <1>1, <3>1, AboveIsOrder
    <3>3. Position(b, order[p]) < Position(b, u) \/ Position(b, u) < Position(b, order[p])
      BY <1>1, <3>1, <3>2, PositionsGrow
    <3> QED  BY <2>1, <3>1, <3>3
  <2>3. CASE p \notin 1..length
    <3>1. p > length /\ length = n /\ n < Size(b)
      BY <1>1, <1>2, <2>1, <2>3 DEF length, PageLength
    <3>2. ASSUME NEW k \in 1..length PROVE Above(b, order[k], u)
      <4>1. Position(b, order[k]) < p
        BY <1>2, <1>4, <2>1, <3>1
      <4> QED  BY <1>1, <1>4, <1>6, <4>1
    <3> QED  BY <3>1, <3>2
  <2> QED  BY <2>2, <2>3
<1>9. \A k \in 1..length : Position(b, order[k]) = k
  BY <1>4
<1> QED  BY <1>2, <1>5, <1>7, <1>8, <1>9 DEF IsPage, order, length
----------------------------------------------------------------------------
(* Competition ranks: the recursive function of Ranks is the position      *)
(* where a score first came.  Least counterexamples take the place of an   *)
(* induction.                                                              *)
LEMMA Least ==
  ASSUME NEW S \in SUBSET Nat, S # {}
  PROVE  \E m \in S : \A n \in S : m <= n
<1> DEFINE R == {ss \in Nat \X Nat : ss[1] < ss[2]}
<1>1. IsWellFoundedOn(R, Nat)
  BY NatLessThanWellFounded DEF OpToRel
<1>2. PICK x \in S : \A y \in S : ~ (<<y, x>> \in R)
  BY <1>1, WFMin
<1>3. \A y \in S : ~(y < x) /\ y \in Nat /\ x \in Nat
  BY <1>2
<1> HIDE DEF R
<1> QED  BY <1>3

Falling(order, b) ==
  /\ Len(order) \in Nat
  /\ \A k \in 1..Len(order) : b[order[k]] \in Nat
  /\ \A j, k \in 1..Len(order) : j < k => b[order[j]] >= b[order[k]]

First(order, b, k, j) ==
  /\ j \in 1..k /\ b[order[j]] = b[order[k]]
  /\ \A i \in 1..Len(order) : i < j => b[order[i]] # b[order[k]]
FirstAt(order, b, k) == CHOOSE j \in 1..k : First(order, b, k, j)

LEMMA FirstExists ==
  ASSUME NEW order, NEW b, Falling(order, b), NEW k \in 1..Len(order)
  PROVE  First(order, b, k, FirstAt(order, b, k))
<1> DEFINE S == {j \in 1..k : b[order[j]] = b[order[k]]}
<1>1. S \in SUBSET Nat /\ k \in S /\ k \in Nat
  BY DEF Falling
<1>2. PICK j \in S : \A i \in S : j <= i
  <2> HIDE DEF S
  <2> QED  BY <1>1, Least
<1>3. ASSUME NEW i \in 1..Len(order), i < j PROVE b[order[i]] # b[order[k]]
  <2>1. i \in 1..k /\ i \notin S
    BY <1>1, <1>2, <1>3 DEF Falling
  <2> QED  BY <2>1
<1>4. First(order, b, k, j)
  BY <1>2, <1>3 DEF First
<1>5. j \in 1..k
  BY <1>2
<1> QED  BY <1>4, <1>5 DEF FirstAt

LEMMA FirstIsUnique ==
  ASSUME NEW order, NEW b, Falling(order, b), NEW k \in 1..Len(order),
         NEW i, First(order, b, k, i), NEW j, First(order, b, k, j)
  PROVE  i = j
<1>1. i \in 1..Len(order) /\ j \in 1..Len(order)
  BY DEF First, Falling
<1>2. ~(i < j) /\ ~(j < i)
  BY <1>1 DEF First
<1> QED  BY <1>1, <1>2

LEMMA FirstOfNext ==
  ASSUME NEW order, NEW b, Falling(order, b), NEW k \in 1..Len(order)
  PROVE  FirstAt(order, b, k) =
           IF k = 1 THEN 1
           ELSE IF b[order[k]] # b[order[k - 1]] THEN k ELSE FirstAt(order, b, k - 1)
<1>1. First(order, b, k, FirstAt(order, b, k))
  BY FirstExists
<1>2. CASE k = 1
  <2>1. FirstAt(order, b, k) \in 1..k
    BY <1>1 DEF First
  <2> QED  BY <1>2, <2>1
<1>3. CASE k # 1 /\ b[order[k]] # b[order[k - 1]]
  <2>0. k - 1 \in 1..Len(order) /\ k \in Nat
    BY <1>3 DEF Falling
  <2>1. ASSUME NEW i \in 1..Len(order), i < k PROVE b[order[i]] # b[order[k]]
    <3>1. /\ b[order[i]] \in Nat /\ b[order[k]] \in Nat /\ b[order[k - 1]] \in Nat
          /\ b[order[k - 1]] >= b[order[k]] /\ (i = k - 1 \/ b[order[i]] >= b[order[k - 1]])
      BY <2>0, <2>1 DEF Falling
    <3> QED  BY <1>3, <3>1
  <2>2. First(order, b, k, k)
    BY <2>0, <2>1 DEF First
  <2> QED  BY <1>1, <1>3, <2>2, FirstIsUnique
<1>4. CASE k # 1 /\ b[order[k]] = b[order[k - 1]]
  <2>0. k - 1 \in 1..Len(order) /\ k \in Nat
    BY <1>4 DEF Falling
  <2>1. First(order, b, k - 1, FirstAt(order, b, k - 1))
    BY <2>0, FirstExists
  <2>2. First(order, b, k, FirstAt(order, b, k - 1))
    BY <1>4, <2>0, <2>1 DEF First
  <2> QED  BY <1>1, <1>4, <2>2, FirstIsUnique
<1> QED  BY <1>2, <1>3, <1>4

LEMMA RanksAreFirst ==
  ASSUME NEW order, NEW b, Falling(order, b)
  PROVE  \A k \in 1..Len(order) : Ranks(order, b)[k] = FirstAt(order, b, k)
<1> DEFINE n == Len(order)
           rank[k \in 1..n] ==
             IF k = 1 THEN 1 ELSE IF b[order[k]] # b[order[k - 1]] THEN k ELSE rank[k - 1]
           Body(g) == [k \in 1..n |->
             IF k = 1 THEN 1 ELSE IF b[order[k]] # b[order[k - 1]] THEN k ELSE g[k - 1]]
           f == [k \in 1..n |-> FirstAt(order, b, k)]
<1>0. n \in Nat
  BY DEF Falling
<1>1. f = Body(f)
  <2>1. ASSUME NEW k \in 1..n
        PROVE  FirstAt(order, b, k) =
                 IF k = 1 THEN 1 ELSE IF b[order[k]] # b[order[k - 1]] THEN k ELSE f[k - 1]
    <3>1. k # 1 => k - 1 \in 1..n
      BY <1>0
    <3> QED  BY <3>1, FirstOfNext
  <2> QED  BY <2>1
<1>2. rank = Body(rank)
  <2>1. rank = CHOOSE g : g = Body(g)
    BY DEF rank
  <2> HIDE DEF rank, Body, f
  <2> QED  BY <1>1, <2>1
<1>3. Ranks(order, b) = rank
  BY DEF Ranks
<1> HIDE DEF rank
<1>4. \A k \in 1..n : rank[k] = IF k = 1 THEN 1 ELSE IF b[order[k]] # b[order[k - 1]] THEN k ELSE rank[k - 1]
  BY <1>2
<1>5. \A k \in 1..n : f[k] = IF k = 1 THEN 1 ELSE IF b[order[k]] # b[order[k - 1]] THEN k ELSE f[k - 1]
  BY <1>1
<1> HIDE DEF Body, f
<1>6. \A k \in 1..n : rank[k] = f[k]
  <2> DEFINE S == {m \in 1..n : rank[m] # f[m]}
  <2> SUFFICES ASSUME S # {} PROVE FALSE
    OBVIOUS
  <2>1. PICK m \in S : \A j \in S : m <= j
    <3>1. S \in SUBSET Nat
      OBVIOUS
    <3> HIDE DEF S
    <3> QED  BY <3>1, Least
  <2>2. m # 1
    BY <1>4, <1>5
  <2>3. m - 1 \in 1..n /\ m - 1 \notin S
    BY <1>0, <2>1, <2>2
  <2> QED  BY <1>4, <1>5, <2>2, <2>3
<1> QED  BY <1>3, <1>6 DEF f
----------------------------------------------------------------------------
(* What a capture reads is a ranking of the board it reads. *)
IsRanking(rows) ==
  /\ rows \subseteq Entries /\ Cardinality(rows) <= TopN
  /\ \A r \in rows :
       /\ r.rank = 1 + Cardinality({s \in rows : s.score > r.score})
       /\ \A s \in rows : r.user = s.user => r = s

LEMMA CountedByIndex ==
  ASSUME NEW n \in Nat, NEW f, DOMAIN f = 1..n, NEW m \in 0..n
  PROVE  /\ IsFiniteSet({f[k] : k \in 1..m})
         /\ Cardinality({f[k] : k \in 1..m}) \in 0..m
         /\ Cardinality({f[k] : k \in 1..m}) = m
              <=> [k \in 1..m |-> f[k]] \in Injection(1..m, {f[k] : k \in 1..m})
<1> DEFINE S == {f[k] : k \in 1..m}
           g == [k \in 1..m |-> f[k]]
<1>1. g \in Surjection(1..m, S)
  BY DEF Surjection
<1>2. IsFiniteSet(1..m) /\ Cardinality(1..m) = m
  BY FS_Interval
<1>3. /\ IsFiniteSet(S) /\ Cardinality(S) <= m
      /\ Cardinality(S) = m <=> g \in Injection(1..m, S)
  BY <1>1, <1>2, FS_Surjection
<1> HIDE DEF S, g
<1>4. Cardinality(S) \in Nat
  BY <1>3, FS_CardinalityType
<1>5. Cardinality(S) \in 0..m
  BY <1>3, <1>4
<1> QED  BY <1>3, <1>5 DEF S, g

LEMMA CountedAtMost ==
  ASSUME NEW n \in Nat, NEW f, DOMAIN f = 1..n
  PROVE  Cardinality({f[k] : k \in 1..n}) \in 0..n
<1> DEFINE S == {f[k] : k \in 1..n}
           g == [k \in 1..n |-> f[k]]
<1>1. g \in Surjection(1..n, S)
  BY DEF Surjection
<1>2. IsFiniteSet(1..n) /\ Cardinality(1..n) = n
  BY FS_Interval
<1>3. IsFiniteSet(S) /\ Cardinality(S) <= n
  BY <1>1, <1>2, FS_Surjection
<1> HIDE DEF S, g
<1>4. Cardinality(S) \in Nat
  BY <1>3, FS_CardinalityType
<1>5. Cardinality(S) \in 0..n
  BY <1>3, <1>4
<1> QED  BY <1>5 DEF S

LEMMA CountedOneByOne ==
  ASSUME NEW n \in Nat, NEW f, DOMAIN f = 1..n, NEW m \in 0..n,
         \A j, k \in 1..n : f[j] = f[k] => j = k
  PROVE  Cardinality({f[k] : k \in 1..m}) = m
<1> DEFINE S == {f[k] : k \in 1..m}
           g == [k \in 1..m |-> f[k]]
<1>1. g \in [1..m -> S]
  OBVIOUS
<1>2. \A j, k \in 1..m : g[j] = g[k] => j = k
  OBVIOUS
<1>3. g \in Injection(1..m, S)
  BY <1>1, <1>2 DEF Injection, IsInjective
<1> QED  BY <1>3, CountedByIndex

LEMMA TopIs ==
  ASSUME NEW b \in Scores
  PROVE  /\ Len(Top(b)) \in 0..TopN /\ Top(b) \in [1..Len(Top(b)) -> Ranked(b)]
         /\ Top(b) # << >> => Len(Top(b)) > 0
         /\ \A j, k \in 1..Len(Top(b)) : j < k => Above(b, Top(b)[j], Top(b)[k])
<1> DEFINE order == Top(b)
           length == PageLength(b, TopN)
<1>1. TopN \in Nat
  BY SnapshotAssumption
<1>2. IsPage(order, b, TopN)
  BY <1>1, ReverseRangeIsPage DEF Top
<1>3. /\ length \in 0..TopN /\ order \in [1..length -> Ranked(b)]
      /\ \A j, k \in 1..length : j < k => Above(b, order[j], order[k])
  BY <1>2 DEF IsPage
<1> HIDE DEF order, length
<1>4. length \in Nat
  BY <1>1, <1>3
<1>5. order \in Seq(Ranked(b)) /\ Len(order) = length
  BY <1>3, <1>4, SeqDef
<1>6. order # << >> => Len(order) > 0
  BY <1>5
<1> QED  BY <1>3, <1>5, <1>6 DEF order

LEMMA TopIsRanking ==
  ASSUME NEW b \in Scores
  PROVE  /\ IsRanking(Rows(Top(b), b))
         /\ Top(b) # << >> => Rows(Top(b), b) # {}
         /\ \A r \in Rows(Top(b), b) : r.score = b[r.user]
<1> DEFINE order == Top(b)
           n == Len(order)
           row == [k \in 1..n |-> [user |-> order[k], rank |-> Ranks(order, b)[k], score |-> b[order[k]]]]
           rows == Rows(order, b)
<1>1. /\ n \in 0..TopN /\ order \in [1..n -> Ranked(b)]
      /\ order # << >> => n > 0
      /\ \A j, k \in 1..n : j < k => Above(b, order[j], order[k])
  BY TopIs
<1>2. n \in Nat /\ TopN \in Nat
  BY <1>1, SnapshotAssumption
<1>3. rows = {row[k] : k \in 1..n} /\ DOMAIN row = 1..n
  BY DEF Rows
<1> HIDE DEF order
<1>4. ASSUME NEW k \in 1..n
      PROVE  order[k] \in Users /\ b[order[k]] \in Nat \ {0}
  BY <1>1 DEF Ranked, Scores
<1>5. \A j, k \in 1..n : j < k => b[order[j]] >= b[order[k]] /\ order[j] # order[k]
  BY <1>1, <1>4, AboveIsOrder
<1>6. Falling(order, b)
  BY <1>2, <1>4, <1>5 DEF Falling
<1>7. ASSUME NEW k \in 1..n
      PROVE  First(order, b, k, row[k].rank)
  <2>1. row[k].rank = FirstAt(order, b, k)
    BY <1>6, RanksAreFirst
  <2> QED  BY <1>6, <2>1, FirstExists
<1>8. \A k \in 1..n : /\ row[k].user = order[k] /\ row[k].score = b[order[k]]
                     /\ row[k] = [user |-> order[k], rank |-> row[k].rank, score |-> b[order[k]]]
  OBVIOUS
<1> HIDE DEF row, rows
<1>9. rows \subseteq Entries
  <2> SUFFICES ASSUME NEW k \in 1..n PROVE row[k] \in Entries
    BY <1>3
  <2>1. row[k].rank \in Nat \ {0}
    BY <1>2, <1>7 DEF First
  <2> DEFINE j == row[k].rank
  <2>2. row[k] = [user |-> order[k], rank |-> j, score |-> b[order[k]]]
    BY <1>8
  <2>3. j \in Nat \ {0}
    BY <2>1
  <2> HIDE DEF j
  <2>4. [user |-> order[k], rank |-> j, score |-> b[order[k]]] \in Entries
    BY <1>4, <2>3 DEF Entries
  <2> QED  BY <2>2, <2>4
<1>10. \A j, k \in 1..n : row[j] = row[k] => j = k
  <2> SUFFICES ASSUME NEW j \in 1..n, NEW k \in 1..n, row[j] = row[k], j # k PROVE FALSE
    OBVIOUS
  <2>1. j < k \/ k < j
    BY <1>2
  <2>2. order[j] = order[k]
    BY <1>8
  <2> QED  BY <1>5, <2>1, <2>2
<1>11. Cardinality(rows) <= TopN
  <2> HIDE DEF n
  <2>1. DOMAIN row = 1..n
    BY <1>3
  <2>2. Cardinality({row[k] : k \in 1..n}) \in 0..n
    BY <1>2, <2>1, CountedAtMost
  <2> QED  BY <1>1, <1>2, <1>3, <2>2
<1>12. ASSUME NEW k \in 1..n
       PROVE  row[k].rank = 1 + Cardinality({s \in rows : s.score > row[k].score})
  <2> DEFINE j == row[k].rank
  <2>1. j \in 1..k /\ b[order[j]] = b[order[k]] /\ \A i \in 1..n : i < j => b[order[i]] # b[order[k]]
    BY <1>7 DEF First
  <2>2. k \in Nat /\ j \in 1..n /\ j - 1 \in 0..n
    BY <1>2, <2>1
  <2> HIDE DEF j
  <2>3. ASSUME NEW i \in 1..n PROVE b[order[i]] > b[order[k]] <=> i \in 1..(j - 1)
    <3>1. b[order[i]] \in Nat /\ b[order[j]] \in Nat /\ b[order[k]] \in Nat
      BY <1>4, <2>2
    <3>2. CASE i < j
      <4>1. i < k /\ i \in 1..(j - 1)
        BY <2>1, <2>2, <3>2
      <4> QED  BY <1>5, <2>1, <3>1, <3>2, <4>1
    <3>3. CASE ~(i < j)
      <4>1. i = j \/ j < i
        BY <2>2, <3>3
      <4>2. i \notin 1..(j - 1) /\ b[order[i]] <= b[order[j]]
        BY <1>5, <2>2, <3>1, <3>3, <4>1
      <4> QED  BY <2>1, <3>1, <4>2
    <3> QED  BY <3>2, <3>3
  <2>4. {s \in rows : s.score > row[k].score} = {row[i] : i \in 1..(j - 1)}
    <3>1. \A i \in 1..(j - 1) : i \in 1..n
      BY <2>2
    <3> QED  BY <1>3, <1>8, <2>3, <3>1
  <2>5. Cardinality({s \in rows : s.score > row[k].score}) = j - 1
    <3> HIDE DEF n
    <3>1. Cardinality({row[i] : i \in 1..(j - 1)}) = j - 1
      BY <1>2, <1>3, <1>10, <2>2, CountedOneByOne
    <3> QED  BY <2>4, <3>1
  <2> QED  BY <2>2, <2>5 DEF j
<1>13. ASSUME NEW j \in 1..n, NEW k \in 1..n, row[j].user = row[k].user PROVE row[j] = row[k]
  <2>1. j < k \/ k < j \/ j = k
    BY <1>2
  <2>2. order[j] = order[k]
    BY <1>8, <1>13
  <2> QED  BY <1>5, <2>1, <2>2
<1>14. IsRanking(rows)
  <2>1. \A r \in rows : r.rank = 1 + Cardinality({s \in rows : s.score > r.score})
    <3> SUFFICES ASSUME NEW r \in rows
                 PROVE  r.rank = 1 + Cardinality({s \in rows : s.score > r.score})
      OBVIOUS
    <3>1. PICK k \in 1..n : r = row[k]
      BY <1>3
    <3> QED  BY <1>12, <3>1
  <2>2. \A r, s \in rows : r.user = s.user => r = s
    BY <1>3, <1>13
  <2> QED  BY <1>9, <1>11, <2>1, <2>2 DEF IsRanking
<1>15. order # << >> => rows # {}
  BY <1>1, <1>2, <1>3
<1>16. \A r \in rows : r.score = b[r.user]
  BY <1>3, <1>8
<1> QED  BY <1>14, <1>15, <1>16 DEF rows, order

(* Whoever has points and is not among them finds a full page above. *)
IsOn(rows, u) == \E r \in rows : r.user = u
FullAbove(rows, b, u) == Cardinality(rows) = TopN /\ \A r \in rows : r.score >= b[u]

LEMMA TopIsFull ==
  ASSUME NEW b \in Scores, NEW u \in Ranked(b)
  PROVE  IsOn(Rows(Top(b), b), u) \/ FullAbove(Rows(Top(b), b), b, u)
<1> DEFINE order == Top(b)
           n == Len(order)
           row == [k \in 1..n |-> [user |-> order[k], rank |-> Ranks(order, b)[k], score |-> b[order[k]]]]
           rows == Rows(order, b)
           length == PageLength(b, TopN)
<1>1. TopN \in Nat /\ IsPage(order, b, TopN)
  BY SnapshotAssumption, ReverseRangeIsPage DEF Top
<1>2. rows = {row[k] : k \in 1..n} /\ DOMAIN row = 1..n
  BY DEF Rows
<1>3. \A k \in 1..n : row[k].user = order[k] /\ row[k].score = b[order[k]]
  OBVIOUS
<1>4. /\ length \in 0..TopN /\ order \in [1..length -> Ranked(b)]
      /\ \A j, k \in 1..length : j < k => Above(b, order[j], order[k])
      /\ (\A k \in 1..length : order[k] # u) =>
           length = TopN /\ \A k \in 1..length : Above(b, order[k], u)
  BY <1>1 DEF IsPage
<1> HIDE DEF row, rows, order, length
<1>5. order \in Seq(Ranked(b)) /\ n = length
  <2>1. length \in Nat
    BY <1>1, <1>4
  <2> QED  BY <1>4, <2>1, SeqDef
<1>6. CASE \E k \in 1..length : order[k] = u
  BY <1>2, <1>3, <1>5, <1>6 DEF IsOn, rows, order
<1>7. CASE \A k \in 1..length : order[k] # u
  <2>1. n = TopN /\ \A k \in 1..n : order[k] \in Users /\ u \in Users /\ Above(b, order[k], u)
    BY <1>4, <1>5, <1>7 DEF Ranked
  <2>2. \A k \in 1..n : b[order[k]] >= b[u]
    BY <2>1, AboveIsOrder
  <2>3. \A j, k \in 1..n : order[j] = order[k] => j = k
    <3> SUFFICES ASSUME NEW j \in 1..n, NEW k \in 1..n, order[j] = order[k], j # k PROVE FALSE
      OBVIOUS
    <3>1. j < k \/ k < j
      BY <1>1, <2>1
    <3>2. Above(b, order[j], order[k])
      BY <1>4, <1>5, <3>1
    <3> QED  BY <2>1, <3>2, AboveIsOrder
  <2>4. \A j, k \in 1..n : row[j] = row[k] => j = k
    <3>1. \A j, k \in 1..n : row[j] = row[k] => order[j] = order[k]
      BY <1>3
    <3> QED  BY <2>3, <3>1
  <2>5. n \in Nat /\ n \in 0..n
    BY <1>1, <2>1
  <2>6. Cardinality({row[k] : k \in 1..n}) = n
    <3> HIDE DEF n
    <3> QED  BY <1>2, <2>4, <2>5, CountedOneByOne
  <2>7. \A r \in rows : r.score >= b[u]
    BY <1>2, <1>3, <2>2
  <2> QED  BY <1>2, <2>1, <2>6, <2>7 DEF FullAbove, rows, order
<1> QED  BY <1>6, <1>7
----------------------------------------------------------------------------
(* The invariant. *)
Times == Nat \ {0}
Outcomes == {"saved", "empty", "redis", "sql"}
Begun == [pc : {"lock"}, at : Times, attempt : Nat]
Reading == [pc : {"read"}, at : Times, attempt : Nat, conn : Conns, lost : BOOLEAN]
Holding == [pc : {"save", "commit"}, at : Times, attempt : Nat, conn : Conns, lost : BOOLEAN,
            rows : SUBSET Entries]
Unlocking == [pc : {"unlock"}, at : Times, attempt : Nat, conn : Conns, lost : BOOLEAN,
              outcome : Outcomes, rows : SUBSET Entries]
Captures == {Idle} \cup Begun \cup Reading \cup Holding \cup Unlocking

(* A batch to be, or one that is: a ranking, not older than its time. *)
Covers(rows, t) ==
  \A u \in Users : since[t][u] > 0 =>
    \/ \E r \in rows : r.user = u /\ r.score >= since[t][u]
    \/ Cardinality(rows) = TopN /\ \A r \in rows : r.score >= since[t][u]
Good(rows, t) == rows # {} /\ IsRanking(rows) /\ Covers(rows, t)

(* A capture works in a session of its own instance, and what it may still *)
(* commit is a good batch.                                                 *)
CaptureOK(i, w) ==
  /\ w # Idle => w.at <= clock
  /\ w.pc \in {"read", "save", "unlock", "commit"} => w.conn[1] = i
  /\ w.pc \in {"save", "commit"} \/ (w.pc = "unlock" /\ w.outcome = "saved") => Good(w.rows, w.at)

Shape ==
  /\ board \in Scores /\ aof \in Scores /\ clock \in Times /\ faults \in Nat
  /\ DOMAIN batches \subseteq 1..clock
  /\ lock \in [Conns -> Nat]
  /\ worker \in [Instances -> Captures]
  /\ lastSuccess \in [Instances -> 0..clock]
  /\ since \in [1..clock -> Scores]

(* The board is never behind what Redis has kept of an earlier one. *)
SinceOK == \A t \in 1..clock : \A u \in Users : since[t][u] <= board[u]

(* One session holds the lock, and a capture that works in a session that  *)
(* is not lost works in that one.                                          *)
Uses(w, c) == w.pc \in {"read", "save", "unlock"} /\ ~w.lost /\ w.conn = c
LockOK ==
  /\ \A c, d \in Conns : lock[c] > 0 /\ lock[d] > 0 => c = d
  /\ \A i \in Instances : \A c \in Conns : Uses(worker[i], c) => lock[c] > 0

Inv ==
  /\ Shape /\ SinceOK /\ LockOK /\ TrackerIsTruthful
  /\ \A i \in Instances : CaptureOK(i, worker[i])
  /\ \A t \in DOMAIN batches : Good(batches[t], t)
----------------------------------------------------------------------------
(* Captures and what they hold. *)
LEMMA CaptureShapes ==
  ASSUME NEW w \in Captures
  PROVE  /\ w.pc \in {"idle", "lock", "read", "save", "unlock", "commit"}
         /\ w.pc = "idle" <=> w = Idle
         /\ w # Idle => w.at \in Times /\ w.attempt \in Nat
         /\ w.pc \in {"read", "save", "unlock", "commit"} => w.conn \in Conns /\ w.lost \in BOOLEAN
         /\ w.pc \in {"save", "unlock", "commit"} => w.rows \in SUBSET Entries
         /\ w.pc = "unlock" => w.outcome \in Outcomes
BY DEF Captures, Begun, Reading, Holding, Unlocking, Idle

LEMMA CapturesAre ==
  /\ Idle \in Captures
  /\ \A t \in Times, a \in Nat : [pc |-> "lock", at |-> t, attempt |-> a] \in Captures
  /\ \A t \in Times, a \in Nat, c \in Conns, l \in BOOLEAN :
       [pc |-> "read", at |-> t, attempt |-> a, conn |-> c, lost |-> l] \in Captures
  /\ \A p \in {"save", "commit"}, t \in Times, a \in Nat, c \in Conns, l \in BOOLEAN,
        r \in SUBSET Entries :
       [pc |-> p, at |-> t, attempt |-> a, conn |-> c, lost |-> l, rows |-> r] \in Captures
  /\ \A t \in Times, a \in Nat, c \in Conns, l \in BOOLEAN, o \in Outcomes, r \in SUBSET Entries :
       [pc |-> "unlock", at |-> t, attempt |-> a, conn |-> c, lost |-> l, outcome |-> o,
        rows |-> r] \in Captures
<1> USE DEF Begun, Reading, Holding, Unlocking
<1>1. Idle \in Captures
  BY DEF Captures
<1>2. ASSUME NEW t \in Times, NEW a \in Nat
      PROVE  [pc |-> "lock", at |-> t, attempt |-> a] \in Begun
  OBVIOUS
<1>3. ASSUME NEW t \in Times, NEW a \in Nat, NEW c \in Conns, NEW l \in BOOLEAN
      PROVE  [pc |-> "read", at |-> t, attempt |-> a, conn |-> c, lost |-> l] \in Reading
  OBVIOUS
<1>4. ASSUME NEW p \in {"save", "commit"}, NEW t \in Times, NEW a \in Nat, NEW c \in Conns,
             NEW l \in BOOLEAN, NEW r \in SUBSET Entries
      PROVE  [pc |-> p, at |-> t, attempt |-> a, conn |-> c, lost |-> l, rows |-> r] \in Holding
  OBVIOUS
<1>5. ASSUME NEW t \in Times, NEW a \in Nat, NEW c \in Conns, NEW l \in BOOLEAN,
             NEW o \in Outcomes, NEW r \in SUBSET Entries
      PROVE  [pc |-> "unlock", at |-> t, attempt |-> a, conn |-> c, lost |-> l, outcome |-> o,
              rows |-> r] \in Unlocking
  OBVIOUS
<1> HIDE DEF Begun, Reading, Holding, Unlocking
<1> QED  BY <1>1, <1>2, <1>3, <1>4, <1>5 DEF Captures

(* What a capture and a batch are held to does not change by itself. *)
LEMMA Frame ==
  ASSUME UNCHANGED <<clock, since>>
  PROVE  /\ \A rows, t : Good(rows, t)' <=> Good(rows, t)
         /\ \A i, w : CaptureOK(i, w)' <=> CaptureOK(i, w)
BY DEF Good, Covers, CaptureOK

(* The capture of one instance moves on. *)
LEMMA CaptureMoved ==
  ASSUME Inv, UNCHANGED <<clock, since>>, NEW i \in Instances, NEW w \in Captures,
         CaptureOK(i, w), worker' = [worker EXCEPT ![i] = w]
  PROVE  /\ worker' \in [Instances -> Captures] /\ worker'[i] = w
         /\ \A j \in Instances : j # i => worker'[j] = worker[j]
         /\ \A j \in Instances : CaptureOK(j, worker[j])'
<1>1. /\ worker' \in [Instances -> Captures] /\ worker'[i] = w
      /\ \A j \in Instances : j # i => worker'[j] = worker[j]
  BY DEF Inv, Shape
<1>2. \A j \in Instances : CaptureOK(j, worker'[j])
  BY <1>1 DEF Inv
<1>3. ASSUME NEW j \in Instances PROVE CaptureOK(j, worker[j])'
  <2>1. CaptureOK(j, worker'[j])
    BY <1>2
  <2> QED  BY <2>1 DEF CaptureOK, Good, Covers
<1> QED  BY <1>1, <1>3

(* The lock stays where it is while a capture that has it goes on, or one  *)
(* gives up what it had.                                                   *)
LEMMA LockStays ==
  ASSUME Inv, lock' = lock, NEW i \in Instances,
         \A j \in Instances : j # i => worker'[j] = worker[j],
         \A c \in Conns : Uses(worker'[i], c) => Uses(worker[i], c)
  PROVE  LockOK'
<1>1. \A j \in Instances, c \in Conns : Uses(worker'[j], c) => Uses(worker[j], c)
  OBVIOUS
<1>2. \A j \in Instances, c \in Conns : Uses(worker'[j], c) => lock'[c] > 0
  BY <1>1 DEF Inv, LockOK
<1>3. \A j \in Instances, c \in Conns : Uses(worker[j], c)' <=> Uses(worker'[j], c)
  BY DEF Uses
<1> QED  BY <1>2, <1>3 DEF Inv, LockOK

LEMMA BatchesKept ==
  ASSUME Inv, UNCHANGED <<batches, clock, since>>
  PROVE  \A t \in DOMAIN batches' : Good(batches[t], t)'
BY DEF Inv, Good, Covers

(* A step of one capture that leaves the board, the clock, the batches and *)
(* the reported successes alone.                                           *)
LEMMA CaptureGoesOn ==
  ASSUME Inv, UNCHANGED <<board, aof, clock, batches, lastSuccess, since>>, faults' \in Nat,
         lock' \in [Conns -> Nat], LockOK',
         NEW i \in Instances, NEW w \in Captures,
         CaptureOK(i, w), worker' = [worker EXCEPT ![i] = w]
  PROVE  Inv'
<1>1. Shape'
  BY CaptureMoved DEF Inv, Shape
<1>2. SinceOK' /\ TrackerIsTruthful'
  BY DEF Inv, SinceOK, TrackerIsTruthful
<1> QED  BY <1>1, <1>2, CaptureMoved, BatchesKept DEF Inv

LEMMA AtRest ==
  ASSUME NEW i, NEW w \in Captures, w.pc \in {"idle", "lock"}, w # Idle => w.at <= clock
  PROVE  CaptureOK(i, w) /\ \A c : ~Uses(w, c)
BY DEF CaptureOK, Uses

LEMMA RetriedIs ==
  ASSUME Inv, NEW i \in Instances, worker[i] # Idle
  PROVE  /\ Retried(i) \in Captures /\ CaptureOK(i, Retried(i))
         /\ \A c : ~Uses(Retried(i), c)
<1> DEFINE again == [pc |-> "lock", at |-> worker[i].at, attempt |-> worker[i].attempt + 1]
<1>1. worker[i] \in Captures
  BY DEF Inv, Shape
<1>2. worker[i].at \in Times /\ worker[i].attempt \in Nat /\ worker[i].at <= clock
  BY <1>1, CaptureShapes DEF Inv, CaptureOK
<1>3. again \in Captures /\ again.pc = "lock" /\ again.at <= clock
  BY <1>2, CapturesAre
<1>4. Idle \in Captures /\ Idle.pc = "idle"
  BY CapturesAre DEF Idle
<1>5. Retried(i) = Idle \/ Retried(i) = again
  BY DEF Retried
<1> HIDE DEF again
<1> QED  BY <1>3, <1>4, <1>5, AtRest

(* What Captured leaves for the finally block. *)
LEMMA CapturedIs ==
  ASSUME Inv, NEW i \in Instances, worker[i].pc \in {"read", "save"},
         NEW outcome \in Outcomes, NEW rows \in SUBSET Entries,
         outcome = "saved" => Good(rows, worker[i].at)
  PROVE  /\ Captured(i, outcome, rows) \in Captures
         /\ CaptureOK(i, Captured(i, outcome, rows))
         /\ \A c : Uses(Captured(i, outcome, rows), c) => Uses(worker[i], c)
<1> DEFINE w == Captured(i, outcome, rows)
<1>1. worker[i] \in Captures /\ worker[i] # Idle
  BY DEF Inv, Shape, Idle
<1>2. /\ worker[i].at \in Times /\ worker[i].attempt \in Nat
      /\ worker[i].conn \in Conns /\ worker[i].lost \in BOOLEAN
  BY <1>1, CaptureShapes
<1>3. w \in Captures
  BY <1>2, CapturesAre DEF Captured
<1>4. /\ w.pc = "unlock" /\ w.at = worker[i].at /\ w.conn = worker[i].conn /\ w.lost = worker[i].lost
      /\ w.outcome = outcome /\ w.rows = rows
  BY DEF Captured
<1> HIDE DEF w
<1>5. worker[i].at <= clock /\ worker[i].conn[1] = i
  BY <1>1 DEF Inv, CaptureOK
<1>6. CaptureOK(i, w)
  BY <1>4, <1>5 DEF CaptureOK
<1>7. \A c : Uses(w, c) => Uses(worker[i], c)
  BY <1>4 DEF Uses
<1> QED  BY <1>3, <1>6, <1>7 DEF w

LEMMA BeginKeeps == ASSUME Inv, NEW i \in Instances, Begin(i) PROVE Inv'
<1> DEFINE w == [pc |-> "lock", at |-> clock, attempt |-> 1]
<1>1. clock \in Times
  BY DEF Inv, Shape
<1>2. w \in Captures /\ w.pc = "lock" /\ w.at = clock
  BY <1>1, CapturesAre
<1>3. worker' = [worker EXCEPT ![i] = w]
  BY DEF Begin
<1> HIDE DEF w
<1>4. CaptureOK(i, w) /\ \A c : ~Uses(w, c)
  BY <1>1, <1>2, AtRest DEF Times
<1>5. LockOK'
  BY <1>2, <1>3, <1>4, CaptureMoved, LockStays DEF Begin
<1> QED  BY <1>2, <1>3, <1>4, <1>5, CaptureGoesOn DEF Begin, Inv, Shape

LEMMA TryLockKeeps == ASSUME Inv, NEW i \in Instances, TryLock(i) PROVE Inv'
<1>1. UNCHANGED <<board, aof, clock, batches, lastSuccess, since>> /\ worker[i].pc = "lock"
  BY DEF TryLock
<1>2. worker[i] \in Captures /\ worker[i] # Idle
  BY <1>1 DEF Inv, Shape, Idle
<1>3. faults \in Nat /\ lock \in [Conns -> Nat] /\ worker \in [Instances -> Captures]
  BY DEF Inv, Shape
<1>4. ASSUME NEW c \in {i} \X (1..PoolSize), ~HeldElsewhere(c), lock' = [lock EXCEPT ![c] = @ + 1],
             worker' = [worker EXCEPT ![i] = [pc |-> "read", at |-> @.at, attempt |-> @.attempt,
                                             conn |-> c, lost |-> FALSE]],
             faults' = faults
      PROVE  Inv'
  <2> DEFINE w == [pc |-> "read", at |-> worker[i].at, attempt |-> worker[i].attempt,
                   conn |-> c, lost |-> FALSE]
  <2>1. c \in Conns /\ c[1] = i
    BY DEF Conns
  <2>2. worker[i].at \in Times /\ worker[i].attempt \in Nat /\ worker[i].at <= clock
    BY <1>2, CaptureShapes DEF Inv, CaptureOK
  <2>3. w \in Captures
    BY <2>1, <2>2, CapturesAre
  <2>4. w.pc = "read" /\ w.at = worker[i].at /\ w.conn = c /\ w.lost = FALSE
    OBVIOUS
  <2>5. worker' = [worker EXCEPT ![i] = w]
    BY <1>4, <1>3
  <2> HIDE DEF w
  <2>6. CaptureOK(i, w)
    BY <2>1, <2>2, <2>4 DEF CaptureOK
  <2>7. /\ lock' \in [Conns -> Nat] /\ lock'[c] > 0
        /\ \A d \in Conns : d # c => lock'[d] = lock[d] /\ ~(lock[d] > 0)
    BY <1>3, <1>4, <2>1 DEF HeldElsewhere
  <2>8. LockOK'
    <3>1. \A d, e \in Conns : lock'[d] > 0 /\ lock'[e] > 0 => d = e
      BY <2>7
    <3>2. ASSUME NEW j \in Instances, NEW d \in Conns, Uses(worker'[j], d) PROVE lock'[d] > 0
      <4>1. CASE j = i
        <5>1. worker'[i] = w
          BY <1>3, <2>5
        <5>2. d = c
          BY <3>2, <4>1, <2>4, <5>1 DEF Uses
        <5> QED  BY <2>7, <5>2
      <4>2. CASE j # i
        <5>1. worker'[j] = worker[j]
          BY <1>3, <2>5, <4>2
        <5>2. lock[d] > 0
          BY <3>2, <5>1 DEF Inv, LockOK
        <5> QED  BY <2>7, <5>2
      <4> QED  BY <4>1, <4>2
    <3>3. \A j \in Instances, d \in Conns : Uses(worker[j], d)' <=> Uses(worker'[j], d)
      BY DEF Uses
    <3> QED  BY <3>1, <3>2, <3>3 DEF LockOK
  <2> QED  BY <1>1, <1>3, <1>4, <2>3, <2>5, <2>6, <2>7, <2>8, CaptureGoesOn
<1>5. ASSUME worker' = [worker EXCEPT ![i] = Idle], lock' = lock, faults' = faults
      PROVE  Inv'
  <2>1. Idle \in Captures /\ Idle.pc = "idle"
    BY CapturesAre DEF Idle
  <2>2. CaptureOK(i, Idle) /\ \A c : ~Uses(Idle, c)
    BY <2>1, AtRest
  <2>3. LockOK'
    BY <1>1, <1>5, <2>1, <2>2, CaptureMoved, LockStays
  <2> QED  BY <1>1, <1>3, <1>5, <2>1, <2>2, <2>3, CaptureGoesOn
<1>6. ASSUME Fault("sql"), worker' = [worker EXCEPT ![i] = Retried(i)], lock' = lock
      PROVE  Inv'
  <2>1. /\ Retried(i) \in Captures /\ CaptureOK(i, Retried(i))
        /\ \A c : ~Uses(Retried(i), c)
    BY <1>2, RetriedIs
  <2>2. LockOK'
    BY <1>1, <1>6, <2>1, CaptureMoved, LockStays
  <2>3. faults' \in Nat
    BY <1>3, <1>6 DEF Fault
  <2> QED  BY <1>1, <1>3, <1>6, <2>1, <2>2, <2>3, CaptureGoesOn
<1> QED  BY <1>4, <1>5, <1>6 DEF TryLock

LEMMA ReadKeeps == ASSUME Inv, NEW i \in Instances, Read(i) PROVE Inv'
<1>1. /\ UNCHANGED <<board, aof, clock, batches, lock, lastSuccess, since>>
      /\ worker[i].pc = "read"
  BY DEF Read
<1>2. worker[i] \in Captures /\ worker[i] # Idle /\ faults \in Nat /\ lock \in [Conns -> Nat]
  BY <1>1 DEF Inv, Shape, Idle
<1>3. /\ worker[i].at \in Times /\ worker[i].attempt \in Nat /\ worker[i].at <= clock
      /\ worker[i].conn \in Conns /\ worker[i].lost \in BOOLEAN /\ worker[i].conn[1] = i
  BY <1>1, <1>2, CaptureShapes DEF Inv, CaptureOK
<1>4. ASSUME NEW w \in Captures, CaptureOK(i, w), \A c : Uses(w, c) => Uses(worker[i], c),
             worker' = [worker EXCEPT ![i] = w], faults' \in Nat
      PROVE  Inv'
  <2>1. LockOK'
    BY <1>1, <1>4, CaptureMoved, LockStays
  <2> QED  BY <1>1, <1>2, <1>4, <2>1, CaptureGoesOn
<1>5. ASSUME NEW outcome \in {"empty", "redis"},
             worker' = [worker EXCEPT ![i] = Captured(i, outcome, {})], faults' \in Nat
      PROVE  Inv'
  <2>1. /\ Captured(i, outcome, {}) \in Captures
        /\ CaptureOK(i, Captured(i, outcome, {}))
        /\ \A c : Uses(Captured(i, outcome, {}), c) => Uses(worker[i], c)
    BY <1>1, CapturedIs DEF Outcomes
  <2> QED  BY <1>4, <1>5, <2>1
<1>6. ASSUME ~EmptyGuard(Top(board)), faults' = faults,
             worker' = [worker EXCEPT ![i] =
               [pc |-> "save", at |-> worker[i].at, attempt |-> worker[i].attempt,
                conn |-> worker[i].conn, lost |-> worker[i].lost, rows |-> Rows(Top(board), board)]]
      PROVE  Inv'
  <2> DEFINE rows == Rows(Top(board), board)
             w == [pc |-> "save", at |-> worker[i].at, attempt |-> worker[i].attempt,
                   conn |-> worker[i].conn, lost |-> worker[i].lost, rows |-> rows]
  <2>1. /\ rows # {} /\ IsRanking(rows) /\ \A r \in rows : r.score = board[r.user]
        /\ \A u \in Ranked(board) : IsOn(rows, u) \/ FullAbove(rows, board, u)
    BY <1>6, TopIsRanking, TopIsFull DEF EmptyGuard, Inv, Shape
  <2> HIDE DEF rows
  <2>2. w \in Captures
    BY <1>3, <2>1, CapturesAre DEF IsRanking
  <2>3. /\ w.pc = "save" /\ w.at = worker[i].at /\ w.conn = worker[i].conn
        /\ w.lost = worker[i].lost /\ w.rows = rows
    OBVIOUS
  <2>4. worker' = [worker EXCEPT ![i] = w]
    BY <1>6 DEF rows
  <2> HIDE DEF w
  <2>5. Good(rows, worker[i].at)
    <3>1. worker[i].at \in 1..clock
      BY <1>3 DEF Times, Inv, Shape
    <3> DEFINE t == worker[i].at
    <3>2. ASSUME NEW u \in Users, since[t][u] > 0
          PROVE  \/ \E r \in rows : r.user = u /\ r.score >= since[t][u]
                 \/ Cardinality(rows) = TopN /\ \A r \in rows : r.score >= since[t][u]
      <4>1. since[t][u] \in Nat /\ board[u] \in Nat /\ since[t][u] <= board[u]
        BY <3>1 DEF Inv, SinceOK, Shape, Scores
      <4>2. u \in Ranked(board)
        BY <3>2, <4>1 DEF Ranked
      <4>3. CASE IsOn(rows, u)
        BY <2>1, <4>1, <4>3 DEF IsOn
      <4>4. CASE FullAbove(rows, board, u)
        <5>1. \A r \in rows : r.score \in Nat /\ r.score >= board[u]
          BY <2>1, <4>4 DEF FullAbove, IsRanking, Entries
        <5>2. \A r \in rows : r.score >= since[t][u]
          BY <4>1, <5>1
        <5> QED  BY <4>4, <5>2 DEF FullAbove
      <4> QED  BY <2>1, <4>2, <4>3, <4>4
    <3> QED  BY <2>1, <3>2 DEF Good, Covers
  <2>6. CaptureOK(i, w)
    BY <1>3, <2>3, <2>5 DEF CaptureOK
  <2>7. \A c : Uses(w, c) => Uses(worker[i], c)
    BY <1>1, <2>3 DEF Uses
  <2> QED  BY <1>2, <1>4, <1>6, <2>2, <2>4, <2>6, <2>7
<1>7. CASE faults' = faults /\ EmptyGuard(Top(board)) /\
             worker' = [worker EXCEPT ![i] = Captured(i, "empty", {})]
  BY <1>2, <1>5, <1>7
<1>8. CASE Fault("redis") /\ worker' = [worker EXCEPT ![i] = Captured(i, "redis", {})]
  BY <1>2, <1>5, <1>8 DEF Fault
<1>9. \/ faults' = faults /\ EmptyGuard(Top(board)) /\
           worker' = [worker EXCEPT ![i] = Captured(i, "empty", {})]
      \/ /\ ~EmptyGuard(Top(board)) /\ faults' = faults
         /\ worker' = [worker EXCEPT ![i] =
              [pc |-> "save", at |-> worker[i].at, attempt |-> worker[i].attempt,
               conn |-> worker[i].conn, lost |-> worker[i].lost, rows |-> Rows(Top(board), board)]]
      \/ Fault("redis") /\ worker' = [worker EXCEPT ![i] = Captured(i, "redis", {})]
  BY DEF Read, Inv, Shape
<1> QED  BY <1>6, <1>7, <1>8, <1>9

LEMMA SaveKeeps == ASSUME Inv, NEW i \in Instances, Save(i) PROVE Inv'
<1>1. /\ UNCHANGED <<board, aof, clock, batches, lock, lastSuccess, since>>
      /\ worker[i].pc = "save"
  BY DEF Save
<1>2. worker[i] \in Captures /\ faults \in Nat /\ lock \in [Conns -> Nat]
  BY <1>1 DEF Inv, Shape
<1>3. worker[i].rows \in SUBSET Entries /\ Good(worker[i].rows, worker[i].at)
  BY <1>1, <1>2, CaptureShapes DEF Inv, CaptureOK
<1>4. \E outcome \in {"saved", "sql"} :
        /\ faults' \in Nat
        /\ worker' = [worker EXCEPT ![i] =
                        Captured(i, outcome, IF outcome = "saved" THEN worker[i].rows ELSE {})]
  BY <1>2 DEF Save, Fault, Inv, Shape
<1>5. PICK outcome \in {"saved", "sql"} :
        /\ faults' \in Nat
        /\ worker' = [worker EXCEPT ![i] =
                        Captured(i, outcome, IF outcome = "saved" THEN worker[i].rows ELSE {})]
  BY <1>4
<1> DEFINE rows == IF outcome = "saved" THEN worker[i].rows ELSE {}
           w == Captured(i, outcome, rows)
<1>6. rows \in SUBSET Entries /\ outcome \in Outcomes /\ (outcome = "saved" => Good(rows, worker[i].at))
  BY <1>3 DEF Outcomes
<1> HIDE DEF rows
<1>7. w \in Captures /\ CaptureOK(i, w) /\ \A c : Uses(w, c) => Uses(worker[i], c)
  BY <1>1, <1>6, CapturedIs
<1>8. worker' = [worker EXCEPT ![i] = w]
  BY <1>5 DEF rows
<1> HIDE DEF w
<1>9. LockOK'
  BY <1>1, <1>7, <1>8, CaptureMoved, LockStays
<1> QED  BY <1>1, <1>2, <1>5, <1>7, <1>8, <1>9, CaptureGoesOn

LEMMA UnlockKeeps == ASSUME Inv, NEW i \in Instances, Unlock(i) PROVE Inv'
<1>1. /\ UNCHANGED <<board, aof, clock, batches, lastSuccess, faults, since>>
      /\ worker[i].pc = "unlock"
  BY DEF Unlock
<1>2. worker[i] \in Captures /\ worker[i] # Idle /\ faults \in Nat /\ lock \in [Conns -> Nat]
      /\ worker \in [Instances -> Captures]
  BY <1>1 DEF Inv, Shape, Idle
<1>3. /\ worker[i].at \in Times /\ worker[i].attempt \in Nat /\ worker[i].at <= clock
      /\ worker[i].conn \in Conns /\ worker[i].lost \in BOOLEAN /\ worker[i].conn[1] = i
      /\ worker[i].outcome \in Outcomes /\ worker[i].rows \in SUBSET Entries
  BY <1>1, <1>2, CaptureShapes DEF Inv, CaptureOK
<1> DEFINE commit == [pc |-> "commit", at |-> worker[i].at, attempt |-> worker[i].attempt,
                      conn |-> worker[i].conn, lost |-> FALSE, rows |-> worker[i].rows]
           w == IF worker[i].lost \/ worker[i].outcome \in {"redis", "sql"} THEN Retried(i)
                ELSE IF worker[i].outcome = "empty" THEN Idle ELSE commit
<1>4. worker' = [worker EXCEPT ![i] = w]
  BY <1>2 DEF Unlock
<1>5. w \in Captures /\ CaptureOK(i, w) /\ \A c : ~Uses(w, c)
  <2>1. CASE w = Retried(i)
    <3> HIDE DEF w
    <3> QED  BY <1>2, <2>1, RetriedIs
  <2>2. CASE w = Idle
    <3>1. Idle \in Captures /\ Idle.pc = "idle"
      BY CapturesAre DEF Idle
    <3> HIDE DEF w
    <3> QED  BY <2>2, <3>1, AtRest
  <2>3. CASE w = commit /\ worker[i].outcome = "saved"
    <3>1. commit \in Captures
      BY <1>3, CapturesAre
    <3>2. /\ commit.pc = "commit" /\ commit.at = worker[i].at /\ commit.conn = worker[i].conn
          /\ commit.rows = worker[i].rows
      OBVIOUS
    <3> HIDE DEF commit, w
    <3>3. Good(worker[i].rows, worker[i].at)
      BY <1>1, <2>3 DEF Inv, CaptureOK
    <3> QED  BY <1>3, <2>3, <3>1, <3>2, <3>3 DEF CaptureOK, Uses
  <2>4. w = Retried(i) \/ w = Idle \/ (w = commit /\ worker[i].outcome = "saved")
    <3> HIDE DEF commit
    <3> QED  BY <1>3 DEF Outcomes
  <2> QED  BY <2>1, <2>2, <2>3, <2>4
<1> HIDE DEF w, commit
<1>6. CASE worker[i].lost \/ worker[i].outcome = "sql"
  <2>1. lock' = lock
    BY <1>6 DEF Unlock
  <2>2. LockOK'
    BY <1>1, <1>4, <1>5, <2>1, CaptureMoved, LockStays
  <2> QED  BY <1>1, <1>2, <1>4, <1>5, <2>1, <2>2, CaptureGoesOn
<1>7. CASE ~(worker[i].lost \/ worker[i].outcome = "sql")
  <2> DEFINE c == worker[i].conn
  <2>1. Uses(worker[i], c)
    BY <1>1, <1>7 DEF Uses
  <2>2. c \in Conns /\ c[1] = i /\ lock[c] > 0
    BY <1>3, <2>1 DEF Inv, LockOK
  <2>3. lock' = [lock EXCEPT ![c] = lock[c] - 1]
    BY <1>7 DEF Unlock
  <2> HIDE DEF c
  <2>4. lock' \in [Conns -> Nat] /\ \A d \in Conns : lock'[d] > 0 => lock[d] > 0
    BY <1>2, <2>2, <2>3
  <2>5. \A j \in Instances, d \in Conns : ~Uses(worker'[j], d)
    <3> SUFFICES ASSUME NEW j \in Instances, NEW d \in Conns, Uses(worker'[j], d) PROVE FALSE
      OBVIOUS
    <3>1. j # i /\ worker'[j] = worker[j]
      BY <1>2, <1>4, <1>5
    <3>2. lock[d] > 0
      BY <3>1 DEF Inv, LockOK
    <3>3. d = c
      BY <2>2, <3>2 DEF Inv, LockOK
    <3>4. d[1] = j
      BY <3>1 DEF Uses, Inv, CaptureOK
    <3> QED  BY <2>2, <3>1, <3>3, <3>4
  <2>6. LockOK'
    <3>1. \A j \in Instances, d \in Conns : Uses(worker[j], d)' <=> Uses(worker'[j], d)
      BY DEF Uses
    <3> QED  BY <2>4, <2>5, <3>1 DEF Inv, LockOK
  <2> QED  BY <1>1, <1>2, <1>4, <1>5, <2>4, <2>6, CaptureGoesOn
<1> QED  BY <1>6, <1>7

(* The table after a batch was stored. *)
LEMMA StoredIs ==
  ASSUME NEW i
  PROVE  /\ DOMAIN Stored(i) = DOMAIN batches \cup {worker[i].at}
         /\ Stored(i)[worker[i].at] = worker[i].rows
         /\ \A t \in DOMAIN batches : t # worker[i].at => Stored(i)[t] = batches[t]
BY DEF Stored

LEMMA CommitKeeps == ASSUME Inv, NEW i \in Instances, Commit(i) PROVE Inv'
<1>1. UNCHANGED <<board, aof, clock, lock, since>> /\ worker[i].pc = "commit"
  BY DEF Commit
<1>2. /\ worker[i] \in Captures /\ worker[i] # Idle /\ faults \in Nat /\ lock \in [Conns -> Nat]
      /\ lastSuccess \in [Instances -> 0..clock] /\ clock \in Nat
  BY <1>1 DEF Inv, Shape, Idle, Times
<1>3. /\ worker[i].at \in Times /\ worker[i].at <= clock
      /\ Good(worker[i].rows, worker[i].at)
  BY <1>1, <1>2, CaptureShapes DEF Inv, CaptureOK
<1>4. worker[i].at \in 1..clock /\ worker[i].at \in 0..clock
  BY <1>2, <1>3 DEF Times
<1>5. \E w \in {Idle, Retried(i)} : worker' = [worker EXCEPT ![i] = w]
  BY DEF Commit, CommitThrew
<1>6. /\ batches' = batches \/ batches' = Stored(i)
      /\ \/ lastSuccess' = lastSuccess
         \/ /\ lastSuccess' = [lastSuccess EXCEPT ![i] = worker[i].at]
            /\ batches' = Stored(i)
      /\ faults' \in Nat
  BY <1>2 DEF Commit, CommitThrew, Fault
<1>7. PICK w \in {Idle, Retried(i)} : worker' = [worker EXCEPT ![i] = w]
  BY <1>5
<1>8. w \in Captures /\ CaptureOK(i, w) /\ \A c : ~Uses(w, c)
  <2>1. Idle \in Captures /\ Idle.pc = "idle"
    BY CapturesAre DEF Idle
  <2> QED  BY <1>2, <2>1, AtRest, RetriedIs
<1>9. LockOK'
  BY <1>1, <1>7, <1>8, CaptureMoved, LockStays
<1>10. /\ worker' \in [Instances -> Captures]
       /\ \A j \in Instances : CaptureOK(j, worker[j])'
  BY <1>1, <1>7, <1>8, CaptureMoved
<1>11. /\ DOMAIN batches \subseteq DOMAIN batches'
       /\ DOMAIN batches' \subseteq 1..clock
       /\ \A t \in DOMAIN batches' : Good(batches'[t], t)
  <2>1. CASE batches' = batches
    BY <2>1 DEF Inv, Shape
  <2>2. CASE batches' = Stored(i)
    <3>1. /\ DOMAIN batches' = DOMAIN batches \cup {worker[i].at}
          /\ batches'[worker[i].at] = worker[i].rows
          /\ \A t \in DOMAIN batches : t # worker[i].at => batches'[t] = batches[t]
      BY <2>2, StoredIs
    <3>2. ASSUME NEW t \in DOMAIN batches' PROVE Good(batches'[t], t)
      <4>1. CASE t = worker[i].at
        BY <1>3, <3>1, <4>1
      <4>2. CASE t # worker[i].at
        <5>1. t \in DOMAIN batches /\ batches'[t] = batches[t] /\ Good(batches[t], t)
          BY <3>1, <4>2 DEF Inv
        <5> QED  BY <5>1
      <4> QED  BY <4>1, <4>2
    <3> QED  BY <1>4, <3>1, <3>2 DEF Inv, Shape
  <2> QED  BY <1>6, <2>1, <2>2
<1>12. \A t \in DOMAIN batches' : Good(batches[t], t)'
  <2> SUFFICES ASSUME NEW t \in DOMAIN batches' PROVE Good(batches[t], t)'
    OBVIOUS
  <2>1. Good(batches'[t], t)
    BY <1>11
  <2> QED  BY <1>1, <2>1 DEF Good, Covers
<1>13. lastSuccess' \in [Instances -> 0..clock]
  BY <1>2, <1>4, <1>6
<1>14. TrackerIsTruthful'
  <2> SUFFICES ASSUME NEW j \in Instances, lastSuccess'[j] # 0
               PROVE  lastSuccess'[j] \in DOMAIN batches'
    BY DEF TrackerIsTruthful
  <2>1. CASE lastSuccess'[j] = lastSuccess[j]
    BY <1>11, <2>1 DEF Inv, TrackerIsTruthful
  <2>2. CASE lastSuccess'[j] # lastSuccess[j]
    <3>1. batches' = Stored(i) /\ lastSuccess'[j] = worker[i].at
      BY <1>2, <1>6, <2>2
    <3> QED  BY <3>1, StoredIs
  <2> QED  BY <2>1, <2>2
<1>15. Shape' /\ SinceOK'
  BY <1>1, <1>6, <1>10, <1>11, <1>13 DEF Inv, Shape, SinceOK
<1> QED  BY <1>9, <1>10, <1>12, <1>14, <1>15 DEF Inv

(* A capture whose session was closed knows it at its next statement. *)
LEMMA LostIs ==
  ASSUME Inv, NEW i \in Instances, InTransaction(i)
  PROVE  /\ [worker[i] EXCEPT !.lost = TRUE] \in Captures
         /\ CaptureOK(i, [worker[i] EXCEPT !.lost = TRUE])
         /\ \A c : ~Uses([worker[i] EXCEPT !.lost = TRUE], c)
<1>1. PICK w \in Captures : w = worker[i]
  BY DEF Inv, Shape
<1>2. CaptureOK(i, w) /\ w.pc \in {"read", "save", "unlock", "commit"} /\ w # Idle
  BY <1>1 DEF Inv, InTransaction, Idle
<1>3. /\ w.at \in Times /\ w.attempt \in Nat /\ w.conn \in Conns /\ w.lost \in BOOLEAN
  BY <1>2, CaptureShapes
<1> DEFINE v == [w EXCEPT !.lost = TRUE]
<1>4. ASSUME v \in Captures, v.pc = w.pc, v.at = w.at, v.conn = w.conn, v.lost = TRUE,
             w.pc # "read" => v.rows = w.rows, w.pc = "unlock" => v.outcome = w.outcome
      PROVE  v \in Captures /\ CaptureOK(i, v) /\ \A c : ~Uses(v, c)
  <2> HIDE DEF v
  <2>1. CaptureOK(i, v)
    BY <1>2, <1>4 DEF CaptureOK
  <2>2. \A c : ~Uses(v, c)
    BY <1>4 DEF Uses
  <2> QED  BY <1>4, <2>1, <2>2
<1>5. ASSUME w \in Reading PROVE v \in Captures /\ CaptureOK(i, v) /\ \A c : ~Uses(v, c)
  <2>1. v \in Reading
    BY <1>5 DEF Reading
  <2>2. /\ v.pc = w.pc /\ v.at = w.at /\ v.conn = w.conn /\ v.lost = TRUE
    BY <1>5 DEF Reading
  <2>3. w.pc = "read"
    BY <1>5 DEF Reading
  <2> HIDE DEF v
  <2>4. v \in Captures
    BY <2>1 DEF Captures
  <2> QED  BY <1>4, <2>2, <2>3, <2>4
<1>6. ASSUME w \in Holding PROVE v \in Captures /\ CaptureOK(i, v) /\ \A c : ~Uses(v, c)
  <2>1. v \in Holding
    BY <1>6 DEF Holding
  <2>2. /\ v.pc = w.pc /\ v.at = w.at /\ v.conn = w.conn /\ v.lost = TRUE /\ v.rows = w.rows
    BY <1>6 DEF Holding
  <2>3. w.pc # "unlock"
    BY <1>6 DEF Holding
  <2> HIDE DEF v
  <2>4. v \in Captures
    BY <2>1 DEF Captures
  <2> QED  BY <1>4, <2>2, <2>3, <2>4
<1>7. ASSUME w \in Unlocking PROVE v \in Captures /\ CaptureOK(i, v) /\ \A c : ~Uses(v, c)
  <2>1. v \in Unlocking
    BY <1>7 DEF Unlocking
  <2>2. /\ v.pc = w.pc /\ v.at = w.at /\ v.conn = w.conn /\ v.lost = TRUE /\ v.rows = w.rows
        /\ v.outcome = w.outcome
    BY <1>7 DEF Unlocking
  <2>3. w.pc = "unlock"
    BY <1>7 DEF Unlocking
  <2> HIDE DEF v
  <2>4. v \in Captures
    BY <2>1 DEF Captures
  <2> QED  BY <1>4, <2>2, <2>3, <2>4
<1>8. w \in Reading \/ w \in Holding \/ w \in Unlocking
  BY <1>2 DEF Captures, Begun
<1>9. v \in Captures /\ CaptureOK(i, v) /\ \A c : ~Uses(v, c)
  BY <1>5, <1>6, <1>7, <1>8
<1> QED  BY <1>1, <1>9

LEMMA LoseSessionKeeps == ASSUME Inv, NEW c \in Conns, LoseSession(c) PROVE Inv'
<1>1. /\ UNCHANGED <<board, aof, clock, batches, lastSuccess, since>>
      /\ lock' = [lock EXCEPT ![c] = 0] /\ faults' \in Nat
  BY DEF LoseSession, Fault, Inv, Shape
<1>2. \A i \in Instances :
        worker'[i] = IF InTransaction(i) /\ worker[i].conn = c
                     THEN [worker[i] EXCEPT !.lost = TRUE] ELSE worker[i]
  BY DEF LoseSession
<1>3. ASSUME NEW i \in Instances
      PROVE  /\ worker'[i] \in Captures /\ CaptureOK(i, worker'[i])
             /\ \A d \in Conns : Uses(worker'[i], d) => Uses(worker[i], d) /\ d # c
  <2>1. worker[i] \in Captures /\ CaptureOK(i, worker[i])
    BY DEF Inv, Shape
  <2>2. CASE InTransaction(i) /\ worker[i].conn = c
    <3>1. worker'[i] = [worker[i] EXCEPT !.lost = TRUE]
      BY <1>2, <2>2
    <3> QED  BY <2>2, <3>1, LostIs
  <2>3. CASE ~(InTransaction(i) /\ worker[i].conn = c)
    <3>1. worker'[i] = worker[i]
      BY <1>2, <2>3
    <3>2. ~Uses(worker[i], c)
      BY <2>3 DEF Uses, InTransaction
    <3> QED  BY <2>1, <3>1, <3>2
  <2> QED  BY <2>2, <2>3
<1>4. worker' \in [Instances -> Captures]
  BY <1>3 DEF LoseSession
<1>5. lock' \in [Conns -> Nat] /\ \A d \in Conns : (d # c => lock'[d] = lock[d]) /\ lock'[c] = 0
  BY <1>1 DEF Inv, Shape
<1>6. LockOK'
  <2>1. \A d, e \in Conns : lock'[d] > 0 /\ lock'[e] > 0 => d = e
    BY <1>5 DEF Inv, LockOK
  <2>2. \A i \in Instances, d \in Conns : Uses(worker'[i], d) => lock'[d] > 0
    BY <1>3, <1>5 DEF Inv, LockOK
  <2>3. \A j \in Instances, d \in Conns : Uses(worker[j], d)' <=> Uses(worker'[j], d)
    BY DEF Uses
  <2> QED  BY <2>1, <2>2, <2>3 DEF LockOK
<1>7. \A i \in Instances : CaptureOK(i, worker[i])'
  <2> SUFFICES ASSUME NEW i \in Instances PROVE CaptureOK(i, worker[i])'
    OBVIOUS
  <2>1. CaptureOK(i, worker'[i])
    BY <1>3
  <2> QED  BY <1>1, <2>1 DEF CaptureOK, Good, Covers
<1>8. Shape' /\ SinceOK' /\ TrackerIsTruthful'
  BY <1>1, <1>4, <1>5 DEF Inv, Shape, SinceOK, TrackerIsTruthful
<1> QED  BY <1>1, <1>6, <1>7, <1>8, BatchesKept DEF Inv

LEMMA RestartKeeps == ASSUME Inv, NEW i \in Instances, Restart(i) PROVE Inv'
<1>1. /\ UNCHANGED <<board, aof, clock, batches, since>> /\ faults' \in Nat
      /\ worker' = [worker EXCEPT ![i] = Idle] /\ lastSuccess' = [lastSuccess EXCEPT ![i] = 0]
  BY DEF Restart, Fault, Inv, Shape
<1>2. \A c \in Conns : lock'[c] = IF c[1] = i THEN 0 ELSE lock[c]
  BY DEF Restart
<1>3. lock' \in [Conns -> Nat]
  BY DEF Restart, Inv, Shape
<1>4. Idle \in Captures /\ Idle.pc = "idle"
  BY CapturesAre DEF Idle
<1>5. CaptureOK(i, Idle) /\ \A c : ~Uses(Idle, c)
  BY <1>4, AtRest
<1>6. /\ worker' \in [Instances -> Captures] /\ worker'[i] = Idle
      /\ \A j \in Instances : j # i => worker'[j] = worker[j]
      /\ \A j \in Instances : CaptureOK(j, worker[j])'
  BY <1>1, <1>4, <1>5, CaptureMoved
<1>7. LockOK'
  <2>1. \A c, d \in Conns : lock'[c] > 0 /\ lock'[d] > 0 => c = d
    BY <1>2 DEF Inv, LockOK
  <2>2. ASSUME NEW j \in Instances, NEW c \in Conns, Uses(worker'[j], c) PROVE lock'[c] > 0
    <3>1. j # i /\ worker'[j] = worker[j]
      BY <1>5, <1>6, <2>2
    <3>2. lock[c] > 0 /\ c[1] = j
      BY <2>2, <3>1 DEF Inv, LockOK, CaptureOK, Uses
    <3> QED  BY <1>2, <3>1, <3>2
  <2>3. \A j \in Instances, d \in Conns : Uses(worker[j], d)' <=> Uses(worker'[j], d)
    BY DEF Uses
  <2> QED  BY <2>1, <2>2, <2>3 DEF LockOK
<1>8. lastSuccess' \in [Instances -> 0..clock]
  BY <1>1 DEF Inv, Shape, Times
<1>9. TrackerIsTruthful'
  BY <1>1 DEF Inv, Shape, TrackerIsTruthful
<1>10. Shape' /\ SinceOK'
  BY <1>1, <1>3, <1>6, <1>8 DEF Inv, Shape, SinceOK
<1> QED  BY <1>1, <1>6, <1>7, <1>9, <1>10, BatchesKept DEF Inv

(* A score that grows leaves what was read before it behind. *)
LEMMA ScoreKeeps == ASSUME Inv, NEW u \in Users, Score(u) PROVE Inv'
<1>1. /\ UNCHANGED <<aof, clock, batches, lock, worker, lastSuccess, faults, since>>
      /\ board' = [board EXCEPT ![u] = @ + 1]
  BY DEF Score
<1>2. board' \in Scores /\ \A v \in Users : board[v] <= board'[v]
  BY <1>1 DEF Inv, Shape, Scores
<1>3. Shape' /\ TrackerIsTruthful'
  BY <1>1, <1>2 DEF Inv, Shape, TrackerIsTruthful
<1>4. SinceOK'
  <2> SUFFICES ASSUME NEW t \in 1..clock, NEW v \in Users PROVE since[t][v] <= board'[v]
    BY <1>1 DEF SinceOK
  <2>1. since[t][v] \in Nat /\ board[v] \in Nat /\ board'[v] \in Nat
    BY <1>2 DEF Inv, Shape, Scores
  <2>2. since[t][v] <= board[v] /\ board[v] <= board'[v]
    BY <1>2 DEF Inv, SinceOK
  <2> QED  BY <2>1, <2>2
<1>5. LockOK' /\ \A i \in Instances : CaptureOK(i, worker[i])'
  BY <1>1 DEF Inv, LockOK, CaptureOK, Good, Covers, Uses
<1> QED  BY <1>1, <1>3, <1>4, <1>5, BatchesKept DEF Inv

(* Redis's file is brought up to the board. *)
LEMMA FsyncKeeps == ASSUME Inv, Fsync PROVE Inv'
<1>1. UNCHANGED <<board, clock, batches, lock, worker, lastSuccess, faults, since>> /\ aof' = board
  BY DEF Fsync
<1>2. Shape' /\ SinceOK' /\ TrackerIsTruthful' /\ LockOK'
  BY <1>1 DEF Inv, Shape, SinceOK, TrackerIsTruthful, LockOK, Uses
<1>3. \A i \in Instances : CaptureOK(i, worker[i])'
  BY <1>1 DEF Inv, CaptureOK, Good, Covers
<1> QED  BY <1>1, <1>2, <1>3, BatchesKept DEF Inv

(* What Redis lost, no batch is asked for. *)
LEMMA LessIs ==
  ASSUME NEW m \in Nat, NEW n \in Nat
  PROVE  Less(m, n) \in Nat /\ Less(m, n) <= m /\ Less(m, n) <= n
BY DEF Less

LEMMA RestartRedisKeeps == ASSUME Inv, RestartRedis PROVE Inv'
<1>1. /\ UNCHANGED <<clock, batches, lock, worker, lastSuccess>> /\ faults' \in Nat
      /\ board' \in {aof, [u \in Users |-> 0]} /\ aof' = board'
      /\ since' = [t \in DOMAIN since |-> [u \in Users |-> Less(since[t][u], board'[u])]]
  BY DEF RestartRedis, Fault, Inv, Shape
<1>2. board' \in Scores /\ DOMAIN since = 1..clock /\ since \in [1..clock -> Scores]
  BY <1>1 DEF Inv, Shape, Scores
<1>3. ASSUME NEW t \in 1..clock, NEW u \in Users
      PROVE  /\ since'[t][u] \in Nat /\ since[t][u] \in Nat
             /\ since'[t][u] <= since[t][u] /\ since'[t][u] <= board'[u]
  <2>1. since[t][u] \in Nat /\ board'[u] \in Nat
    BY <1>2 DEF Scores
  <2>2. since'[t][u] = Less(since[t][u], board'[u])
    BY <1>1, <1>2
  <2> QED  BY <2>1, <2>2, LessIs
<1>4. since' \in [1..clock -> Scores]
  <2>1. \A t \in 1..clock : since'[t] \in Scores
    BY <1>1, <1>2, <1>3 DEF Scores
  <2> QED  BY <1>1, <1>2, <2>1
<1>5. Shape' /\ SinceOK' /\ TrackerIsTruthful' /\ LockOK'
  BY <1>1, <1>2, <1>3, <1>4 DEF Inv, Shape, SinceOK, TrackerIsTruthful, LockOK, Uses
<1>6. ASSUME NEW rows, NEW t \in 1..clock, Good(rows, t) PROVE Good(rows, t)'
  <2>1. \A r \in rows : r.score \in Nat
    BY <1>6 DEF Good, IsRanking, Entries
  <2>2. ASSUME NEW u \in Users, since'[t][u] > 0
        PROVE  \/ \E r \in rows : r.user = u /\ r.score >= since'[t][u]
               \/ Cardinality(rows) = TopN /\ \A r \in rows : r.score >= since'[t][u]
    <3>1. /\ since'[t][u] \in Nat /\ since[t][u] \in Nat
          /\ since'[t][u] <= since[t][u] /\ since[t][u] > 0
      BY <1>3, <2>2
    <3>2. \A r \in rows : r.score >= since[t][u] => r.score >= since'[t][u]
      BY <2>1, <3>1
    <3> QED  BY <1>6, <3>1, <3>2 DEF Good, Covers
  <2> QED  BY <1>6, <2>2 DEF Good, Covers
<1>7. \A t \in DOMAIN batches' : Good(batches[t], t)'
  <2> SUFFICES ASSUME NEW t \in DOMAIN batches PROVE Good(batches[t], t)'
    BY <1>1
  <2>1. PICK rows : rows = batches[t]
    OBVIOUS
  <2>2. t \in 1..clock /\ Good(rows, t)
    BY <2>1 DEF Inv, Shape
  <2>3. Good(rows, t)'
    BY <1>6, <2>2
  <2> QED  BY <1>1, <2>1, <2>3 DEF Good, Covers
<1>8. ASSUME NEW i \in Instances PROVE CaptureOK(i, worker[i])'
  <2>1. PICK w \in Captures : w = worker[i]
    BY DEF Inv, Shape
  <2>2. CaptureOK(i, w) /\ clock \in Nat
    BY <2>1 DEF Inv, Shape, Times
  <2>3. w # Idle => w.at \in 1..clock
    BY <2>2, CaptureShapes DEF CaptureOK, Times
  <2>4. w.pc \in {"save", "commit", "unlock"} => w # Idle
    BY DEF Idle
  <2>5. w.pc \in {"save", "commit"} \/ (w.pc = "unlock" /\ w.outcome = "saved") =>
          Good(w.rows, w.at)'
    BY <1>6, <2>2, <2>3, <2>4 DEF CaptureOK
  <2>6. CaptureOK(i, w)'
    BY <1>1, <2>2, <2>5 DEF CaptureOK
  <2> QED  BY <1>1, <2>1, <2>6 DEF CaptureOK, Good, Covers
<1> QED  BY <1>1, <1>5, <1>7, <1>8 DEF Inv

(* The clock moves: what is known of the earlier times stays. *)
LEMMA TickKeeps == ASSUME Inv, Tick PROVE Inv'
<1>1. /\ UNCHANGED <<board, aof, batches, lock, worker, lastSuccess, faults>> /\ clock' = clock + 1
      /\ since' = [t \in 1..(clock + 1) |-> IF t = clock + 1 THEN board ELSE since[t]]
  BY DEF Tick
<1>2. /\ clock \in Times /\ clock' \in Times /\ clock < clock' /\ board \in Scores
      /\ since \in [1..clock -> Scores] /\ lastSuccess \in [Instances -> 0..clock]
      /\ DOMAIN batches \subseteq 1..clock
  BY <1>1 DEF Inv, Shape, Times
<1>3. \A t \in 1..clock : t \in 1..clock' /\ since'[t] = since[t]
  BY <1>1, <1>2 DEF Times
<1>4. since'[clock'] = board /\ \A t \in 1..clock' : t \in 1..clock \/ t = clock'
  BY <1>1, <1>2 DEF Times
<1>5. since' \in [1..clock' -> Scores]
  BY <1>1, <1>2 DEF Times
<1>6. lastSuccess \in [Instances -> 0..clock'] /\ DOMAIN batches \subseteq 1..clock'
  BY <1>1, <1>2 DEF Times
<1>7. Shape'
  BY <1>1, <1>2, <1>5, <1>6 DEF Inv, Shape
<1>8. SinceOK'
  <2> SUFFICES ASSUME NEW t \in 1..clock', NEW u \in Users PROVE since'[t][u] <= board[u]
    BY <1>1 DEF SinceOK
  <2>1. CASE t \in 1..clock
    BY <1>3, <2>1 DEF Inv, SinceOK
  <2>2. CASE t = clock'
    BY <1>2, <1>4, <2>2 DEF Scores
  <2> QED  BY <1>4, <2>1, <2>2
<1>9. ASSUME NEW rows, NEW t \in 1..clock, Good(rows, t) PROVE Good(rows, t)'
  BY <1>3, <1>9 DEF Good, Covers
<1>10. \A t \in DOMAIN batches' : Good(batches[t], t)'
  <2> SUFFICES ASSUME NEW t \in DOMAIN batches PROVE Good(batches[t], t)'
    BY <1>1
  <2>1. t \in 1..clock /\ Good(batches[t], t)
    BY <1>2 DEF Inv
  <2> QED  BY <1>1, <1>3, <2>1 DEF Good, Covers
<1>11. ASSUME NEW i \in Instances PROVE CaptureOK(i, worker[i])'
  <2>1. worker[i] \in Captures /\ CaptureOK(i, worker[i])
    BY DEF Inv, Shape
  <2>2. worker[i] # Idle => worker[i].at \in 1..clock /\ worker[i].at <= clock'
    BY <1>2, <2>1, CaptureShapes DEF CaptureOK, Times
  <2>3. worker[i].pc \in {"save", "commit", "unlock"} => worker[i] # Idle
    BY DEF Idle
  <2> QED  BY <1>1, <1>3, <2>1, <2>2, <2>3 DEF CaptureOK, Good, Covers
<1>12. LockOK' /\ TrackerIsTruthful'
  BY <1>1 DEF Inv, LockOK, Uses, TrackerIsTruthful
<1> QED  BY <1>7, <1>8, <1>10, <1>11, <1>12 DEF Inv

LEMMA StartsWell == Init => Inv
<1> SUFFICES ASSUME Init PROVE Inv
  OBVIOUS
<1>1. board \in Scores /\ aof \in Scores
  BY SnapshotAssumption DEF Init, Scores
<1>2. /\ clock = 1 /\ faults = 0 /\ lock = [c \in Conns |-> 0] /\ worker = [i \in Instances |-> Idle]
      /\ lastSuccess = [i \in Instances |-> 0] /\ since = [t \in {1} |-> board] /\ DOMAIN batches = {}
  BY DEF Init
<1>3. 1..1 = {1} /\ since \in [1..1 -> Scores]
  BY <1>1, <1>2
<1>4. Idle \in Captures /\ Idle.pc = "idle"
  BY CapturesAre DEF Idle
<1>5. \A i \in Instances : CaptureOK(i, Idle) /\ \A c : ~Uses(Idle, c)
  BY <1>4, AtRest
<1>6. worker \in [Instances -> Captures]
  BY <1>2, <1>4
<1>7. Shape
  BY <1>1, <1>2, <1>3, <1>6 DEF Shape, Times
<1>8. SinceOK
  <2> SUFFICES ASSUME NEW t \in 1..clock, NEW u \in Users PROVE since[t][u] <= board[u]
    BY DEF SinceOK
  <2>1. since[t] = board
    BY <1>2
  <2> QED  BY <1>1, <2>1 DEF Scores
<1>9. LockOK /\ TrackerIsTruthful
  BY <1>2, <1>5 DEF LockOK, TrackerIsTruthful
<1> QED  BY <1>2, <1>5, <1>7, <1>8, <1>9 DEF Inv

LEMMA StepKeeps == Inv /\ [Next]_vars => Inv'
<1> SUFFICES ASSUME Inv, [Next]_vars PROVE Inv'
  OBVIOUS
<1>1. ASSUME NEW i \in Instances, CaptureStep(i) PROVE Inv'
  BY <1>1, BeginKeeps, TryLockKeeps, ReadKeeps, SaveKeeps, UnlockKeeps, CommitKeeps DEF CaptureStep
<1>2. CASE UNCHANGED vars
  <2>1. UNCHANGED <<board, aof, clock, batches, lock, worker, lastSuccess, faults, since>>
    BY <1>2 DEF vars
  <2>2. Shape' /\ SinceOK' /\ TrackerIsTruthful' /\ LockOK'
    BY <2>1 DEF Inv, Shape, SinceOK, TrackerIsTruthful, LockOK, Uses
  <2>3. \A i \in Instances : CaptureOK(i, worker[i])'
    BY <2>1 DEF Inv, CaptureOK, Good, Covers
  <2> QED  BY <2>1, <2>2, <2>3, BatchesKept DEF Inv
<1> QED  BY <1>1, <1>2, RestartKeeps, LoseSessionKeeps, ScoreKeeps, FsyncKeeps,
         RestartRedisKeeps, TickKeeps DEF Next
----------------------------------------------------------------------------
(* The invariant holds in every state. *)
THEOREM InvCorrect == Spec => []Inv
BY StartsWell, StepKeeps, PTL DEF Spec

(* Variables keep their shapes and no stored batch is empty, for all       *)
(* instances, pools, faults and bounds.                                    *)
THEOREM TypeCorrect == Spec => []TypeOK
<1>1. Inv => TypeOK
  <2> SUFFICES ASSUME Inv PROVE TypeOK
    OBVIOUS
  <2>1. \A t \in DOMAIN batches : batches[t] # {} /\ batches[t] \subseteq Entries
    BY DEF Inv, Good, IsRanking
  <2>2. \A i \in Instances : worker[i].pc \in {"idle", "lock", "read", "save", "unlock", "commit"}
    BY CaptureShapes DEF Inv, Shape
  <2> QED  BY <2>1, <2>2 DEF TypeOK, Inv, Shape, Scores, Times
<1> QED  BY <1>1, InvCorrect, PTL

(* A committed batch is one ranking of the board, of at most TopN users,   *)
(* whatever attempts and instances stored it.                              *)
THEOREM BatchIsARankingHolds == Spec => []BatchIsARanking
<1>1. Inv => BatchIsARanking
  BY DEF Inv, Good, IsRanking, BatchIsARanking
<1> QED  BY <1>1, InvCorrect, PTL

(* A batch is never older than its time says: of what a user had then, and *)
(* Redis has not lost, nothing is missing on it but for a full page of     *)
(* users who are no lower.                                                 *)
THEOREM NotOlderThanItsTimeHolds == Spec => []NotOlderThanItsTime
<1>1. Inv => NotOlderThanItsTime
  BY DEF Inv, Good, Covers, NotOlderThanItsTime
<1> QED  BY <1>1, InvCorrect, PTL

(* The last success an instance reports is in the table, whatever became   *)
(* of its commits.                                                         *)
THEOREM TrackerIsTruthfulHolds == Spec => []TrackerIsTruthful
<1>1. Inv => TrackerIsTruthful
  BY DEF Inv
<1> QED  BY <1>1, InvCorrect, PTL

(* Two captures never work under the lock together, however locks leak,    *)
(* sessions close and instances restart.                                   *)
THEOREM OneCaptureAtATimeHolds == Spec => []OneCaptureAtATime
<1>1. Inv => OneCaptureAtATime
  <2> SUFFICES ASSUME Inv, NEW i \in Instances, NEW j \in Instances, NEW c \in Conns,
                      NEW d \in Conns, Using(i, c), Using(j, d)
               PROVE  i = j
    BY DEF OneCaptureAtATime
  <2>1. Uses(worker[i], c) /\ Uses(worker[j], d)
    BY DEF Using, Uses
  <2>2. lock[c] > 0 /\ lock[d] > 0
    BY <2>1 DEF Inv, LockOK
  <2>3. c = d
    BY <2>2 DEF Inv, LockOK
  <2>4. c[1] = i /\ d[1] = j
    BY <2>1 DEF Inv, CaptureOK, Uses
  <2> QED  BY <2>3, <2>4
<1> QED  BY <1>1, InvCorrect, PTL
=============================================================================
