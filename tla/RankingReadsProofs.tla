-------------------------- MODULE RankingReadsProofs --------------------------
(***************************************************************************)
(* The proofs of RankingReads: what the ranking queries answer, for any    *)
(* users, scores, pages, events and losses.  What a place of the board is, *)
(* was proved for the snapshots; Page takes it from there, where the       *)
(* parameters given here play no part.                                     *)
(***************************************************************************)
EXTENDS RankingReads, SequenceTheorems, FiniteSetTheorems, TLAPS

Page == INSTANCE SnapshotCaptureProofs
        WITH Instances <- {}, PoolSize <- 1, Registered <- Users, TopN <- 1, MaxAttempts <- 1,
             StartScores <- {}, MaxPoints <- 0, MaxClock <- 0, MaxFaults <- 0, FaultKinds <- {},
             aof <- 0, clock <- 0, batches <- 0, lock <- 0, worker <- 0, lastSuccess <- 0, faults <- 0,
             since <- 0

Scores == [Users -> Nat]

LEMMA PageAssumed == Page!BoardAssumption /\ Page!SnapshotAssumption
<1>1. IsFiniteSet(Users) => Page!IsFiniteSet(Users)
  BY DEF IsFiniteSet, Page!IsFiniteSet
<1> QED  BY <1>1, BoardAssumption DEF BoardAssumption, Page!BoardAssumption, Page!SnapshotAssumption

LEMMA SameCount == \A S : Page!Cardinality(S) = Cardinality(S)
BY DEF Cardinality, Page!Cardinality

LEMMA SamePlaces ==
  ASSUME NEW b
  PROVE  /\ \A u, v : Page!Above(b, u, v) <=> Above(b, u, v)
         /\ \A u : Page!Position(b, u) = Position(b, u)
         /\ Page!Ranked(b) = Ranked(b) /\ Page!Size(b) = Cardinality(Ranked(b))
<1>1. \A u, v : Page!Above(b, u, v) <=> Above(b, u, v)
  BY DEF Page!Above, Above
<1>2. ASSUME NEW u PROVE Page!Position(b, u) = Position(b, u)
  <2>1. {v \in Users : Page!Above(b, v, u)} = {v \in Users : Above(b, v, u)}
    BY <1>1
  <2> QED  BY <2>1, SameCount DEF Page!Position, Position
<1>3. Page!Ranked(b) = Ranked(b)
  BY DEF Page!Ranked, Ranked
<1>4. Page!Size(b) = Cardinality(Ranked(b))
  BY <1>3, SameCount DEF Page!Size
<1> QED  BY <1>1, <1>2, <1>3, <1>4

(* The order of the board, and the places it gives. *)
LEMMA Places ==
  ASSUME NEW b \in Scores
  PROVE  /\ \A u \in Users : Position(b, u) \in Nat
         /\ \A u, v \in Users : Above(b, u, v) => Position(b, u) < Position(b, v)
         /\ \A u, v \in Users : u # v => Above(b, u, v) \/ Above(b, v, u)
         /\ \A u \in Ranked(b) : Position(b, u) \in 1..Cardinality(Ranked(b))
         /\ \A k \in 1..Cardinality(Ranked(b)) : \E u \in Ranked(b) : Position(b, u) = k
         /\ Ranked(b) \subseteq Users /\ Cardinality(Ranked(b)) \in Nat
<1>1. b \in Page!Scores
  BY DEF Scores, Page!Scores
<1>2. ASSUME NEW u \in Users, NEW v \in Users, Above(b, u, v) PROVE Position(b, u) < Position(b, v)
  BY <1>1, <1>2, PageAssumed, SamePlaces, Page!PositionsGrow
<1>3. ASSUME NEW u \in Users, NEW v \in Users, u # v PROVE Above(b, u, v) \/ Above(b, v, u)
  BY <1>1, <1>3, PageAssumed, SamePlaces, Page!AboveIsOrder
<1>4. ASSUME NEW u \in Ranked(b) PROVE Position(b, u) \in 1..Cardinality(Ranked(b))
  BY <1>1, PageAssumed, SamePlaces, Page!PositionsInRange
<1>5. ASSUME NEW k \in 1..Cardinality(Ranked(b)) PROVE \E u \in Ranked(b) : Position(b, u) = k
  BY <1>1, PageAssumed, SamePlaces, Page!EveryPlaceIsTaken
<1>6. Ranked(b) \subseteq Users /\ Cardinality(Ranked(b)) \in Nat
  BY PageAssumed, SamePlaces, Page!RankedIsFinite
<1>7. ASSUME NEW u \in Users PROVE Position(b, u) \in Nat
  <2>1. /\ Page!Cardinality(Page!HigherThan(b, u)) \in Nat
        /\ Page!Position(b, u) = 1 + Page!Cardinality(Page!HigherThan(b, u))
    BY <1>1, PageAssumed, Page!PositionIs
  <2> QED  BY <2>1, SamePlaces
<1> QED  BY <1>2, <1>3, <1>4, <1>5, <1>6, <1>7----------------------------------------------------------------------------
(* A page of the board: whoever holds its places. *)
IsPageAt(page, b, from) ==
  /\ page \in Seq(Ranked(b))
  /\ \A k \in 1..Len(page) : Position(b, page[k]) = from + k

LEMMA ReverseRangeIsPage ==
  ASSUME NEW b \in Scores, NEW from \in Nat, NEW n \in Nat
  PROVE  IsPageAt(ReverseRange(b, from, n), b, from)
<1> DEFINE size == Cardinality(Ranked(b))
           length == IF from + n <= size THEN n ELSE IF from < size THEN size - from ELSE 0
           page == ReverseRange(b, from, n)
<1>1. size \in Nat
  BY Places
<1>2. length \in Nat /\ \A k \in 1..length : from + k \in 1..size
  BY <1>1
<1>3. page = [k \in 1..length |-> CHOOSE u \in Ranked(b) : Position(b, u) = from + k]
  BY DEF ReverseRange
<1> HIDE DEF size, length, page
<1>4. ASSUME NEW k \in 1..length PROVE page[k] \in Ranked(b) /\ Position(b, page[k]) = from + k
  <2>1. \E u \in Ranked(b) : Position(b, u) = from + k
    BY <1>2, Places DEF size
  <2>2. page[k] = CHOOSE u \in Ranked(b) : Position(b, u) = from + k
    BY <1>3
  <2> QED  BY <2>1, <2>2
<1>5. page \in [1..length -> Ranked(b)]
  BY <1>3, <1>4
<1>6. page \in Seq(Ranked(b)) /\ Len(page) = length
  BY <1>2, <1>5, SeqDef
<1> QED  BY <1>4, <1>6 DEF IsPageAt, page

(* The scores of a page fall, and a place whose score is lower than that   *)
(* of the place before it is the competition rank of that score.           *)
LEMMA ScoresFall ==
  ASSUME NEW b \in Scores, NEW from \in Nat, NEW page, IsPageAt(page, b, from),
         NEW j \in 1..Len(page), NEW k \in 1..Len(page), j < k
  PROVE  b[page[j]] >= b[page[k]]
<1>1. page[j] \in Users /\ page[k] \in Users
  BY Places DEF IsPageAt
<1>2. Position(b, page[j]) < Position(b, page[k])
  BY DEF IsPageAt
<1>3. ~Above(b, page[k], page[j]) /\ page[j] # page[k]
  BY <1>1, <1>2, Places
<1>4. Above(b, page[j], page[k])
  BY <1>1, <1>3, Places
<1>5. b[page[j]] \in Nat /\ b[page[k]] \in Nat
  BY <1>1 DEF Scores
<1> QED  BY <1>4, <1>5 DEF Above

LEMMA PlaceIsRank ==
  ASSUME NEW b \in Scores, NEW u \in Users, NEW v \in Users,
         Position(b, v) = Position(b, u) + 1, b[u] # b[v]
  PROVE  RankOf(b, b[v]) = Position(b, v)
<1>1. \A w \in Users : b[w] \in Nat /\ w \in Nat /\ Position(b, w) \in Nat
  BY BoardAssumption, Places DEF Scores
<1>2. u # v /\ ~Above(b, v, u)
  BY <1>1, Places
<1>3. b[u] > b[v]
  BY <1>1, <1>2, Places DEF Above
<1>4. ASSUME NEW w \in Users, b[w] = b[v] PROVE ~Above(b, w, v)
  <2>1. Above(b, u, w)
    BY <1>3, <1>4 DEF Above
  <2>2. Position(b, u) < Position(b, w)
    BY <2>1, Places
  <2>3. ~(Position(b, w) < Position(b, v))
    BY <1>1, <2>2
  <2> QED  BY <2>3, Places
<1>5. {w \in Users : Above(b, w, v)} = {w \in Users : b[w] > b[v]}
  BY <1>1, <1>4 DEF Above
<1> QED  BY <1>5 DEF Position, RankOf
----------------------------------------------------------------------------
(* What a query asked for, read from board b. *)
AskOK(kind, ask, b) ==
  /\ ask.users \in Seq(Users)
  /\ DOMAIN ask.scores = 1..Len(ask.users)
  /\ \A k \in 1..Len(ask.users) : ask.scores[k] = b[ask.users[k]]
  /\ kind = "page" => ask.offset \in Nat /\ IsPageAt(ask.users, b, ask.offset)
  /\ kind = "user" => Len(ask.users) = 1

LEMMA AskIs ==
  ASSUME NEW b \in Scores, NEW kind, NEW ask, AskOK(kind, ask, b)
  PROVE  /\ Len(ask.users) \in Nat /\ DOMAIN ask.users = 1..Len(ask.users)
         /\ ask.users # << >> => 1 \in 1..Len(ask.users)
         /\ \A k \in 1..Len(ask.users) : ask.users[k] \in Users /\ ask.scores[k] \in Nat
         /\ kind = "page" => \A k \in 1..Len(ask.users) : ask.scores[k] > 0
<1>1. ask.users \in Seq(Users)
  BY DEF AskOK
<1>2. Len(ask.users) \in Nat /\ DOMAIN ask.users = 1..Len(ask.users) /\ \A k \in 1..Len(ask.users) : ask.users[k] \in Users
  BY <1>1
<1>3. ask.users # << >> => 1 \in 1..Len(ask.users)
  BY <1>1
<1>4. \A k \in 1..Len(ask.users) : ask.scores[k] \in Nat
  BY <1>2 DEF AskOK, Scores
<1>5. ASSUME kind = "page", NEW k \in 1..Len(ask.users) PROVE ask.scores[k] > 0
  <2>1. ask.users \in Seq(Ranked(b))
    BY <1>5 DEF AskOK, IsPageAt
  <2>2. ask.users[k] \in Ranked(b)
    BY <1>5, <2>1
  <2> QED  BY <1>5, <2>2 DEF Ranked, AskOK
<1> QED  BY <1>2, <1>3, <1>4, <1>5

(* The ranks of a page are the competition ranks of its scores, but for    *)
(* the first score.  Least counterexamples take the place of an induction. *)
LEMMA PageRanksAre ==
  ASSUME NEW b \in Scores, NEW ask, AskOK("page", ask, b), NEW first
  PROVE  /\ DOMAIN PageRanks(ask, first) = 1..Len(ask.users)
         /\ \A k \in 1..Len(ask.users) :
              PageRanks(ask, first)[k] =
                IF ask.scores[k] = ask.scores[1] THEN first ELSE RankOf(b, ask.scores[k])
<1> DEFINE n == Len(ask.users)
           s == ask.scores
           rank[k \in DOMAIN ask.users] ==
             IF k = 1 THEN first ELSE IF s[k] # s[k - 1] THEN ask.offset + k ELSE rank[k - 1]
           Body(g) == [k \in DOMAIN ask.users |->
             IF k = 1 THEN first ELSE IF s[k] # s[k - 1] THEN ask.offset + k ELSE g[k - 1]]
           Exact(k) == IF s[k] = s[1] THEN first ELSE RankOf(b, s[k])
           f == [k \in DOMAIN ask.users |-> Exact(k)]
<1>0. n \in Nat /\ DOMAIN ask.users = 1..n /\ \A k \in 1..n : ask.users[k] \in Users /\ s[k] \in Nat
  BY AskIs
<1>1. IsPageAt(ask.users, b, ask.offset) /\ ask.offset \in Nat /\ \A k \in 1..n : s[k] = b[ask.users[k]]
  BY DEF AskOK
<1>2. ASSUME NEW k \in 1..n, k # 1
      PROVE  Exact(k) = IF s[k] # s[k - 1] THEN ask.offset + k ELSE Exact(k - 1)
  <2>0. k - 1 \in 1..n /\ 1 \in 1..n /\ k \in Nat
    BY <1>0, <1>2
  <2>1. CASE s[k] # s[k - 1]
    <3>1. Position(b, ask.users[k]) = Position(b, ask.users[k - 1]) + 1
      <4>1. Position(b, ask.users[k]) = ask.offset + k
        BY <1>1 DEF IsPageAt
      <4>2. Position(b, ask.users[k - 1]) = ask.offset + (k - 1)
        BY <1>1, <2>0 DEF IsPageAt
      <4>3. ask.offset \in Nat /\ k \in Nat
        BY <1>1, <2>0
      <4>4. ask.offset + k = ask.offset + (k - 1) + 1
        BY <4>3
      <4> QED  BY <4>1, <4>2, <4>4
    <3>2. RankOf(b, s[k]) = ask.offset + k
      <4>1. b[ask.users[k - 1]] # b[ask.users[k]] /\ ask.users[k] \in Users /\ ask.users[k - 1] \in Users
        BY <1>0, <1>1, <2>0, <2>1
      <4>2. RankOf(b, b[ask.users[k]]) = Position(b, ask.users[k])
        BY <3>1, <4>1, PlaceIsRank
      <4> QED  BY <1>1, <4>2 DEF IsPageAt
    <3>3. s[k - 1] >= s[k] /\ s[1] >= s[k - 1]
      <4>1. s[k - 1] >= s[k]
        BY <1>1, <2>0, ScoresFall
      <4>2. k - 1 = 1 \/ s[1] >= s[k - 1]
        BY <1>1, <2>0, ScoresFall
      <4> QED  BY <1>0, <2>0, <4>1, <4>2
    <3>4. s[k] # s[1]
      BY <1>0, <2>0, <2>1, <3>3
    <3> QED  BY <2>1, <3>2, <3>4
  <2>2. CASE s[k] = s[k - 1]
    BY <2>2
  <2> QED  BY <2>1, <2>2
<1>3. \A k \in 1..n : k = 1 \/ k - 1 \in 1..n
  BY <1>0
<1>4. f = Body(f)
  <2>1. ASSUME NEW k \in 1..n
        PROVE  Exact(k) = IF k = 1 THEN first ELSE IF s[k] # s[k - 1] THEN ask.offset + k ELSE f[k - 1]
    <3> HIDE DEF Exact
    <3>1. CASE k = 1
      BY <3>1 DEF Exact
    <3>2. CASE k # 1
      <4>1. f[k - 1] = Exact(k - 1)
        BY <1>0, <1>3, <3>2
      <4> QED  BY <1>2, <3>2, <4>1
    <3> QED  BY <3>1, <3>2
  <2> HIDE DEF Exact
  <2> QED  BY <1>0, <2>1
<1>5. rank = Body(rank)
  <2>1. rank = CHOOSE g : g = Body(g)
    BY DEF rank
  <2> HIDE DEF rank, Body, f
  <2> QED  BY <1>4, <2>1
<1>6. PageRanks(ask, first) = rank
  BY DEF PageRanks
<1> HIDE DEF rank
<1>7. DOMAIN rank = 1..n /\ \A k \in 1..n : rank[k] = IF k = 1 THEN first ELSE IF s[k] # s[k - 1] THEN ask.offset + k ELSE rank[k - 1]
  BY <1>0, <1>5
<1>8. \A k \in 1..n : f[k] = IF k = 1 THEN first ELSE IF s[k] # s[k - 1] THEN ask.offset + k ELSE f[k - 1]
  <2> HIDE DEF f
  <2> QED  BY <1>0, <1>4
<1>9. \A k \in 1..n : f[k] = Exact(k)
  BY <1>0
<1> HIDE DEF Body, f, Exact
<1>10. \A k \in 1..n : rank[k] = f[k]
  <2> DEFINE S == {m \in 1..n : rank[m] # f[m]}
  <2> SUFFICES ASSUME S # {} PROVE FALSE
    OBVIOUS
  <2>1. PICK m \in S : \A j \in S : m <= j
    <3>1. S \in SUBSET Nat
      OBVIOUS
    <3> HIDE DEF S
    <3> QED  BY <3>1, PageAssumed, Page!Least
  <2>2. m # 1
    BY <1>7, <1>8
  <2>3. m - 1 \in 1..n /\ m - 1 \notin S
    BY <1>0, <2>1, <2>2
  <2> QED  BY <1>7, <1>8, <2>2, <2>3
<1> QED  BY <1>6, <1>7, <1>9, <1>10 DEF Exact----------------------------------------------------------------------------
(* The two counts, and how far the events between them move their result. *)
Reached(b, s) == {u \in Users : b[u] >= s}
Higher(b, s) == {u \in Users : b[u] > s}
Tied(b, s) == {u \in Users : b[u] = s}
Moved(b, c) == {u \in Users : b[u] # c[u]}
NotBelow(b, c) == \A u \in Users : b[u] <= c[u]

LEMMA Counted ==
  ASSUME NEW S \in SUBSET Users
  PROVE  IsFiniteSet(S) /\ Cardinality(S) \in Nat
<1>1. IsFiniteSet(S)
  BY BoardAssumption, FS_Subset
<1> QED  BY <1>1, FS_CardinalityType

LEMMA DisjointCount ==
  ASSUME NEW S \in SUBSET Users, NEW T \in SUBSET Users, S \cap T = {}
  PROVE  Cardinality(S \cup T) = Cardinality(S) + Cardinality(T)
<1>1. IsFiniteSet(S) /\ IsFiniteSet(T) /\ Cardinality(S) \in Nat /\ Cardinality(T) \in Nat
  BY Counted
<1>2. Cardinality(S \cup T) = Cardinality(S) + Cardinality(T) - Cardinality(S \cap T)
  BY <1>1, FS_Union
<1>3. Cardinality(S \cap T) = 0
  BY FS_EmptySet
<1> QED  BY <1>1, <1>2, <1>3

LEMMA RankIsFromCounts ==
  ASSUME NEW b \in Scores, NEW s \in Nat
  PROVE  /\ Cardinality(Reached(b, s)) \in Nat /\ Cardinality(Tied(b, s)) \in Nat
         /\ RankOf(b, s) \in Nat \ {0}
         /\ RankOf(b, s) = Cardinality(Reached(b, s)) - Cardinality(Tied(b, s)) + 1
<1>1. /\ Reached(b, s) \in SUBSET Users /\ Higher(b, s) \in SUBSET Users /\ Tied(b, s) \in SUBSET Users
      /\ Higher(b, s) \cap Tied(b, s) = {} /\ Reached(b, s) = Higher(b, s) \cup Tied(b, s)
  BY DEF Scores, Reached, Higher, Tied
<1>2. /\ Cardinality(Reached(b, s)) \in Nat /\ Cardinality(Tied(b, s)) \in Nat
      /\ Cardinality(Higher(b, s)) \in Nat
  BY <1>1, Counted
<1>3. Cardinality(Reached(b, s)) = Cardinality(Higher(b, s)) + Cardinality(Tied(b, s))
  BY <1>1, DisjointCount
<1>4. RankOf(b, s) = 1 + Cardinality(Higher(b, s))
  BY DEF RankOf, Higher
<1> QED  BY <1>2, <1>3, <1>4

LEMMA AtLeastIs ==
  ASSUME board \in Scores, NEW s \in Nat, s > 0
  PROVE  AtLeast(s) = Cardinality(Reached(board, s)) /\ Exactly(s) = Cardinality(Tied(board, s))
<1>1. \A u \in Users : board[u] \in Nat
  BY DEF Scores
<1>2. {u \in Ranked(board) : board[u] >= s} = Reached(board, s)
  BY <1>1 DEF Ranked, Reached
<1>3. {u \in Ranked(board) : board[u] = s} = Tied(board, s)
  BY <1>1 DEF Ranked, Tied
<1> QED  BY <1>2, <1>3 DEF AtLeast, Exactly

(* What the first count found, if nothing was lost since the query read    *)
(* board b: who was there, and some who came since.                        *)
CountedOn(ge, s, b, c) ==
  \E up \in SUBSET (Reached(c, s) \ Reached(b, s)) : ge = Cardinality(Reached(b, s)) + Cardinality(up)

Near(r, s, b, m) == r \in (RankOf(b, s) - m)..(RankOf(b, s) + m)

LEMMA RankIsNear ==
  ASSUME NEW b \in Scores, NEW c \in Scores, NotBelow(b, c), NEW s \in Nat,
         NEW m \in Nat, Cardinality(Moved(b, c)) <= m, NEW ge, CountedOn(ge, s, b, c)
  PROVE  Near(CompetitionRank(ge, Cardinality(Tied(c, s))), s, b, m)
<1>1. PICK up \in SUBSET (Reached(c, s) \ Reached(b, s)) : ge = Cardinality(Reached(b, s)) + Cardinality(up)
  BY DEF CountedOn
<1> DEFINE left == Tied(b, s) \ Tied(c, s)
           came == Tied(c, s) \ Tied(b, s)
           kept == Tied(b, s) \cap Tied(c, s)
           moved == Moved(b, c)
<1>2. \A u \in Users : b[u] \in Nat /\ c[u] \in Nat
  BY DEF Scores
<1>3. /\ left \in SUBSET Users /\ came \in SUBSET Users /\ kept \in SUBSET Users
      /\ moved \in SUBSET Users /\ up \in SUBSET Users
  BY DEF Tied, Moved, Reached
<1>4. up \cap left = {} /\ up \subseteq moved
  BY <1>2 DEF Reached, Tied, Moved
<1>5. left \subseteq moved /\ came \subseteq moved
  BY DEF Tied, Moved
<1>6. /\ left \cap kept = {} /\ Tied(b, s) = left \cup kept
      /\ came \cap kept = {} /\ Tied(c, s) = came \cup kept
  OBVIOUS
<1> HIDE DEF left, came, kept, moved
<1>7. /\ Cardinality(left) \in Nat /\ Cardinality(came) \in Nat /\ Cardinality(kept) \in Nat
      /\ Cardinality(up) \in Nat /\ Cardinality(moved) \in Nat /\ IsFiniteSet(moved)
  BY <1>3, Counted
<1>8. /\ Cardinality(Tied(b, s)) = Cardinality(left) + Cardinality(kept)
      /\ Cardinality(Tied(c, s)) = Cardinality(came) + Cardinality(kept)
  BY <1>3, <1>6, DisjointCount
<1>9. Cardinality(up) + Cardinality(left) <= Cardinality(moved)
  <2>1. Cardinality(up \cup left) = Cardinality(up) + Cardinality(left)
    BY <1>3, <1>4, DisjointCount
  <2>2. up \cup left \in SUBSET moved
    BY <1>4, <1>5
  <2>3. Cardinality(up \cup left) <= Cardinality(moved)
    BY <1>7, <2>2, FS_Subset
  <2> QED  BY <2>1, <2>3
<1>10. Cardinality(came) <= Cardinality(moved)
  BY <1>5, <1>7, FS_Subset
<1>11. /\ Cardinality(Reached(b, s)) \in Nat /\ RankOf(b, s) \in Nat \ {0}
       /\ RankOf(b, s) = Cardinality(Reached(b, s)) - Cardinality(Tied(b, s)) + 1
  BY RankIsFromCounts
<1>12. Cardinality(moved) <= m
  BY DEF moved
<1>13. CompetitionRank(ge, Cardinality(Tied(c, s))) =
         RankOf(b, s) + Cardinality(up) + Cardinality(left) - Cardinality(came)
  BY <1>1, <1>7, <1>8, <1>11 DEF CompetitionRank
<1> DEFINE r == CompetitionRank(ge, Cardinality(Tied(c, s)))
<1>14. r \in Int /\ RankOf(b, s) - m <= r /\ r <= RankOf(b, s) + m
  <2> HIDE DEF r
  <2>1. r = RankOf(b, s) + Cardinality(up) + Cardinality(left) - Cardinality(came)
    BY <1>13 DEF r
  <2> QED  BY <1>7, <1>9, <1>10, <1>11, <1>12, <2>1
<1> QED  BY <1>11, <1>14 DEF Near----------------------------------------------------------------------------
(* The invariant: of the board since the query's first command (d), of     *)
(* the query being served, and of the last answer.                         *)
Spans == [first : Scores, moves : Nat, losses : Nat]

BoardFits(b, d) ==
  /\ b \in Scores /\ d \in Spans
  /\ d.losses = 0 => NotBelow(d.first, b) /\ Cardinality(Moved(d.first, b)) <= d.moves

HasScore(ask) == ask.users # << >> /\ ask.scores[1] > 0
NearUnlessLost(r, s, d) == d.losses = 0 => Near(r, s, d.first, d.moves)

QueryFits(q, b, d) ==
  \/ q = Idle
  \/ /\ q.kind \in {"page", "user"} /\ AskOK(q.kind, q.ask, d.first)
     /\ \/ q.pc = "greaterOrEqual" /\ HasScore(q.ask)
        \/ /\ q.pc = "equal" /\ HasScore(q.ask)
           /\ d.losses = 0 => CountedOn(q.ge, q.ask.scores[1], d.first, b)
        \/ /\ q.pc = "total" /\ q.kind = "page"
           /\ q.ask.users # << >> => NearUnlessLost(q.rank, q.ask.scores[1], d)

PageFits(a, d) ==
  /\ AskOK("page", a.ask, d.first)
  /\ DOMAIN a.ranks = 1..Len(a.ask.users)
  /\ a.ask.users # << >> => NearUnlessLost(a.ranks[1], a.ask.scores[1], d)
  /\ \A k \in 1..Len(a.ask.users) :
       a.ranks[k] = IF a.ask.scores[k] = a.ask.scores[1] THEN a.ranks[1]
                    ELSE RankOf(d.first, a.ask.scores[k])
  /\ d.moves = 0 /\ d.losses = 0 => a.total = Cardinality(Ranked(d.first))
UserFits(a, d) ==
  /\ AskOK("user", a.ask, d.first)
  /\ IF a.ask.scores[1] = 0 THEN a.rank = NoRank ELSE NearUnlessLost(a.rank, a.ask.scores[1], d)
RefusalFits(a, d) ==
  /\ AskOK("page", a.ask, d.first) \/ AskOK("user", a.ask, d.first)
  /\ HasScore(a.ask) /\ a.rank <= 0 /\ NearUnlessLost(a.rank, a.ask.scores[1], d)

AnswerFits(a, d) ==
  \/ a = NoAnswer
  \/ a.kind = "page" /\ PageFits(a, d)
  \/ a.kind = "user" /\ UserFits(a, d)
  \/ a.kind = "refused" /\ RefusalFits(a, d)

Inv == BoardFits(board, during) /\ QueryFits(query, board, during) /\ AnswerFits(answer, during)

----------------------------------------------------------------------------
(* What an event or a loss changes. *)
Later(d, e) ==
  /\ d \in Spans /\ e \in Spans
  /\ e.first = d.first /\ d.moves <= e.moves /\ d.losses <= e.losses

LEMMA NearStays ==
  ASSUME NEW d, NEW e, Later(d, e), NEW s \in Nat, NEW r, NearUnlessLost(r, s, d)
  PROVE  NearUnlessLost(r, s, e)
<1> SUFFICES ASSUME e.losses = 0 PROVE Near(r, s, e.first, e.moves)
  BY DEF NearUnlessLost
<1>1. d.first \in Scores /\ d.moves \in Nat /\ e.moves \in Nat /\ d.losses \in Nat
  BY DEF Later, Spans
<1>2. d.losses = 0 /\ e.first = d.first /\ d.moves <= e.moves
  BY <1>1 DEF Later
<1>3. Near(r, s, d.first, d.moves)
  BY <1>2 DEF NearUnlessLost
<1>4. RankOf(d.first, s) \in Nat
  BY <1>1, RankIsFromCounts
<1> QED  BY <1>1, <1>2, <1>3, <1>4 DEF Near

LEMMA QueryStays ==
  ASSUME NEW q, NEW b, NEW d, NEW c, NEW e, Later(d, e), QueryFits(q, b, d),
         b \in Scores, c \in Scores, e.losses = 0 => NotBelow(b, c)
  PROVE  QueryFits(q, c, e)
<1> SUFFICES ASSUME q # Idle PROVE QueryFits(q, c, e)
  BY DEF QueryFits
<1>1. q.kind \in {"page", "user"} /\ AskOK(q.kind, q.ask, d.first)
  BY DEF QueryFits
<1>2. e.first = d.first /\ d.first \in Scores /\ (e.losses = 0 => d.losses = 0)
  BY DEF Later, Spans
<1>3. AskOK(q.kind, q.ask, e.first)
  BY <1>1, <1>2
<1>4. q.ask.users # << >> => q.ask.scores[1] \in Nat
  BY <1>1, <1>2, AskIs
<1>5. CASE q.pc = "greaterOrEqual" /\ HasScore(q.ask)
  BY <1>1, <1>3, <1>5 DEF QueryFits
<1>6. CASE q.pc = "equal" /\ HasScore(q.ask) /\ (d.losses = 0 => CountedOn(q.ge, q.ask.scores[1], d.first, b))
  <2>1. ASSUME e.losses = 0 PROVE CountedOn(q.ge, q.ask.scores[1], e.first, c)
    <3>1. q.ask.scores[1] \in Nat
      BY <1>4, <1>6 DEF HasScore
    <3>2. \A u \in Users : b[u] \in Nat /\ c[u] \in Nat /\ b[u] <= c[u]
      BY <2>1 DEF Scores, NotBelow
    <3>3. Reached(b, q.ask.scores[1]) \subseteq Reached(c, q.ask.scores[1])
      BY <3>1, <3>2 DEF Reached
    <3>4. CountedOn(q.ge, q.ask.scores[1], d.first, b)
      BY <1>2, <1>6, <2>1
    <3> QED  BY <1>2, <3>3, <3>4 DEF CountedOn
  <2> QED  BY <1>1, <1>3, <1>6, <2>1 DEF QueryFits
<1>7. CASE q.pc = "total" /\ q.kind = "page" /\ (q.ask.users # << >> => NearUnlessLost(q.rank, q.ask.scores[1], d))
  <2>1. ASSUME q.ask.users # << >> PROVE NearUnlessLost(q.rank, q.ask.scores[1], e)
    BY <1>4, <1>7, <2>1, NearStays
  <2> QED  BY <1>1, <1>3, <1>7, <2>1 DEF QueryFits
<1> QED  BY <1>5, <1>6, <1>7 DEF QueryFits

LEMMA AnswerStays ==
  ASSUME NEW a, NEW d, NEW e, Later(d, e), AnswerFits(a, d)
  PROVE  AnswerFits(a, e)
<1>1. e.first = d.first /\ d.first \in Scores
  BY DEF Later, Spans
<1>2. e.moves = 0 /\ e.losses = 0 => d.moves = 0 /\ d.losses = 0
  BY DEF Later, Spans
<1>3. ASSUME PageFits(a, d) PROVE PageFits(a, e)
  <2>1. AskOK("page", a.ask, d.first)
    BY <1>3 DEF PageFits
  <2>2. a.ask.users # << >> => a.ask.scores[1] \in Nat
    BY <1>1, <2>1, AskIs
  <2>3. ASSUME a.ask.users # << >> PROVE NearUnlessLost(a.ranks[1], a.ask.scores[1], e)
    <3>1. NearUnlessLost(a.ranks[1], a.ask.scores[1], d)
      BY <1>3, <2>3 DEF PageFits
    <3> QED  BY <2>2, <2>3, <3>1, NearStays
  <2> QED  BY <1>1, <1>2, <1>3, <2>3 DEF PageFits
<1>4. ASSUME UserFits(a, d) PROVE UserFits(a, e)
  <2>1. AskOK("user", a.ask, d.first) /\ Len(a.ask.users) = 1
    BY <1>4 DEF UserFits, AskOK
  <2>2. a.ask.scores[1] \in Nat
    BY <1>1, <2>1, AskIs
  <2>3. ASSUME a.ask.scores[1] # 0 PROVE NearUnlessLost(a.rank, a.ask.scores[1], e)
    BY <1>4, <2>2, <2>3, NearStays DEF UserFits
  <2> QED  BY <1>1, <1>4, <2>3 DEF UserFits
<1>5. ASSUME RefusalFits(a, d) PROVE RefusalFits(a, e)
  <2>1. a.ask.scores[1] \in Nat
    BY <1>1, <1>5, AskIs DEF RefusalFits, HasScore
  <2>2. NearUnlessLost(a.rank, a.ask.scores[1], e)
    BY <1>5, <2>1, NearStays DEF RefusalFits
  <2> QED  BY <1>1, <1>5, <2>2 DEF RefusalFits
<1> QED  BY <1>3, <1>4, <1>5 DEF AnswerFits

LEMMA ApplyEventKeeps ==
  ASSUME Inv, NEW u \in Users, NEW p \in Deltas, ApplyEvent(u, p)
  PROVE  Inv'
<1>1. board \in Scores /\ during \in Spans /\ p \in Nat \ {0}
  BY RankingAssumption DEF Inv, BoardFits
<1>2. /\ board' = [board EXCEPT ![u] = @ + p] /\ query' = query /\ answer' = answer
      /\ during' = [during EXCEPT !.moves = @ + 1]
  BY DEF ApplyEvent
<1>3. /\ during'.first = during.first /\ during'.moves = during.moves + 1
      /\ during'.losses = during.losses /\ during' \in Spans
  BY <1>1, <1>2 DEF Spans
<1>4. board' \in Scores
  BY <1>1, <1>2 DEF Scores
<1>5. \A v \in Users : board[v] \in Nat /\ board'[v] \in Nat /\ board[v] <= board'[v] /\ (v # u => board'[v] = board[v])
  BY <1>1, <1>2 DEF Scores
<1>6. Later(during, during')
  <2>1. during.moves \in Nat /\ during.losses \in Nat
    BY <1>1 DEF Spans
  <2> QED  BY <1>1, <1>3, <2>1 DEF Later
<1>7. BoardFits(board', during')
  <2>1. ASSUME during'.losses = 0
        PROVE  /\ NotBelow(during'.first, board')
               /\ Cardinality(Moved(during'.first, board')) <= during'.moves
    <3> DEFINE first == during.first
               before == Moved(first, board)
               after == Moved(first, board')
    <3>1. first \in Scores /\ during.moves \in Nat
      BY <1>1 DEF Spans
    <3>2. NotBelow(first, board) /\ Cardinality(before) <= during.moves
      BY <1>3, <2>1 DEF Inv, BoardFits
    <3>3. before \in SUBSET Users /\ after \subseteq before \cup {u}
      BY <1>5 DEF Moved
    <3>4. NotBelow(first, board')
      <4>1. \A v \in Users : first[v] \in Nat
        BY <3>1 DEF Scores
      <4> HIDE DEF first
      <4> QED  BY <1>5, <3>2, <4>1 DEF NotBelow
    <3> HIDE DEF before, after
    <3>5. IsFiniteSet(before) /\ Cardinality(before) \in Nat
      BY <3>3, Counted
    <3>6. /\ IsFiniteSet(before \cup {u})
          /\ Cardinality(before \cup {u}) = IF u \in before THEN Cardinality(before) ELSE Cardinality(before) + 1
      BY <3>5, FS_AddElement
    <3>7. Cardinality(after) <= Cardinality(before \cup {u})
      BY <3>3, <3>6, FS_Subset
    <3>8. Cardinality(after) \in Nat
      BY <3>3, Counted
    <3>9. Cardinality(after) <= during.moves + 1
      BY <3>1, <3>2, <3>5, <3>6, <3>7, <3>8
    <3> QED  BY <1>3, <3>4, <3>9 DEF after
  <2> QED  BY <1>3, <1>4, <2>1 DEF BoardFits
<1>8. QueryFits(query', board', during')
  <2>1. NotBelow(board, board')
    BY <1>5 DEF NotBelow
  <2>2. QueryFits(query, board', during')
    BY <1>1, <1>4, <1>6, <2>1, QueryStays DEF Inv
  <2> QED  BY <1>2, <2>2
<1>9. AnswerFits(answer', during')
  BY <1>2, <1>6, AnswerStays DEF Inv
<1> QED  BY <1>7, <1>8, <1>9 DEF Inv

LEMMA LoseBoardKeeps == ASSUME Inv, LoseBoard PROVE Inv'
<1>1. board \in Scores /\ during \in Spans
  BY DEF Inv, BoardFits
<1>2. /\ board' = [u \in Users |-> 0] /\ query' = query /\ answer' = answer
      /\ during' = [during EXCEPT !.losses = @ + 1]
  BY DEF LoseBoard
<1>3. /\ during'.first = during.first /\ during'.moves = during.moves
      /\ during'.losses = during.losses + 1 /\ during' \in Spans
  BY <1>1, <1>2 DEF Spans
<1>4. board' \in Scores
  BY <1>2 DEF Scores
<1>5. during.moves \in Nat /\ during.losses \in Nat
  BY <1>1 DEF Spans
<1>6. Later(during, during') /\ during'.losses # 0
  BY <1>1, <1>3, <1>5 DEF Later
<1>7. BoardFits(board', during')
  BY <1>3, <1>4, <1>6 DEF BoardFits
<1>8. QueryFits(query', board', during')
  <2>1. QueryFits(query, board', during')
    BY <1>1, <1>4, <1>6, QueryStays DEF Inv
  <2> QED  BY <1>2, <2>1
<1>9. AnswerFits(answer', during')
  BY <1>2, <1>6, AnswerStays DEF Inv
<1> QED  BY <1>7, <1>8, <1>9 DEF Inv----------------------------------------------------------------------------
(* The commands of the queries. *)
LEMMA StartFits ==
  ASSUME board \in Scores, Started, board' = board
  PROVE  BoardFits(board', during') /\ during'.first = board
<1>1. /\ during' = [first |-> board, moves |-> 0, losses |-> 0]
      /\ during' \in Spans /\ during'.first = board /\ during'.moves = 0
  BY DEF Started, Spans
<1>2. NotBelow(board, board)
  BY DEF NotBelow, Scores
<1>3. Moved(board, board) = {}
  BY DEF Moved
<1>4. Cardinality(Moved(board, board)) <= 0
  BY <1>3, FS_EmptySet
<1> QED  BY <1>1, <1>2, <1>4 DEF BoardFits

LEMMA InvInitially == Init => Inv
<1> SUFFICES ASSUME Init PROVE Inv
  OBVIOUS
<1>1. board \in Scores
  BY RankingAssumption DEF Init, Scores
<1>2. /\ during = [first |-> board, moves |-> 0, losses |-> 0]
      /\ during \in Spans /\ during.first = board /\ during.moves = 0
  BY <1>1 DEF Init, Spans
<1>3. NotBelow(board, board)
  BY <1>1 DEF NotBelow, Scores
<1>4. Cardinality(Moved(board, board)) <= 0
  <2>1. Moved(board, board) = {}
    BY DEF Moved
  <2> QED  BY <2>1, FS_EmptySet
<1>5. BoardFits(board, during)
  BY <1>1, <1>2, <1>3, <1>4 DEF BoardFits
<1> QED  BY <1>5 DEF Inv, Init, QueryFits, AnswerFits

LEMMA GetTopRanksKeeps ==
  ASSUME Inv, NEW offset \in 0..MaxOffset, NEW limit \in 1..MaxLimit, GetTopRanks(offset, limit)
  PROVE  Inv'
<1> DEFINE page == ReverseRange(board, offset, limit)
           ask == [offset |-> offset, users |-> page,
                   scores |-> [k \in DOMAIN page |-> board[page[k]]]]
<1>0. board \in Scores /\ offset \in Nat /\ limit \in Nat
  BY RankingAssumption DEF Inv, BoardFits
<1>1. /\ board' = board /\ answer' = NoAnswer /\ Started
      /\ query' = IF NothingToRank(page)
                  THEN [pc |-> "total", kind |-> "page", ask |-> ask, rank |-> NoRank]
                  ELSE [pc |-> "greaterOrEqual", kind |-> "page", ask |-> ask]
  BY DEF GetTopRanks
<1>2. BoardFits(board', during') /\ during'.first = board
  BY <1>0, <1>1, StartFits
<1>3. IsPageAt(page, board, offset) /\ page \in Seq(Ranked(board))
  BY <1>0, ReverseRangeIsPage DEF IsPageAt
<1> HIDE DEF page
<1>4. page \in Seq(Users) /\ DOMAIN page = 1..Len(page)
  <2>1. Ranked(board) \subseteq Users
    BY DEF Ranked
  <2> QED  BY <1>3, <2>1
<1>5. /\ ask.users = page /\ ask.offset = offset /\ DOMAIN ask.scores = 1..Len(page)
      /\ \A k \in 1..Len(page) : ask.scores[k] = board[page[k]]
  BY <1>4
<1> HIDE DEF ask
<1>6. AskOK("page", ask, board)
  BY <1>0, <1>3, <1>4, <1>5 DEF AskOK
<1>7. QueryFits(query', board', during')
  <2>1. CASE page = << >>
    <3>1. query' = [pc |-> "total", kind |-> "page", ask |-> ask, rank |-> NoRank]
      BY <1>1, <2>1 DEF NothingToRank
    <3> QED  BY <1>2, <1>5, <1>6, <2>1, <3>1 DEF QueryFits
  <2>2. CASE page # << >>
    <3>1. query' = [pc |-> "greaterOrEqual", kind |-> "page", ask |-> ask]
      BY <1>1, <2>2 DEF NothingToRank
    <3>2. HasScore(ask)
      BY <1>0, <1>5, <1>6, <2>2, AskIs DEF HasScore
    <3> QED  BY <1>2, <1>6, <3>1, <3>2 DEF QueryFits
  <2> QED  BY <2>1, <2>2
<1>8. AnswerFits(answer', during')
  BY <1>1 DEF AnswerFits
<1> QED  BY <1>2, <1>7, <1>8 DEF Inv

LEMMA GetUserRankKeeps == ASSUME Inv, NEW u \in Users, GetUserRank(u) PROVE Inv'
<1> DEFINE ask(s) == [users |-> <<u>>, scores |-> <<s>>]
<1>0. board \in Scores /\ board[u] \in Nat /\ query = Idle
  BY DEF Inv, BoardFits, Scores, GetUserRank
<1>1. board' = board /\ Started
  BY DEF GetUserRank
<1>2. BoardFits(board', during') /\ during'.first = board
  BY <1>0, <1>1, StartFits
<1>3. /\ ask(board[u]).users = <<u>> /\ ask(board[u]).scores = <<board[u]>>
      /\ <<u>> \in Seq(Users) /\ Len(<<u>>) = 1 /\ DOMAIN <<board[u]>> = 1..1
      /\ ask(board[u]).scores[1] = board[u] /\ ask(board[u]).users[1] = u /\ ask(board[u]).users # << >>
  OBVIOUS
<1>4. AskOK("user", ask(board[u]), board)
  <2> HIDE DEF ask
  <2>1. \A k \in 1..1 : k = 1
    OBVIOUS
  <2> QED  BY <1>3, <2>1 DEF AskOK
<1>5. CASE board[u] = 0
  <2>1. /\ query' = Idle
        /\ answer' = [kind |-> "user", ask |-> ask(board[u]), rank |-> NoRank]
    BY <1>5 DEF GetUserRank, Reply
  <2> HIDE DEF ask
  <2>2. UserFits(answer', during')
    BY <1>2, <1>3, <1>4, <1>5, <2>1 DEF UserFits
  <2>3. AnswerFits(answer', during')
    BY <2>1, <2>2 DEF AnswerFits
  <2>4. QueryFits(query', board', during')
    BY <2>1 DEF QueryFits
  <2> QED  BY <1>2, <2>3, <2>4 DEF Inv
<1>6. CASE board[u] # 0
  <2>1. /\ query' = [pc |-> "greaterOrEqual", kind |-> "user", ask |-> ask(board[u])]
        /\ answer' = NoAnswer
    BY <1>6 DEF GetUserRank
  <2> HIDE DEF ask
  <2>2. HasScore(ask(board[u]))
    BY <1>0, <1>3, <1>6 DEF HasScore
  <2>3. QueryFits(query', board', during')
    BY <1>2, <1>4, <2>1, <2>2 DEF QueryFits
  <2>4. AnswerFits(answer', during')
    BY <2>1 DEF AnswerFits
  <2> QED  BY <1>2, <2>3, <2>4 DEF Inv
<1> QED  BY <1>5, <1>6

LEMMA CountGreaterOrEqualKeeps == ASSUME Inv, CountGreaterOrEqual PROVE Inv'
<1> DEFINE s == query.ask.scores[1]
           first == during.first
<1>1. /\ board' = board /\ answer' = answer /\ during' = during
      /\ query' = [pc |-> "equal", kind |-> query.kind, ask |-> query.ask, ge |-> AtLeast(s)]
      /\ query.pc = "greaterOrEqual"
  BY DEF CountGreaterOrEqual
<1>2. board \in Scores /\ during \in Spans /\ first \in Scores
  BY DEF Inv, BoardFits, Spans
<1>3. query.kind \in {"page", "user"} /\ AskOK(query.kind, query.ask, first) /\ HasScore(query.ask)
  BY <1>1 DEF Inv, QueryFits, Idle
<1>4. s \in Nat /\ s > 0
  BY <1>2, <1>3, AskIs DEF HasScore
<1>5. ASSUME during.losses = 0 PROVE CountedOn(AtLeast(s), s, first, board)
  <2> DEFINE up == Reached(board, s) \ Reached(first, s)
  <2>1. NotBelow(first, board)
    BY <1>5 DEF Inv, BoardFits
  <2> HIDE DEF first, s
  <2>2. \A u \in Users : first[u] \in Nat /\ board[u] \in Nat /\ first[u] <= board[u]
    BY <1>2, <2>1 DEF Scores, NotBelow
  <2>3. Reached(first, s) \subseteq Reached(board, s) /\ Reached(board, s) \subseteq Users
    BY <1>4, <2>2 DEF Reached
  <2>4. /\ up \in SUBSET Users /\ Reached(first, s) \in SUBSET Users
        /\ Reached(first, s) \cap up = {} /\ Reached(board, s) = Reached(first, s) \cup up
    BY <2>3
  <2>5. AtLeast(s) = Cardinality(Reached(first, s)) + Cardinality(up)
    BY <1>2, <1>4, <2>4, AtLeastIs, DisjointCount
  <2> QED  BY <2>5 DEF CountedOn
<1> HIDE DEF first, s
<1>6. QueryFits(query', board', during')
  <2>1. query'.ask.scores[1] = s /\ query'.ask = query.ask /\ query'.kind = query.kind
        /\ query'.pc = "equal" /\ query'.ge = AtLeast(s)
    BY <1>1 DEF s
  <2> QED  BY <1>1, <1>3, <1>5, <2>1 DEF QueryFits, first
<1> QED  BY <1>1, <1>6 DEF Inv

LEMMA CountEqualKeeps == ASSUME Inv, CountEqual PROVE Inv'
<1> DEFINE s == query.ask.scores[1]
           rank == CompetitionRank(query.ge, Exactly(s))
           ask == query.ask
<1>1. board' = board /\ during' = during /\ query.pc = "equal"
  BY DEF CountEqual
<1>2. board \in Scores /\ during \in Spans /\ during.first \in Scores /\ during.moves \in Nat
  BY DEF Inv, BoardFits, Spans
<1>3. /\ query.kind \in {"page", "user"} /\ AskOK(query.kind, ask, during.first) /\ HasScore(ask)
      /\ during.losses = 0 => CountedOn(query.ge, s, during.first, board)
  BY <1>1 DEF Inv, QueryFits, Idle
<1>4. s \in Nat /\ s > 0
  BY <1>2, <1>3, AskIs DEF HasScore
<1>5. NearUnlessLost(rank, s, during)
  <2> SUFFICES ASSUME during.losses = 0 PROVE Near(rank, s, during.first, during.moves)
    BY DEF NearUnlessLost
  <2>1. NotBelow(during.first, board) /\ Cardinality(Moved(during.first, board)) <= during.moves
    BY DEF Inv, BoardFits
  <2>2. Exactly(s) = Cardinality(Tied(board, s))
    BY <1>2, <1>4, AtLeastIs
  <2> QED  BY <1>2, <1>3, <1>4, <2>1, <2>2, RankIsNear
<1>6. CASE rank <= 0
  <2>1. query' = Idle /\ answer' = [kind |-> "refused", ask |-> ask, rank |-> rank]
    BY <1>6 DEF CountEqual, Reply
  <2> HIDE DEF rank
  <2>2. RefusalFits(answer', during')
    BY <1>1, <1>3, <1>5, <1>6, <2>1 DEF RefusalFits
  <2> QED  BY <1>1, <2>1, <2>2 DEF Inv, QueryFits, AnswerFits
<1>7. CASE ~(rank <= 0) /\ query.kind = "user"
  <2>1. query' = Idle /\ answer' = [kind |-> "user", ask |-> ask, rank |-> rank]
    BY <1>7 DEF CountEqual, Reply
  <2> HIDE DEF rank
  <2>2. UserFits(answer', during')
    BY <1>1, <1>3, <1>4, <1>5, <1>7, <2>1 DEF UserFits
  <2> QED  BY <1>1, <2>1, <2>2 DEF Inv, QueryFits, AnswerFits
<1>8. CASE ~(rank <= 0) /\ query.kind # "user"
  <2>1. query' = [pc |-> "total", kind |-> "page", ask |-> ask, rank |-> rank] /\ answer' = answer
    BY <1>8 DEF CountEqual
  <2>2. query.kind = "page"
    BY <1>3, <1>8
  <2> HIDE DEF rank
  <2>3. QueryFits(query', board', during')
    BY <1>1, <1>3, <1>5, <2>1, <2>2 DEF QueryFits
  <2> QED  BY <1>1, <2>1, <2>3 DEF Inv
<1> QED  BY <1>6, <1>7, <1>8

LEMMA CountParticipantsKeeps == ASSUME Inv, CountParticipants PROVE Inv'
<1> DEFINE ask == query.ask
           ranks == PageRanks(ask, query.rank)
<1>1. /\ board' = board /\ during' = during /\ query.pc = "total" /\ query' = Idle
      /\ answer' = [kind |-> "page", ask |-> ask, ranks |-> ranks, total |-> Participants]
  BY DEF CountParticipants, Reply
<1>2. board \in Scores /\ during \in Spans /\ during.first \in Scores
  BY DEF Inv, BoardFits, Spans
<1>3. /\ AskOK("page", ask, during.first)
      /\ ask.users # << >> => NearUnlessLost(query.rank, ask.scores[1], during)
  BY <1>1 DEF Inv, QueryFits, Idle
<1>4. /\ DOMAIN ranks = 1..Len(ask.users)
      /\ \A k \in 1..Len(ask.users) :
           ranks[k] = IF ask.scores[k] = ask.scores[1] THEN query.rank ELSE RankOf(during.first, ask.scores[k])
  BY <1>2, <1>3, PageRanksAre
<1>5. ask.users # << >> => 1 \in 1..Len(ask.users)
  BY <1>2, <1>3, AskIs
<1>6. ASSUME during.moves = 0, during.losses = 0 PROVE Participants = Cardinality(Ranked(during.first))
  <2>1. Cardinality(Moved(during.first, board)) <= 0
    BY <1>6 DEF Inv, BoardFits
  <2>2. IsFiniteSet(Moved(during.first, board)) /\ Cardinality(Moved(during.first, board)) \in Nat
    BY Counted DEF Moved
  <2>3. Moved(during.first, board) = {}
    BY <2>1, <2>2, FS_EmptySet
  <2>4. \A u \in Users : during.first[u] = board[u]
    BY <2>3 DEF Moved
  <2>5. Ranked(during.first) = Ranked(board)
    BY <2>4 DEF Ranked
  <2> QED  BY <2>5 DEF Participants
<1> HIDE DEF ranks
<1>7. ask.users # << >> => NearUnlessLost(ranks[1], ask.scores[1], during)
  BY <1>3, <1>4, <1>5
<1>8. \A k \in 1..Len(ask.users) :
        ranks[k] = IF ask.scores[k] = ask.scores[1] THEN ranks[1] ELSE RankOf(during.first, ask.scores[k])
  <2> SUFFICES ASSUME NEW k \in 1..Len(ask.users)
               PROVE  ranks[k] = IF ask.scores[k] = ask.scores[1] THEN ranks[1]
                                 ELSE RankOf(during.first, ask.scores[k])
    OBVIOUS
  <2>1. 1 \in 1..Len(ask.users)
    <3>1. Len(ask.users) \in Nat
      BY <1>2, <1>3, AskIs
    <3> QED  BY <3>1
  <2> QED  BY <1>4, <2>1
<1>9. PageFits(answer', during')
  BY <1>1, <1>3, <1>4, <1>6, <1>7, <1>8 DEF PageFits
<1>10. AnswerFits(answer', during') /\ QueryFits(query', board', during')
  BY <1>1, <1>9 DEF AnswerFits, QueryFits
<1> QED  BY <1>1, <1>10 DEF Inv

LEMMA InvInductive == Inv /\ [Next]_vars => Inv'
<1> SUFFICES ASSUME Inv, [Next]_vars PROVE Inv'
  OBVIOUS
<1>1. CASE UNCHANGED vars
  BY <1>1 DEF Inv, vars
<1>2. ASSUME NEW u \in Users, NEW d \in Deltas, ApplyEvent(u, d) PROVE Inv'
  BY <1>2, ApplyEventKeeps
<1>3. CASE LoseBoard
  BY <1>3, LoseBoardKeeps
<1>4. ASSUME NEW offset \in 0..MaxOffset, NEW limit \in 1..MaxLimit, GetTopRanks(offset, limit) PROVE Inv'
  BY <1>4, GetTopRanksKeeps
<1>5. ASSUME NEW u \in Users, GetUserRank(u) PROVE Inv'
  BY <1>5, GetUserRankKeeps
<1>6. CASE CountGreaterOrEqual
  BY <1>6, CountGreaterOrEqualKeeps
<1>7. CASE CountEqual
  BY <1>7, CountEqualKeeps
<1>8. CASE CountParticipants
  BY <1>8, CountParticipantsKeeps
<1> QED  BY <1>1, <1>2, <1>3, <1>4, <1>5, <1>6, <1>7, <1>8 DEF Next

THEOREM InvCorrect == Spec => []Inv
BY InvInitially, InvInductive, PTL DEF Spec----------------------------------------------------------------------------
(* The properties, of any answer that fits. *)
LEMMA QuietIsExact ==
  ASSUME NEW b \in Scores, NEW s \in Nat, NEW r, Near(r, s, b, 0)
  PROVE  r = RankOf(b, s)
<1>1. RankOf(b, s) \in Nat
  BY RankIsFromCounts
<1> QED  BY <1>1 DEF Near

LEMMA FitsIsExact == Inv => QuietAnswersAreExact
<1> SUFFICES ASSUME Inv, answer # NoAnswer, during.moves = 0, during.losses = 0
             PROVE  \/ /\ answer.kind = "user"
                       /\ answer.rank = IF during.first[answer.ask.users[1]] = 0 THEN NoRank
                                        ELSE RankOf(during.first, during.first[answer.ask.users[1]])
                    \/ /\ answer.kind = "page"
                       /\ \A k \in DOMAIN answer.ranks :
                            answer.ranks[k] = RankOf(during.first, during.first[answer.ask.users[k]])
                       /\ answer.total = Cardinality(Ranked(during.first))
  BY DEF QuietAnswersAreExact
<1> DEFINE b == during.first
           s == answer.ask.scores
<1>1. b \in Scores
  BY DEF Inv, BoardFits, Spans
<1>2. CASE answer.kind = "page" /\ PageFits(answer, during)
  <2>1. /\ DOMAIN answer.ranks = 1..Len(answer.ask.users)
        /\ AskOK("page", answer.ask, b)
        /\ \A k \in 1..Len(answer.ask.users) : s[k] = b[answer.ask.users[k]]
    BY <1>2 DEF PageFits, AskOK
  <2>2. ASSUME NEW k \in 1..Len(answer.ask.users) PROVE answer.ranks[k] = RankOf(b, s[k])
    <3>1. answer.ask.users # << >> /\ s[1] \in Nat
      <4>1. Len(answer.ask.users) \in Nat
        BY <1>1, <2>1, AskIs
      <4>2. answer.ask.users # << >>
        BY <2>1, <4>1
      <4> QED  BY <1>1, <2>1, <4>2, AskIs
    <3>2. Near(answer.ranks[1], s[1], b, 0)
      BY <1>2, <3>1 DEF PageFits, NearUnlessLost
    <3>3. answer.ranks[1] = RankOf(b, s[1])
      BY <1>1, <3>1, <3>2, QuietIsExact
    <3>4. answer.ranks[k] = IF s[k] = s[1] THEN answer.ranks[1] ELSE RankOf(b, s[k])
      BY <1>2 DEF PageFits
    <3> QED  BY <3>3, <3>4
  <2>3. answer.total = Cardinality(Ranked(b))
    BY <1>2 DEF PageFits
  <2> QED  BY <1>2, <2>1, <2>2, <2>3
<1>3. CASE answer.kind = "user" /\ UserFits(answer, during)
  <2>1. AskOK("user", answer.ask, b) /\ Len(answer.ask.users) = 1
    BY <1>3 DEF UserFits, AskOK
  <2>2. s[1] = b[answer.ask.users[1]] /\ s[1] \in Nat
    <3>1. 1 \in 1..Len(answer.ask.users)
      BY <2>1
    <3>2. s[1] = b[answer.ask.users[1]]
      BY <2>1, <3>1 DEF AskOK
    <3>3. s[1] \in Nat
      BY <1>1, <2>1, <3>1, AskIs
    <3> QED  BY <3>2, <3>3
  <2>3. ASSUME s[1] # 0 PROVE answer.rank = RankOf(b, s[1])
    <3>1. Near(answer.rank, s[1], b, 0)
      BY <1>3, <2>3 DEF UserFits, NearUnlessLost
    <3> QED  BY <1>1, <2>2, <3>1, QuietIsExact
  <2>4. s[1] = 0 => answer.rank = NoRank
    BY <1>3 DEF UserFits
  <2> QED  BY <1>3, <2>2, <2>3, <2>4
<1>4. CASE answer.kind = "refused" /\ RefusalFits(answer, during)
  <2>1. s[1] \in Nat
    BY <1>1, <1>4, AskIs DEF RefusalFits, HasScore
  <2>2. Near(answer.rank, s[1], b, 0) /\ answer.rank <= 0
    BY <1>4 DEF RefusalFits, NearUnlessLost
  <2>3. answer.rank = RankOf(b, s[1])
    BY <1>1, <2>1, <2>2, QuietIsExact
  <2>4. RankOf(b, s[1]) \in Nat \ {0}
    BY <1>1, <2>1, RankIsFromCounts
  <2> QED  BY <2>2, <2>3, <2>4
<1> QED  BY <1>2, <1>3, <1>4 DEF Inv, AnswerFits

LEMMA FitsIsNear == Inv => OffByTheEventsAtMost
<1> SUFFICES ASSUME Inv, answer # NoAnswer, HasScore(answer.ask), during.losses = 0
             PROVE  Near(CountedRank, answer.ask.scores[1], during.first, during.moves)
  BY DEF OffByTheEventsAtMost, HasScore, Near
<1>1. CASE answer.kind = "page" /\ PageFits(answer, during)
  <2>1. CountedRank = answer.ranks[1]
    BY <1>1 DEF CountedRank
  <2> QED  BY <1>1, <2>1 DEF PageFits, HasScore, NearUnlessLost
<1>2. CASE answer.kind = "user" /\ UserFits(answer, during)
  <2>1. CountedRank = answer.rank
    BY <1>2 DEF CountedRank
  <2>2. answer.ask.scores[1] # 0
    BY DEF HasScore
  <2> QED  BY <1>2, <2>1, <2>2 DEF UserFits, NearUnlessLost
<1>3. CASE answer.kind = "refused" /\ RefusalFits(answer, during)
  <2>1. CountedRank = answer.rank
    BY <1>3 DEF CountedRank
  <2> QED  BY <1>3, <2>1 DEF RefusalFits, NearUnlessLost
<1> QED  BY <1>1, <1>2, <1>3 DEF Inv, AnswerFits

(* When nothing wrote to the board while a query ran, a page has the       *)
(* competition ranks of its users, wherever it starts, a user its own, the *)
(* number of participants is right, and nothing is refused.                *)
THEOREM QuietAnswersAreExactHolds == Spec => []QuietAnswersAreExact
BY FitsIsExact, InvCorrect, PTL

(* The rank that two counts give is off by no more than the number of      *)
(* events applied since the query's first command.                         *)
THEOREM OffByTheEventsAtMostHolds == Spec => []OffByTheEventsAtMost
BY FitsIsNear, InvCorrect, PTL

(* Below the first score of a page the ranks are those of the board the    *)
(* page was read from, whatever was written or lost since.                 *)
THEOREM LowerRanksAreExactHolds == Spec => []LowerRanksAreExact
<1>1. Inv => LowerRanksAreExact
  BY DEF Inv, AnswerFits, PageFits, NoAnswer, LowerRanksAreExact
<1> QED  BY <1>1, InvCorrect, PTL
=============================================================================
