----------------------- MODULE ColdStartRecoveryProofs -----------------------
(***************************************************************************)
(* The safety proofs of ColdStartRecovery, for any number of instances,    *)
(* users, captures, losses and faults.  What a page of the board is, was   *)
(* proved for the snapshots; Page takes it from there, where the           *)
(* parameters given here play no part.                                     *)
(***************************************************************************)
EXTENDS ColdStartRecovery, SequenceTheorems, FiniteSetTheorems, FunctionTheorems, TLAPS

Page == INSTANCE SnapshotCaptureProofs
        WITH PoolSize <- 1, Registered <- Users, MaxAttempts <- 1, StartScores <- {},
             MaxPoints <- 0, MaxClock <- 0, FaultKinds <- {},
             aof <- 0, clock <- 0, lock <- 0, worker <- runner, lastSuccess <- 0, since <- 0

Scores == [Users -> Nat]
----------------------------------------------------------------------------
(* The invariant. *)
Batches == Seq(RowSet) \ {<< >>}
Results == {"skipped", "recovered", "failed"}
Starts == [pc : {"down", "serving", "count", "find", "closing", "up"}]
            \cup [pc : {"delete", "add"}, rows : Batches]
            \cup [pc : {"clear"}, result : Results]
Commands == [no : Nat, pc : {"delete", "add"}, rows : Batches]
Captures == {Idle} \cup [pc : {"read"}, at : Nat] \cup [pc : {"commit"}, at : Nat, rows : Batches, gone : BOOLEAN]
Debts == [open : BOOLEAN, owed : Scores, fresh : Scores, spoiled : BOOLEAN]

(* The rows of a snapshot: a page of distinct users, all with points. *)
IsBatch(rows) ==
  /\ rows \in Batches /\ Len(rows) <= TopN
  /\ \A k \in 1..Len(rows) : rows[k].score > 0
  /\ \A j, k \in 1..Len(rows) : rows[j].user = rows[k].user => j = k

(* Nothing that may come back to the board is more than was earned. *)
Earned(rows) == \A k \in 1..Len(rows) : rows[k].score <= earned[rows[k].user]
Sound(rows) == IsBatch(rows) /\ Earned(rows)

Shape ==
  /\ board \in Scores /\ earned \in Scores /\ taken \in Nat /\ faults \in Nat
  /\ DOMAIN batches \subseteq 1..taken
  /\ capture \in [Instances -> Captures]
  /\ \A i \in Instances : capture[i] # Idle => capture[i].at \in 1..taken
  /\ runner \in [Instances -> Starts]
  /\ manual \in [Instances -> BOOLEAN] /\ excused \in [Instances -> BOOLEAN]
  /\ \A call \in wire : call.user \in Users
  /\ late \subseteq Commands
  /\ debt \in Debts

Bounded ==
  /\ \A u \in Users : board[u] <= earned[u]
  /\ \A t \in DOMAIN batches : Sound(batches[t])
  /\ \A i \in Instances : capture[i].pc = "commit" => Sound(capture[i].rows)
  /\ \A i \in Instances : runner[i].pc \in {"delete", "add"} => Sound(runner[i].rows)
  /\ \A command \in late : Sound(command.rows)

Whole == [u \in Users |-> debt.owed[u] + debt.fresh[u]]

(* While nothing has interfered: a board that is gone is empty, and what   *)
(* it is owed is the newest snapshot; one that is there is what was owed   *)
(* and the events since; an empty one that is not owed anything has no     *)
(* snapshot, not even one on its way; and whoever restores, restores what  *)
(* is owed, to a board that got nothing since.                             *)
Faithful ==
  /\ debt.open => board = Empty /\ debt.fresh = Empty /\ debt.owed = Restorable(batches)
  /\ ~debt.open => board = Whole
  /\ ~debt.open /\ board = Empty =>
       DOMAIN batches = {} /\ \A i \in Instances : capture[i].pc # "commit"
  /\ Unfinished => debt.fresh = Empty /\ debt.owed = Restorable(batches)
  /\ \A i \in Instances : runner[i].pc \in {"delete", "add"} => ScoresOf(runner[i].rows) = debt.owed
  /\ \A command \in late : ScoresOf(command.rows) = debt.owed

Inv == Shape /\ Bounded /\ (~debt.spoiled => Faithful)
----------------------------------------------------------------------------
(* What is known of pages, in this module's terms. *)
LEMMA PageAssumed == Page!BoardAssumption /\ Page!SnapshotAssumption
<1>1. IsFiniteSet(Users) => Page!IsFiniteSet(Users)
  BY DEF IsFiniteSet, Page!IsFiniteSet
<1> QED  BY <1>1, BoardAssumption, RecoveryAssumption
         DEF BoardAssumption, RecoveryAssumption, Page!BoardAssumption, Page!SnapshotAssumption

LEMMA SameCount == \A S : Page!Cardinality(S) = Cardinality(S)
BY DEF Cardinality, Page!Cardinality

LEMMA SamePosition ==
  ASSUME NEW b
  PROVE  /\ \A u, v : Page!Above(b, u, v) <=> Above(b, u, v)
         /\ \A u : Page!Position(b, u) = Position(b, u)
<1>1. \A u, v : Page!Above(b, u, v) <=> Above(b, u, v)
  BY DEF Page!Above, Above
<1>2. ASSUME NEW u PROVE Page!Position(b, u) = Position(b, u)
  <2>1. {v \in Users : Page!Above(b, v, u)} = {v \in Users : Above(b, v, u)}
    BY <1>1
  <2> QED  BY <2>1, SameCount DEF Page!Position, Position
<1> QED  BY <1>1, <1>2

LEMMA SamePage ==
  ASSUME NEW b
  PROVE  /\ Page!Ranked(b) = Ranked(b) /\ Page!Size(b) = Cardinality(Ranked(b))
         /\ \A m, n : Page!ReverseRange(b, m, n) = ReverseRange(b, m, n)
<1>1. Page!Ranked(b) = Ranked(b)
  BY DEF Page!Ranked, Ranked
<1>2. Page!Size(b) = Cardinality(Ranked(b))
  BY <1>1, SameCount DEF Page!Size
<1>3. ASSUME NEW m, NEW n PROVE Page!ReverseRange(b, m, n) = ReverseRange(b, m, n)
  BY <1>1, SameCount, SamePosition DEF Page!ReverseRange, ReverseRange
<1> QED  BY <1>1, <1>2, <1>3

LEMMA PageIs ==
  ASSUME NEW b \in Scores, NEW n \in Nat
  PROVE  Page!IsPage(ReverseRange(b, 0, n), b, n)
BY PageAssumed, SamePage, Page!ReverseRangeIsPage DEF Scores, Page!Scores
(* What a snapshot of the board holds. *)
Listed(rows) == {rows[k].user : k \in 1..Len(rows)}

LEMMA RowsAre ==
  ASSUME NEW b \in Scores
  PROVE  /\ Rows(b) \in Seq(RowSet) /\ Len(Rows(b)) \in 0..TopN
         /\ Len(Rows(b)) = IF TopN <= Cardinality(Ranked(b)) THEN TopN ELSE Cardinality(Ranked(b))
         /\ \A k \in 1..Len(Rows(b)) :
              /\ Rows(b)[k].user \in Ranked(b) /\ Rows(b)[k].score = b[Rows(b)[k].user]
              /\ Position(b, Rows(b)[k].user) = k
<1> DEFINE top == ReverseRange(b, 0, TopN)
           n == IF TopN <= Cardinality(Ranked(b)) THEN TopN ELSE Cardinality(Ranked(b))
           rows == Rows(b)
<1>0. TopN \in Nat
  BY RecoveryAssumption
<1>1. Page!IsPage(top, b, TopN) /\ Page!PageLength(b, TopN) = n
  BY <1>0, PageIs, SamePage DEF Page!PageLength
<1>2. /\ n \in 0..TopN /\ top \in [1..n -> Ranked(b)]
      /\ \A k \in 1..n : Position(b, top[k]) = k
  BY <1>1, SamePage, SamePosition DEF Page!IsPage
<1>3. rows = [k \in DOMAIN top |-> [user |-> top[k], score |-> b[top[k]]]]
  BY DEF Rows
<1> HIDE DEF top, n, rows
<1>4. n \in Nat /\ DOMAIN top = 1..n
  BY <1>0, <1>2
<1>5. ASSUME NEW k \in 1..n
      PROVE  /\ rows[k] \in RowSet /\ rows[k].user = top[k] /\ rows[k].score = b[top[k]]
             /\ top[k] \in Ranked(b)
  <2>1. top[k] \in Ranked(b) /\ top[k] \in Users /\ b[top[k]] \in Nat
    BY <1>2 DEF Ranked, Scores
  <2>2. rows[k] = [user |-> top[k], score |-> b[top[k]]]
    BY <1>3, <1>4
  <2> QED  BY <2>1, <2>2 DEF RowSet
<1>6. rows \in [1..n -> RowSet]
  BY <1>3, <1>4, <1>5
<1>7. rows \in Seq(RowSet) /\ Len(rows) = n
  BY <1>4, <1>6, SeqDef
<1>8. \A k \in 1..n : rows[k].user \in Ranked(b) /\ rows[k].score = b[rows[k].user]
                      /\ Position(b, rows[k].user) = k
  BY <1>2, <1>5
<1> QED  BY <1>2, <1>7, <1>8 DEF rows, n

LEMMA RankedIs ==
  ASSUME NEW b \in Scores
  PROVE  /\ Ranked(b) \subseteq Users /\ IsFiniteSet(Ranked(b)) /\ Cardinality(Ranked(b)) \in Nat
         /\ Ranked(b) # {} => Cardinality(Ranked(b)) > 0
         /\ Ranked(b) = {} <=> b = Empty
<1>1. Ranked(b) \subseteq Users
  BY DEF Ranked
<1>2. IsFiniteSet(Ranked(b)) /\ Cardinality(Ranked(b)) \in Nat
  BY <1>1, BoardAssumption, FS_Subset, FS_CardinalityType
<1>3. Ranked(b) # {} => Cardinality(Ranked(b)) > 0
  BY <1>2, FS_EmptySet
<1>4. b = Empty => Ranked(b) = {}
  BY DEF Ranked, Empty
<1>5. Ranked(b) = {} => b = Empty
  <2> SUFFICES ASSUME Ranked(b) = {} PROVE b = Empty
    OBVIOUS
  <2>1. \A u \in Users : b[u] \in Nat /\ ~(b[u] > 0)
    BY DEF Ranked, Scores
  <2>2. \A u \in Users : b[u] = 0
    BY <2>1
  <2> QED  BY <2>2 DEF Scores, Empty
<1> QED  BY <1>1, <1>2, <1>3, <1>4, <1>5

LEMMA CapturedBatch ==
  ASSUME NEW b \in Scores, Ranked(b) # {}
  PROVE  IsBatch(Rows(b))
<1> DEFINE rows == Rows(b)
<1>1. /\ rows \in Seq(RowSet) /\ Len(rows) \in 0..TopN /\ Len(rows) > 0
      /\ \A k \in 1..Len(rows) :
           /\ rows[k].user \in Ranked(b) /\ rows[k].score = b[rows[k].user]
           /\ Position(b, rows[k].user) = k
  <2>1. TopN \in Nat \ {0} /\ Cardinality(Ranked(b)) > 0
    BY RankedIs, RecoveryAssumption
  <2> QED  BY <2>1, RowsAre
<1> HIDE DEF rows
<1>2. \A k \in 1..Len(rows) : rows[k].score > 0
  BY <1>1 DEF Ranked
<1>3. \A j, k \in 1..Len(rows) : rows[j].user = rows[k].user => j = k
  BY <1>1
<1>4. rows # << >> /\ Len(rows) <= TopN
  BY <1>1
<1> QED  BY <1>1, <1>2, <1>3, <1>4 DEF IsBatch, Batches, rows
----------------------------------------------------------------------------
(* The scores a batch gives back. *)
LEMMA ScoresOfAre ==
  ASSUME NEW rows, IsBatch(rows)
  PROVE  /\ ScoresOf(rows) \in Scores
         /\ \A k \in 1..Len(rows) :
              rows[k].user \in Users /\ ScoresOf(rows)[rows[k].user] = rows[k].score
         /\ \A u \in Users : ScoresOf(rows)[u] > 0 <=> u \in Listed(rows)
         /\ Ranked(ScoresOf(rows)) = Listed(rows)
<1> DEFINE n == Len(rows)
<1>1. /\ n \in Nat /\ DOMAIN rows = 1..n /\ \A k \in 1..n : rows[k] \in RowSet
      /\ \A k \in 1..n : rows[k].score > 0
      /\ \A j, k \in 1..n : rows[j].user = rows[k].user => j = k
  BY DEF IsBatch, Batches
<1>2. \A k \in 1..n : rows[k].user \in Users /\ rows[k].score \in Nat
  BY <1>1 DEF RowSet
<1>3. \A u \in Users :
        ScoresOf(rows)[u] = IF \E k \in 1..n : rows[k].user = u
                            THEN rows[CHOOSE k \in 1..n : rows[k].user = u].score ELSE 0
  BY <1>1 DEF ScoresOf
<1>4. ASSUME NEW k \in 1..n PROVE ScoresOf(rows)[rows[k].user] = rows[k].score
  <2>1. rows[k].user \in Users
    BY <1>2
  <2>2. PICK j \in 1..n : j = CHOOSE i \in 1..n : rows[i].user = rows[k].user
    OBVIOUS
  <2>3. rows[j].user = rows[k].user
    BY <2>2
  <2>4. j = k
    BY <1>1, <2>3
  <2> QED  BY <1>3, <2>1, <2>2, <2>4
<1>5. ASSUME NEW u \in Users
      PROVE  ScoresOf(rows)[u] \in Nat /\ (ScoresOf(rows)[u] > 0 <=> u \in Listed(rows))
  <2>1. CASE u \in Listed(rows)
    <3>1. PICK k \in 1..n : rows[k].user = u
      BY <2>1 DEF Listed
    <3> QED  BY <1>1, <1>2, <1>4, <2>1, <3>1
  <2>2. CASE u \notin Listed(rows)
    <3>1. ScoresOf(rows)[u] = 0
      BY <1>3, <2>2 DEF Listed
    <3> QED  BY <2>2, <3>1
  <2> QED  BY <2>1, <2>2
<1>6. ScoresOf(rows) \in Scores
  BY <1>5 DEF ScoresOf, Scores
<1>7. Listed(rows) \subseteq Users
  BY <1>2 DEF Listed
<1>8. Ranked(ScoresOf(rows)) = Listed(rows)
  BY <1>5, <1>7 DEF Ranked
<1> QED  BY <1>2, <1>4, <1>5, <1>6, <1>8

(* A restore takes a batch's first rows: they are a batch. *)
LEMMA RestoredIs ==
  ASSUME NEW rows, IsBatch(rows)
  PROVE  /\ IsBatch(RestoredRows(rows))
         /\ Len(RestoredRows(rows)) = IF Len(rows) < RecoverN THEN Len(rows) ELSE RecoverN
         /\ \A k \in 1..Len(RestoredRows(rows)) : k \in 1..Len(rows) /\ RestoredRows(rows)[k] = rows[k]
<1> DEFINE n == IF Len(rows) < RecoverN THEN Len(rows) ELSE RecoverN
           some == RestoredRows(rows)
<1>1. /\ rows \in Seq(RowSet) /\ rows # << >> /\ Len(rows) \in Nat /\ Len(rows) <= TopN
      /\ \A k \in 1..Len(rows) : rows[k].score > 0
      /\ \A j, k \in 1..Len(rows) : rows[j].user = rows[k].user => j = k
  BY DEF IsBatch, Batches
<1>2. RecoverN \in Nat \ {0} /\ TopN \in Nat
  BY RecoveryAssumption
<1>3. Len(rows) > 0
  BY <1>1, EmptySeq
<1>4. n \in 1..Len(rows) /\ n <= TopN /\ n > 0
  BY <1>1, <1>2, <1>3
<1>5. some = SubSeq(rows, 1, n)
  BY DEF RestoredRows
<1> HIDE DEF n, some
<1>6. some \in Seq(RowSet) /\ Len(some) = n /\ \A k \in 1..n : some[k] = rows[k]
  <2>1. some = [k \in 1..n |-> rows[k]]
    BY <1>1, <1>4, <1>5
  <2>2. \A k \in 1..n : rows[k] \in RowSet
    BY <1>1, <1>4
  <2>3. some \in [1..n -> RowSet] /\ n \in Nat
    BY <1>4, <2>1, <2>2
  <2> QED  BY <2>1, <2>3, SeqDef
<1>7. \A k \in 1..n : k \in 1..Len(rows)
  BY <1>1, <1>4
<1>8. some # << >>
  BY <1>4, <1>6
<1>9. IsBatch(some)
  BY <1>1, <1>4, <1>6, <1>7, <1>8 DEF IsBatch, Batches
<1> QED  BY <1>6, <1>7, <1>9 DEF n, some

(* What is left of a batch on a board that is restored from it. *)
Left(rows) ==
  [u \in Users |-> IF \E k \in DOMAIN rows : k <= RecoverN /\ rows[k].user = u
                   THEN ScoresOf(rows)[u] ELSE 0]

LEMMA LeftIs ==
  ASSUME NEW rows, IsBatch(rows)
  PROVE  Left(rows) = ScoresOf(RestoredRows(rows))
<1> DEFINE some == RestoredRows(rows)
<1>1. /\ rows \in Seq(RowSet) /\ DOMAIN rows = 1..Len(rows) /\ Len(rows) \in Nat
      /\ RecoverN \in Nat
  BY RecoveryAssumption DEF IsBatch, Batches
<1>2. /\ IsBatch(some) /\ Len(some) = IF Len(rows) < RecoverN THEN Len(rows) ELSE RecoverN
      /\ \A k \in 1..Len(some) : k \in 1..Len(rows) /\ some[k] = rows[k]
  BY RestoredIs
<1> HIDE DEF some
<1>3. ASSUME NEW u \in Users PROVE Left(rows)[u] = ScoresOf(some)[u]
  <2>1. CASE \E k \in DOMAIN rows : k <= RecoverN /\ rows[k].user = u
    <3>1. PICK k \in DOMAIN rows : k <= RecoverN /\ rows[k].user = u
      BY <2>1
    <3>2. k \in 1..Len(some) /\ some[k] = rows[k]
      BY <1>1, <1>2, <3>1
    <3>3. ScoresOf(some)[u] = some[k].score /\ ScoresOf(rows)[u] = rows[k].score
      BY <1>1, <1>2, <3>1, <3>2, ScoresOfAre
    <3>4. Left(rows)[u] = ScoresOf(rows)[u]
      BY <2>1 DEF Left
    <3> QED  BY <3>2, <3>3, <3>4
  <2>2. CASE ~ \E k \in DOMAIN rows : k <= RecoverN /\ rows[k].user = u
    <3>1. u \notin Listed(some)
      <4> SUFFICES ASSUME NEW k \in 1..Len(some), some[k].user = u PROVE FALSE
        BY DEF Listed
      <4>1. k \in DOMAIN rows /\ rows[k].user = u /\ k <= RecoverN
        BY <1>1, <1>2
      <4> QED  BY <2>2, <4>1
    <3>2. ScoresOf(some)[u] \in Nat /\ ~(ScoresOf(some)[u] > 0)
      BY <1>2, <3>1, ScoresOfAre DEF Scores
    <3>3. Left(rows)[u] = 0
      BY <2>2 DEF Left
    <3> QED  BY <3>2, <3>3
  <2> QED  BY <2>1, <2>2
<1>4. Left(rows) \in [Users -> {Left(rows)[u] : u \in Users}]
  BY DEF Left
<1>5. ScoresOf(some) \in [Users -> Nat]
  BY <1>2, ScoresOfAre DEF Scores
<1> QED  BY <1>3, <1>4, <1>5 DEF some

LEMMA LeftIsScores ==
  ASSUME NEW rows, IsBatch(rows)
  PROVE  Left(rows) \in Scores /\ Left(rows) # Empty
<1>1. IsBatch(RestoredRows(rows)) /\ Left(rows) = ScoresOf(RestoredRows(rows))
  BY LeftIs, RestoredIs
<1> DEFINE some == RestoredRows(rows)
<1> HIDE DEF some
<1>2. IsBatch(some) /\ Left(rows) = ScoresOf(some)
  BY <1>1 DEF some
<1>3. 1 \in 1..Len(some)
  BY <1>2, EmptySeq DEF IsBatch, Batches
<1>4. some[1].user \in Listed(some)
  BY <1>3 DEF Listed
<1> QED  BY <1>2, <1>4, ScoresOfAre, RankedIs

(* The newest of some snapshots is one of them. *)
LEMMA NewestIs ==
  ASSUME NEW stored, NEW n \in Nat, DOMAIN stored \subseteq 1..n, DOMAIN stored # {}
  PROVE  \E t \in DOMAIN stored : Newest(stored) = stored[t]
<1> DEFINE S == {m \in Nat : n - m \in DOMAIN stored}
<1>1. S \in SUBSET Nat /\ S # {}
  <2>1. PICK t \in DOMAIN stored : t \in 1..n
    OBVIOUS
  <2>2. n - t \in Nat /\ n - (n - t) = t
    BY <2>1
  <2> QED  BY <2>1, <2>2
<1>2. PICK m \in S : \A k \in S : m <= k
  <2> HIDE DEF S
  <2> QED  BY <1>1, PageAssumed, Page!Least
<1>3. \A s \in DOMAIN stored : s <= n - m
  <2> SUFFICES ASSUME NEW s \in DOMAIN stored PROVE s <= n - m
    OBVIOUS
  <2>1. s \in 1..n
    OBVIOUS
  <2>2. n - s \in Nat /\ n - (n - s) = s
    BY <2>1
  <2>3. n - s \in S
    BY <2>2
  <2>4. m <= n - s /\ m \in Nat
    BY <1>2, <2>3
  <2> QED  BY <2>1, <2>4
<1>4. n - m \in DOMAIN stored
  BY <1>2
<1> HIDE DEF S
<1> DEFINE t == CHOOSE t \in DOMAIN stored : \A s \in DOMAIN stored : s <= t
<1>5. t \in DOMAIN stored
  BY <1>3, <1>4
<1>6. Newest(stored) = stored[t]
  BY DEF Newest
<1> QED  BY <1>5, <1>6

LEMMA RestorableIs ==
  ASSUME NEW stored, NEW n \in Nat, DOMAIN stored \subseteq 1..n,
         \A t \in DOMAIN stored : IsBatch(stored[t])
  PROVE  /\ DOMAIN stored = {} => Restorable(stored) = Empty
         /\ DOMAIN stored # {} => /\ IsBatch(Newest(stored)) /\ Newest(stored) \in {stored[t] : t \in DOMAIN stored}
                                  /\ Restorable(stored) = ScoresOf(RestoredRows(Newest(stored)))
         /\ Restorable(stored) \in Scores
<1>1. CASE DOMAIN stored = {}
  BY <1>1 DEF Restorable, Empty, Scores
<1>2. CASE DOMAIN stored # {}
  <2>1. PICK t \in DOMAIN stored : Newest(stored) = stored[t]
    BY <1>2, NewestIs
  <2>2. IsBatch(Newest(stored)) /\ Restorable(stored) = Left(Newest(stored))
    BY <1>2, <2>1 DEF Restorable, Left
  <2>3. Left(Newest(stored)) \in Scores /\ Left(Newest(stored)) = ScoresOf(RestoredRows(Newest(stored)))
    BY <2>2, LeftIs, LeftIsScores
  <2> QED  BY <1>2, <2>1, <2>2, <2>3
<1> QED  BY <1>1, <1>2

(* The rows come back: to a board that is empty, or to the one that the    *)
(* same rows made.                                                         *)
LEMMA AddedIs ==
  ASSUME NEW b \in Scores, NEW rows, IsBatch(rows)
  PROVE  /\ Added(b, rows) \in Scores
         /\ b = Empty \/ b = ScoresOf(rows) => Added(b, rows) = ScoresOf(rows)
<1>1. ScoresOf(rows) \in Scores
  BY ScoresOfAre
<1>2. Added(b, rows) \in Scores
  BY <1>1 DEF Added, Scores
<1>3. ASSUME b = Empty \/ b = ScoresOf(rows), NEW u \in Users
      PROVE  Added(b, rows)[u] = ScoresOf(rows)[u]
  <2>1. ScoresOf(rows)[u] \in Nat
    BY <1>1 DEF Scores
  <2>2. b[u] = 0 \/ b[u] = ScoresOf(rows)[u]
    BY <1>3 DEF Empty
  <2> QED  BY <2>1, <2>2 DEF Added
<1> QED  BY <1>1, <1>2, <1>3 DEF Scores
----------------------------------------------------------------------------
(* The steps. *)
LEMMA StartsAre ==
  ASSUME NEW w \in Starts
  PROVE  /\ w.pc \in {"down", "serving", "count", "find", "closing", "up", "delete", "add", "clear"}
         /\ w.pc \in {"delete", "add"} => w.rows \in Batches
         /\ w.pc = "clear" => w.result \in Results
         /\ w.pc = "down" <=> w = Down
BY DEF Starts, Down

LEMMA CapturesAre ==
  ASSUME NEW w \in Captures
  PROVE  /\ w.pc \in {"idle", "read", "commit"}
         /\ w # Idle => w.at \in Nat /\ w.pc # "idle"
         /\ w.pc = "commit" => w.rows \in Batches /\ w.gone \in BOOLEAN
BY DEF Captures, Idle

(* What becomes of a capture when its process goes. *)
SameCapture(v, w) == v = Idle \/ (w # Idle /\ v.at = w.at /\ v.pc = w.pc /\ v.rows = w.rows)

LEMMA CaptureLeftIs ==
  ASSUME NEW w \in Captures, w.pc = "commit", NEW v, v = [w EXCEPT !.gone = TRUE]
  PROVE  v \in Captures /\ SameCapture(v, w)
<1>1. w \in [pc : {"commit"}, at : Nat, rows : Batches, gone : BOOLEAN]
  BY DEF Captures, Idle
<1>2. /\ v \in [pc : {"commit"}, at : Nat, rows : Batches, gone : BOOLEAN]
      /\ v.at = w.at /\ v.pc = w.pc /\ v.rows = w.rows
  BY <1>1
<1>3. v \in Captures
  BY <1>2 DEF Captures
<1>4. w # Idle
  BY DEF Idle
<1> QED  BY <1>2, <1>3, <1>4 DEF SameCapture

LEMMA StateIs ==
  ASSUME Inv
  PROVE  /\ debt \in Debts /\ debt.open \in BOOLEAN /\ debt.spoiled \in BOOLEAN
         /\ debt.owed \in Scores /\ debt.fresh \in Scores
         /\ board \in Scores /\ earned \in Scores /\ runner \in [Instances -> Starts]
         /\ capture \in [Instances -> Captures] /\ taken \in Nat /\ faults \in Nat
         /\ late \subseteq Commands /\ Empty \in Scores
BY DEF Inv, Shape, Debts, Empty, Scores

LEMMA BatchesAre ==
  ASSUME Inv
  PROVE  /\ \A t \in DOMAIN batches : IsBatch(batches[t]) /\ Earned(batches[t])
         /\ DOMAIN batches = {} => Restorable(batches) = Empty
         /\ DOMAIN batches # {} =>
              /\ IsBatch(Newest(batches)) /\ Earned(Newest(batches))
              /\ Restorable(batches) = ScoresOf(RestoredRows(Newest(batches)))
         /\ Restorable(batches) \in Scores
<1>1. \A t \in DOMAIN batches : IsBatch(batches[t]) /\ Earned(batches[t])
  BY DEF Inv, Bounded, Sound
<1>2. DOMAIN batches \subseteq 1..taken /\ taken \in Nat
  BY DEF Inv, Shape
<1>3. DOMAIN batches # {} => Newest(batches) \in {batches[t] : t \in DOMAIN batches}
  BY <1>1, <1>2, RestorableIs
<1> QED  BY <1>1, <1>2, <1>3, RestorableIs

LEMMA SpoiledIs == Spoiled \in Debts /\ Spoiled.spoiled
BY DEF Spoiled, Debts, Empty, Scores

(* What brings a batch back, and the start of an instance, need to go on.  *)
Pending(rows) == Sound(rows) /\ (~debt.spoiled => ScoresOf(rows) = debt.owed)
MayGoOn(w) ==
  /\ w \in Starts
  /\ w.pc \in {"delete", "add"} => Pending(w.rows)
  /\ w.pc \in {"find", "delete", "add"} /\ ~debt.spoiled =>
       debt.fresh = Empty /\ debt.owed = Restorable(batches)

LEMMA AllMayGoOn ==
  ASSUME Inv
  PROVE  /\ \A i \in Instances : MayGoOn(runner[i])
         /\ \A command \in late : Pending(command.rows)
<1>1. ASSUME NEW i \in Instances PROVE MayGoOn(runner[i])
  <2>1. runner[i] \in Starts
    BY DEF Inv, Shape
  <2>2. runner[i].pc \in {"delete", "add"} => Pending(runner[i].rows)
    BY DEF Inv, Bounded, Faithful, Pending
  <2>3. runner[i].pc \in {"find", "delete", "add"} => Unfinished
    BY DEF Unfinished, Restoring
  <2>4. Unfinished /\ ~debt.spoiled => debt.fresh = Empty /\ debt.owed = Restorable(batches)
    BY DEF Inv, Faithful
  <2> QED  BY <2>1, <2>2, <2>3, <2>4 DEF MayGoOn
<1>2. \A command \in late : Pending(command.rows)
  BY DEF Inv, Bounded, Faithful, Pending
<1> QED  BY <1>1, <1>2

(* A step of one instance's start that leaves the board alone. *)
LEMMA StartGoesOn ==
  ASSUME Inv, UNCHANGED <<board, taken, batches, wire, earned, debt>>, faults' \in Nat,
         manual' \in [Instances -> BOOLEAN], excused' \in [Instances -> BOOLEAN],
         NEW i \in Instances, NEW w, MayGoOn(w), runner' = [runner EXCEPT ![i] = w],
         capture' \in [Instances -> Captures],
         \A j \in Instances : SameCapture(capture'[j], capture[j]),
         \A command \in late' : \/ command \in late
                                \/ /\ command \in Commands /\ command.rows = runner[i].rows
                                   /\ runner[i].pc \in {"delete", "add"}
  PROVE  Inv'
<1>1. runner' \in [Instances -> Starts] /\ \A j \in Instances : MayGoOn(runner'[j])
  <2>1. runner \in [Instances -> Starts] /\ w \in Starts
    BY DEF Inv, Shape, MayGoOn
  <2>2. runner' \in [Instances -> Starts]
    BY <2>1
  <2>3. ASSUME NEW j \in Instances PROVE MayGoOn(runner'[j])
    <3>1. runner'[j] = IF j = i THEN w ELSE runner[j]
      BY <2>1
    <3> QED  BY <3>1, AllMayGoOn
  <2> QED  BY <2>2, <2>3
<1>2. late' \subseteq Commands /\ \A command \in late' : Pending(command.rows)
  <2>1. \A command \in late : Pending(command.rows) /\ command \in Commands
    BY AllMayGoOn, StateIs
  <2>2. runner[i].pc \in {"delete", "add"} => Pending(runner[i].rows)
    BY AllMayGoOn DEF MayGoOn
  <2> QED  BY <2>1, <2>2
<1>3. \A j \in Instances :
        /\ capture'[j] # Idle => capture[j] # Idle /\ capture'[j].at = capture[j].at
        /\ capture'[j].pc = "commit" => capture[j].pc = "commit" /\ capture'[j].rows = capture[j].rows
  <2>1. Idle.pc # "commit"
    BY DEF Idle
  <2> QED  BY <2>1 DEF SameCapture
<1>4. Shape'
  BY <1>1, <1>2, <1>3 DEF Inv, Shape
<1>5. Bounded'
  <2>1. \A rows : Sound(rows)' <=> Sound(rows)
    BY DEF Sound, Earned
  <2>2. \A j \in Instances : runner'[j].pc \in {"delete", "add"} => Sound(runner'[j].rows)
    BY <1>1 DEF MayGoOn, Pending
  <2>3. \A j \in Instances : capture'[j].pc = "commit" => Sound(capture'[j].rows)
    BY <1>3 DEF Inv, Bounded
  <2>4. \A command \in late' : Sound(command.rows)
    BY <1>2 DEF Pending
  <2> QED  BY <2>2, <2>3, <2>4 DEF Inv, Bounded, Sound, Earned
<1>6. ASSUME ~debt'.spoiled PROVE Faithful'
  <2>1. ~debt.spoiled /\ Faithful /\ Restorable(batches') = Restorable(batches)
    BY <1>6 DEF Inv
  <2>2. Unfinished' => debt.fresh = Empty /\ debt.owed = Restorable(batches)
    <3>1. CASE \E j \in Instances : runner'[j].pc \in {"find", "delete", "add"}
      BY <1>1, <2>1, <3>1 DEF MayGoOn
    <3>2. CASE late' # {}
      <4>1. late # {} \/ Restoring(i)
        BY <3>2 DEF Restoring
      <4>2. Unfinished
        BY <4>1 DEF Unfinished
      <4> QED  BY <2>1, <4>2 DEF Faithful
    <3> QED  BY <3>1, <3>2 DEF Unfinished, Restoring
  <2>3. \A j \in Instances : runner'[j].pc \in {"delete", "add"} => ScoresOf(runner'[j].rows) = debt.owed
    BY <1>1, <2>1 DEF MayGoOn, Pending
  <2>4. \A command \in late' : ScoresOf(command.rows) = debt.owed
    BY <1>2, <2>1 DEF Pending
  <2>5. ~debt.open /\ board = Empty =>
          DOMAIN batches = {} /\ \A j \in Instances : capture'[j].pc # "commit"
    BY <1>3, <2>1 DEF Faithful
  <2> QED  BY <2>1, <2>2, <2>3, <2>4, <2>5 DEF Faithful, Whole
<1> QED  BY <1>4, <1>5, <1>6 DEF Inv

LEMMA StaysUp ==
  ASSUME NEW p \in {"down", "serving", "count", "closing", "up"}
  PROVE  MayGoOn([pc |-> p])
BY DEF MayGoOn, Starts

LEMMA EndsWith ==
  ASSUME NEW result \in Results
  PROVE  MayGoOn(Outcome(result))
BY DEF MayGoOn, Starts, Outcome

LEMMA StartKeeps ==
  ASSUME Inv, NEW i \in Instances,
         StartServing(i) \/ OpenManually(i) \/ ClearManualOverride(i)
  PROVE  Inv'
<1>1. /\ UNCHANGED <<board, taken, batches, wire, earned, debt, capture, late, faults>>
      /\ manual' \in [Instances -> BOOLEAN] /\ excused' \in [Instances -> BOOLEAN]
  BY DEF StartServing, OpenManually, ClearManualOverride, snapshots, Inv, Shape
<1>2. \E p \in {"serving", "count", "closing", "up"} : runner' = [runner EXCEPT ![i] = [pc |-> p]]
  <2>1. CASE ClearManualOverride(i)
    <3>1. runner' = [runner EXCEPT ![i] = StartupAfter(runner[i].result)]
      BY <2>1 DEF ClearManualOverride, Inv, Shape
    <3> QED  BY <3>1 DEF StartupAfter
  <2> QED  BY <2>1 DEF StartServing, OpenManually
<1>3. PICK p \in {"serving", "count", "closing", "up"} : runner' = [runner EXCEPT ![i] = [pc |-> p]]
  BY <1>2
<1>4. MayGoOn([pc |-> p])
  BY StaysUp
<1>5. /\ capture' \in [Instances -> Captures] /\ faults' \in Nat
      /\ \A j \in Instances : SameCapture(capture'[j], capture[j])
  BY <1>1, StateIs DEF SameCapture
<1> QED  BY <1>1, <1>3, <1>4, <1>5, StartGoesOn

(* A recovery that fails or is killed may leave its command behind. *)
LEMMA LeftBehind ==
  ASSUME Inv, NEW i \in Instances, LeavesBehind(i)
  PROVE  \A command \in late' : \/ command \in late
                                \/ /\ command \in Commands /\ command.rows = runner[i].rows
                                   /\ runner[i].pc \in {"delete", "add"}
<1>1. runner[i].pc \in {"delete", "add"} =>
        [no |-> faults, pc |-> runner[i].pc, rows |-> runner[i].rows] \in Commands
  BY StateIs, StartsAre DEF Commands
<1> QED  BY <1>1 DEF LeavesBehind

LEMMA EndKeeps ==
  ASSUME Inv, NEW i \in Instances, RecoveryFails(i) \/ Exit(i) \/ Crash(i)
  PROVE  Inv'
<1>1. /\ UNCHANGED <<board, taken, batches, wire, earned, debt>> /\ faults' \in Nat
      /\ manual' \in [Instances -> BOOLEAN] /\ excused' \in [Instances -> BOOLEAN]
  <2>1. /\ faults \in Nat /\ manual \in [Instances -> BOOLEAN] /\ excused \in [Instances -> BOOLEAN]
    BY DEF Inv, Shape
  <2>2. OthersExcused(i) => excused' \in [Instances -> BOOLEAN]
    BY <2>1 DEF OthersExcused
  <2>3. CASE RecoveryFails(i)
    BY <2>1, <2>2, <2>3 DEF RecoveryFails, snapshots
  <2>4. CASE Exit(i)
    BY <2>1, <2>4 DEF Exit
  <2>5. CASE Crash(i)
    BY <2>1, <2>2, <2>5 DEF Crash
  <2> QED  BY <2>3, <2>4, <2>5
<1>2. /\ capture' \in [Instances -> Captures]
      /\ \A j \in Instances : SameCapture(capture'[j], capture[j])
  <2>1. capture' = capture \/ capture' = [capture EXCEPT ![i] = CaptureLeft(i)]
    BY DEF RecoveryFails, Exit, Crash, snapshots
  <2>2. CaptureLeft(i) \in Captures /\ SameCapture(CaptureLeft(i), capture[i])
    <3>1. CASE capture[i].pc = "commit"
      <4>1. CaptureLeft(i) = [capture[i] EXCEPT !.gone = TRUE] /\ capture[i] \in Captures
        BY <3>1, StateIs DEF CaptureLeft
      <4> QED  BY <3>1, <4>1, CaptureLeftIs
    <3>2. CASE capture[i].pc # "commit"
      BY <3>2 DEF CaptureLeft, Captures, SameCapture
    <3> QED  BY <3>1, <3>2
  <2>3. \A j \in Instances : SameCapture(capture[j], capture[j])
    BY DEF SameCapture
  <2> QED  BY <2>1, <2>2, <2>3, StateIs
<1>3. \A command \in late' : \/ command \in late
                             \/ /\ command \in Commands /\ command.rows = runner[i].rows
                                /\ runner[i].pc \in {"delete", "add"}
  BY LeftBehind DEF RecoveryFails, Exit, Crash
<1>4. \E w : MayGoOn(w) /\ runner' = [runner EXCEPT ![i] = w]
  BY StaysUp, EndsWith DEF RecoveryFails, Exit, Crash, Down, Results
<1> QED  BY <1>1, <1>2, <1>3, <1>4, StartGoesOn

(* A board that is counted empty and was faithful is owed the newest       *)
(* snapshot and nothing else.                                              *)
LEMMA CountKeeps == ASSUME Inv, NEW i \in Instances, CountRanks(i) PROVE Inv'
<1>1. /\ UNCHANGED <<board, taken, batches, wire, earned, debt, capture, late>> /\ faults' \in Nat
      /\ manual' \in [Instances -> BOOLEAN] /\ excused' \in [Instances -> BOOLEAN]
      /\ capture' \in [Instances -> Captures]
      /\ \A j \in Instances : SameCapture(capture'[j], capture[j])
  BY DEF CountRanks, snapshots, Inv, Shape, SameCapture
<1>2. CASE AlreadyWarm(board)
  <2>1. runner' = [runner EXCEPT ![i] = Outcome("skipped")]
    BY <1>2 DEF CountRanks
  <2> QED  BY <1>1, <2>1, EndsWith, StartGoesOn DEF Results
<1>3. CASE ~AlreadyWarm(board)
  <2>1. runner' = [runner EXCEPT ![i] = [pc |-> "find"]]
    BY <1>3 DEF CountRanks
  <2>2. board = Empty
    BY <1>3, RankedIs DEF AlreadyWarm, Inv, Shape
  <2>3. ASSUME ~debt.spoiled PROVE debt.fresh = Empty /\ debt.owed = Restorable(batches)
    <3>1. CASE debt.open
      BY <2>3, <3>1 DEF Inv, Faithful
    <3>2. CASE ~debt.open
      <4>1. board = Whole /\ DOMAIN batches = {}
        BY <2>2, <2>3, <3>2 DEF Inv, Faithful
      <4>2. debt.owed \in Scores /\ debt.fresh \in Scores
        BY StateIs
      <4>3. \A u \in Users : debt.owed[u] = 0 /\ debt.fresh[u] = 0
        <5> SUFFICES ASSUME NEW u \in Users PROVE debt.owed[u] = 0 /\ debt.fresh[u] = 0
          OBVIOUS
        <5>1. Whole[u] = 0
          BY <2>2, <4>1 DEF Empty
        <5>2. debt.owed[u] + debt.fresh[u] = 0 /\ debt.owed[u] \in Nat /\ debt.fresh[u] \in Nat
          BY <4>2, <5>1 DEF Whole, Scores
        <5> QED  BY <5>2
      <4>4. debt.owed = Empty /\ debt.fresh = Empty
        BY <4>2, <4>3 DEF Scores, Empty
      <4> QED  BY <4>1, <4>4, BatchesAre
    <3> QED  BY <3>1, <3>2
  <2>4. MayGoOn([pc |-> "find"])
    BY <2>3 DEF MayGoOn, Starts
  <2> QED  BY <1>1, <2>1, <2>4, StartGoesOn
<1> QED  BY <1>2, <1>3

LEMMA FindKeeps == ASSUME Inv, NEW i \in Instances, FindSnapshot(i) PROVE Inv'
<1>1. /\ UNCHANGED <<board, taken, batches, wire, earned, debt, capture, late>> /\ faults' \in Nat
      /\ manual' \in [Instances -> BOOLEAN] /\ excused' \in [Instances -> BOOLEAN]
      /\ capture' \in [Instances -> Captures]
      /\ \A j \in Instances : SameCapture(capture'[j], capture[j])
  BY DEF FindSnapshot, snapshots, Inv, Shape, SameCapture
<1>2. CASE DOMAIN batches = {}
  <2>1. runner' = [runner EXCEPT ![i] = Outcome("skipped")]
    BY <1>2 DEF FindSnapshot
  <2> QED  BY <1>1, <2>1, EndsWith, StartGoesOn DEF Results
<1>3. CASE DOMAIN batches # {}
  <2> DEFINE latest == Newest(batches)
             rows == RestoredRows(latest)
             w == [pc |-> "delete", rows |-> rows]
  <2>1. runner' = [runner EXCEPT ![i] = w]
    BY <1>3 DEF FindSnapshot, LatestBatch
  <2>2. IsBatch(latest) /\ Earned(latest) /\ Restorable(batches) = ScoresOf(rows)
    BY <1>3, BatchesAre
  <2>3. IsBatch(rows) /\ \A k \in 1..Len(rows) : k \in 1..Len(latest) /\ rows[k] = latest[k]
    BY <2>2, RestoredIs
  <2> HIDE DEF rows, latest
  <2>4. Earned(rows)
    BY <2>2, <2>3 DEF Earned
  <2>5. MayGoOn(runner[i]) /\ runner[i].pc = "find"
    BY AllMayGoOn DEF FindSnapshot
  <2>6. w \in Starts /\ w.pc = "delete" /\ w.rows = rows
    BY <2>3 DEF Starts, IsBatch
  <2> HIDE DEF w
  <2>7. MayGoOn(w)
    BY <2>2, <2>3, <2>4, <2>5, <2>6 DEF MayGoOn, Pending, Sound
  <2> QED  BY <1>1, <2>1, <2>7, StartGoesOn
<1> QED  BY <1>2, <1>3

(* A command of a recovery runs, of one that goes on or of one that gave   *)
(* up: the key is gone, or the rows are back.                              *)
LEMMA CommandKeeps ==
  ASSUME Inv, Unfinished, UNCHANGED <<taken, capture, batches, wire, manual, excused, faults, earned>>,
         runner' \in [Instances -> Starts], \A i \in Instances : MayGoOn(runner'[i]),
         late' \subseteq late, NEW rows, Pending(rows), NEW open \in BOOLEAN,
         debt' = [debt EXCEPT !.open = open],
         board' = IF open THEN Empty ELSE Added(board, rows)
  PROVE  Inv'
<1>1. /\ debt' \in Debts /\ debt'.open = open /\ debt'.owed = debt.owed /\ debt'.fresh = debt.fresh
      /\ debt'.spoiled = debt.spoiled
  BY StateIs DEF Debts
<1>2. IsBatch(rows) /\ Earned(rows) /\ (~debt.spoiled => ScoresOf(rows) = debt.owed)
  BY DEF Pending, Sound
<1>3. board' \in Scores
  BY <1>2, StateIs, AddedIs
<1>4. late' \subseteq Commands /\ \A command \in late' : Pending(command.rows)
  BY StateIs, AllMayGoOn
<1>5. Shape'
  BY <1>1, <1>3, <1>4 DEF Inv, Shape
<1>6. ASSUME NEW u \in Users PROVE board'[u] <= earned[u]
  <2>1. earned[u] \in Nat /\ board[u] <= earned[u]
    BY StateIs DEF Inv, Bounded, Scores
  <2>2. CASE open
    BY <2>1, <2>2 DEF Empty
  <2>3. CASE ~open /\ ScoresOf(rows)[u] > 0
    <3>1. PICK k \in 1..Len(rows) : rows[k].user = u
      BY <1>2, <2>3, ScoresOfAre DEF Listed
    <3>2. ScoresOf(rows)[u] = rows[k].score
      BY <1>2, <3>1, ScoresOfAre
    <3>3. board'[u] = ScoresOf(rows)[u]
      BY <2>3 DEF Added
    <3> QED  BY <1>2, <3>1, <3>2, <3>3 DEF Earned
  <2>4. CASE ~open /\ ~(ScoresOf(rows)[u] > 0)
    BY <2>1, <2>4 DEF Added
  <2> QED  BY <2>2, <2>3, <2>4
<1>7. Bounded'
  <2>1. \A i \in Instances : runner'[i].pc \in {"delete", "add"} => Sound(runner'[i].rows)
    BY DEF MayGoOn, Pending
  <2>2. \A command \in late' : Sound(command.rows)
    BY <1>4 DEF Pending
  <2> QED  BY <1>6, <2>1, <2>2 DEF Inv, Bounded, Sound, Earned
<1>8. ASSUME ~debt'.spoiled PROVE Faithful'
  <2>1. ~debt.spoiled /\ Faithful /\ debt.fresh = Empty /\ debt.owed = Restorable(batches)
    BY <1>1, <1>8 DEF Inv, Faithful
  <2>2. Whole' = Whole /\ Restorable(batches)' = Restorable(batches)
    BY <1>1 DEF Whole
  <2>3. Whole = debt.owed
    <3>1. \A u \in Users : debt.owed[u] \in Nat /\ debt.fresh[u] = 0
      BY <2>1, StateIs DEF Empty, Scores
    <3>2. \A u \in Users : Whole[u] = debt.owed[u]
      BY <3>1 DEF Whole
    <3> QED  BY <3>2, StateIs DEF Whole, Scores
  <2>4. ASSUME ~open PROVE board' = Whole /\ board' # Empty
    <3>1. ScoresOf(rows) = debt.owed /\ (board = Empty \/ board = ScoresOf(rows))
      BY <1>2, <2>1, <2>3 DEF Faithful
    <3>2. board' = debt.owed
      BY <1>2, <2>4, <3>1, StateIs, AddedIs
    <3>3. ScoresOf(rows) # Empty
      <4>1. 1 \in 1..Len(rows)
        BY <1>2, EmptySeq DEF IsBatch, Batches
      <4>2. rows[1].user \in Listed(rows)
        BY <4>1 DEF Listed
      <4> QED  BY <1>2, <4>2, ScoresOfAre, RankedIs
    <3> QED  BY <2>3, <3>1, <3>2, <3>3
  <2>5. \A i \in Instances : runner'[i].pc \in {"delete", "add"} => ScoresOf(runner'[i].rows) = debt.owed
    BY <2>1 DEF MayGoOn, Pending
  <2>6. \A command \in late' : ScoresOf(command.rows) = debt.owed
    BY <1>4, <2>1 DEF Pending
  <2>7. open => board' = Empty
    OBVIOUS
  <2> QED  BY <1>1, <2>1, <2>2, <2>4, <2>5, <2>6, <2>7 DEF Faithful
<1> QED  BY <1>5, <1>7, <1>8 DEF Inv

LEMMA DeleteKeeps == ASSUME Inv, NEW i \in Instances, DeleteRanks(i) PROVE Inv'
<1> DEFINE w == [pc |-> "add", rows |-> runner[i].rows]
<1>1. /\ UNCHANGED <<taken, capture, batches, wire, manual, excused, faults, earned, late>>
      /\ runner[i].pc = "delete" /\ board' = Empty
      /\ runner' = [runner EXCEPT ![i] = w] /\ debt' = [debt EXCEPT !.open = TRUE]
  BY StateIs DEF DeleteRanks, snapshots
<1>2. runner[i] \in Starts /\ MayGoOn(runner[i])
  BY StateIs, AllMayGoOn
<1>3. w \in Starts /\ w.pc = "add" /\ w.rows = runner[i].rows
  BY <1>1, <1>2, StartsAre DEF Starts
<1> HIDE DEF w
<1>4. MayGoOn(w) /\ Pending(runner[i].rows)
  BY <1>1, <1>2, <1>3 DEF MayGoOn
<1>5. runner' \in [Instances -> Starts] /\ \A j \in Instances : MayGoOn(runner'[j])
  BY <1>1, <1>3, <1>4, StateIs, AllMayGoOn
<1>6. Unfinished
  BY <1>1 DEF Unfinished, Restoring
<1> QED  BY <1>1, <1>4, <1>5, <1>6, CommandKeeps

LEMMA AddKeeps == ASSUME Inv, NEW i \in Instances, AddRanks(i) PROVE Inv'
<1> DEFINE w == Outcome("recovered")
           rows == runner[i].rows
<1>1. /\ UNCHANGED <<taken, capture, batches, wire, manual, excused, faults, earned, late>>
      /\ runner[i].pc = "add" /\ board' = Added(board, rows)
      /\ runner' = [runner EXCEPT ![i] = w] /\ debt' = [debt EXCEPT !.open = FALSE]
  BY DEF AddRanks, snapshots
<1>2. MayGoOn(w)
  BY EndsWith DEF Results
<1>3. Pending(rows)
  BY <1>1, AllMayGoOn DEF MayGoOn
<1> HIDE DEF w, rows
<1>4. runner' \in [Instances -> Starts] /\ \A j \in Instances : MayGoOn(runner'[j])
  <2>1. w \in Starts
    BY <1>2 DEF MayGoOn
  <2> QED  BY <1>1, <1>2, <2>1, StateIs, AllMayGoOn
<1>5. Unfinished
  BY <1>1 DEF Unfinished, Restoring
<1> QED  BY <1>1, <1>3, <1>4, <1>5, CommandKeeps

LEMMA LateKeeps == ASSUME Inv, NEW command \in late, RunLate(command) PROVE Inv'
<1> DEFINE open == command.pc = "delete"
<1>1. /\ UNCHANGED <<taken, capture, batches, wire, manual, excused, faults, earned, runner>>
      /\ late' \subseteq late /\ debt' = [debt EXCEPT !.open = open]
      /\ board' = IF open THEN Empty ELSE Added(board, command.rows)
  BY DEF RunLate, snapshots
<1>2. open \in BOOLEAN
  OBVIOUS
<1> HIDE DEF open
<1>3. Pending(command.rows) /\ runner' \in [Instances -> Starts] /\ \A i \in Instances : MayGoOn(runner'[i])
  BY <1>1, StateIs, AllMayGoOn
<1>4. Unfinished
  BY DEF Unfinished
<1> QED  BY <1>1, <1>2, <1>3, <1>4, CommandKeeps

LEMMA SendKeeps == ASSUME Inv, NEW i \in Instances, NEW u \in Users, Send(i, u) PROVE Inv'
<1>1. UNCHANGED <<board, taken, capture, batches, runner, manual, late, excused, faults, earned, debt>>
  BY DEF Send, snapshots, starts
<1>2. \A call \in wire' : call.user \in Users
  BY DEF Send, Inv, Shape
<1>3. Shape' /\ Bounded'
  BY <1>1, <1>2 DEF Inv, Shape, Bounded, Sound, Earned
<1>4. Faithful => Faithful'
  BY <1>1 DEF Faithful, Whole, Unfinished, Restoring
<1> QED  BY <1>1, <1>3, <1>4 DEF Inv

(* An event that interferes with nothing adds to what the board is owed.   *)
LEMMA ApplyKeeps == ASSUME Inv, NEW call \in wire, ApplyEvent(call) PROVE Inv'
<1> DEFINE u == call.user
<1>1. /\ UNCHANGED <<taken, capture, batches, runner, manual, late, excused, faults>> /\ wire' \subseteq wire
      /\ board' = [board EXCEPT ![u] = @ + 1] /\ earned' = [earned EXCEPT ![u] = @ + 1]
  BY DEF ApplyEvent, snapshots, starts
<1>2. u \in Users
  BY DEF Inv, Shape
<1>3. /\ debt' \in Debts
      /\ ~debt'.spoiled => /\ ~debt.spoiled /\ ~debt.open /\ ~Unfinished
                           /\ ~debt'.open /\ debt'.owed = debt.owed
                           /\ debt'.fresh = [debt.fresh EXCEPT ![u] = @ + 1]
  <2>1. CASE debt.spoiled \/ debt.open \/ Unfinished
    <3>1. debt' = Spoiled
      BY <2>1 DEF ApplyEvent
    <3> QED  BY <3>1, SpoiledIs
  <2>2. CASE ~(debt.spoiled \/ debt.open \/ Unfinished)
    <3>1. debt' = [debt EXCEPT !.fresh = [debt.fresh EXCEPT ![u] = @ + 1]]
      BY <2>2, StateIs DEF ApplyEvent, Debts
    <3>2. [debt.fresh EXCEPT ![u] = @ + 1] \in Scores
      BY <1>2, StateIs DEF Scores
    <3> HIDE DEF u
    <3> QED  BY <2>2, <3>1, <3>2, StateIs DEF Debts
  <2> QED  BY <2>1, <2>2
<1>4. \A v \in Users : /\ board'[v] = board[v] + (IF v = u THEN 1 ELSE 0)
                       /\ earned'[v] = earned[v] + (IF v = u THEN 1 ELSE 0)
                       /\ ~debt'.spoiled => debt'.fresh[v] = debt.fresh[v] + (IF v = u THEN 1 ELSE 0)
                       /\ board[v] \in Nat /\ earned[v] \in Nat
                       /\ debt.fresh[v] \in Nat /\ debt.owed[v] \in Nat
  BY <1>1, <1>3, StateIs DEF Scores
<1> HIDE DEF u
<1>5. board' \in Scores /\ earned' \in Scores
  BY <1>1, <1>2, StateIs DEF Scores
<1>6. Shape'
  BY <1>1, <1>3, <1>5 DEF Inv, Shape
<1>7. \A v \in Users : board'[v] <= earned'[v] /\ earned[v] <= earned'[v]
  BY <1>4 DEF Inv, Bounded
<1>8. ASSUME NEW rows, Sound(rows) PROVE Sound(rows)'
  <2>1. ASSUME NEW k \in 1..Len(rows) PROVE rows[k].score <= earned'[rows[k].user]
    <3>1. rows[k] \in RowSet
      BY <1>8 DEF Sound, IsBatch, Batches
    <3>2. rows[k].user \in Users /\ rows[k].score \in Nat
      BY <3>1 DEF RowSet
    <3>3. /\ rows[k].score <= earned[rows[k].user] /\ earned[rows[k].user] <= earned'[rows[k].user]
          /\ earned[rows[k].user] \in Nat /\ earned'[rows[k].user] \in Nat
      BY <1>5, <1>7, <1>8, <3>2, StateIs DEF Sound, Earned, Scores
    <3> QED  BY <3>2, <3>3
  <2> QED  BY <1>8, <2>1 DEF Sound, Earned
<1>9. Bounded'
  <2>1. ASSUME NEW t \in DOMAIN batches PROVE Sound(batches[t])'
    <3>1. PICK rows : rows = batches[t]
      OBVIOUS
    <3>2. Sound(rows)'
      BY <1>8, <3>1 DEF Inv, Bounded
    <3> QED  BY <1>1, <3>1, <3>2 DEF Sound, Earned
  <2>2. ASSUME NEW i \in Instances, capture[i].pc = "commit" PROVE Sound(capture[i].rows)'
    <3>1. PICK rows : rows = capture[i].rows
      OBVIOUS
    <3>2. Sound(rows)'
      BY <1>8, <2>2, <3>1 DEF Inv, Bounded
    <3> QED  BY <1>1, <3>1, <3>2 DEF Sound, Earned
  <2>3. ASSUME NEW i \in Instances, runner[i].pc \in {"delete", "add"} PROVE Sound(runner[i].rows)'
    <3>1. PICK rows : rows = runner[i].rows
      OBVIOUS
    <3>2. Sound(rows)'
      BY <1>8, <2>3, <3>1 DEF Inv, Bounded
    <3> QED  BY <1>1, <3>1, <3>2 DEF Sound, Earned
  <2>4. \A command \in late : Sound(command.rows)'
    BY <1>8 DEF Inv, Bounded
  <2> QED  BY <1>1, <1>7, <2>1, <2>2, <2>3, <2>4 DEF Bounded
<1>10. ASSUME ~debt'.spoiled PROVE Faithful'
  <2>1. ~debt.spoiled /\ ~debt.open /\ ~debt'.open /\ ~Unfinished /\ ~Unfinished'
    BY <1>1, <1>3, <1>10 DEF Unfinished, Restoring
  <2>2. late' = {} /\ \A i \in Instances : runner'[i].pc \notin {"delete", "add"}
    BY <2>1 DEF Unfinished, Restoring
  <2>3. board = Whole
    BY <2>1 DEF Inv, Faithful
  <2>4. \A v \in Users : board'[v] = Whole'[v]
    <3> SUFFICES ASSUME NEW v \in Users PROVE board'[v] = debt'.owed[v] + debt'.fresh[v]
      BY DEF Whole
    <3>1. board[v] = debt.owed[v] + debt.fresh[v]
      BY <2>3 DEF Whole
    <3> QED  BY <1>3, <1>4, <1>10, <3>1
  <2>5. board' = Whole'
    BY <1>5, <2>4 DEF Whole, Scores
  <2>6. board' # Empty
    <3>1. board'[u] = board[u] + 1 /\ board[u] \in Nat
      BY <1>2, <1>4
    <3>2. board'[u] # 0
      BY <3>1
    <3> QED  BY <1>2, <3>2 DEF Empty
  <2> QED  BY <2>1, <2>2, <2>5, <2>6 DEF Faithful
<1> QED  BY <1>6, <1>9, <1>10 DEF Inv

(* A capture that has committed nothing yet. *)
LEMMA CaptureMoves ==
  ASSUME Inv, UNCHANGED <<board, batches, starts, wire, faults, earned, debt>>,
         taken' \in Nat, taken <= taken',
         NEW i \in Instances, NEW w \in Captures, capture' = [capture EXCEPT ![i] = w],
         w # Idle => w.at \in 1..taken',
         w.pc = "commit" => Sound(w.rows) /\ board # Empty
  PROVE  Inv'
<1>1. /\ capture' \in [Instances -> Captures]
      /\ \A j \in Instances : capture'[j] = IF j = i THEN w ELSE capture[j]
  BY StateIs
<1>2. UNCHANGED <<runner, manual, late, excused>>
  BY DEF starts
<1>3. \A t \in 1..taken : t \in 1..taken'
  BY StateIs
<1>4. Shape'
  <2>1. \A j \in Instances : capture'[j] # Idle => capture'[j].at \in 1..taken'
    BY <1>1, <1>3 DEF Inv, Shape
  <2>2. DOMAIN batches \subseteq 1..taken'
    BY <1>3 DEF Inv, Shape
  <2> QED  BY <1>1, <1>2, <2>1, <2>2 DEF Inv, Shape
<1>5. Bounded'
  <2>1. \A j \in Instances : capture'[j].pc = "commit" => Sound(capture'[j].rows)
    BY <1>1 DEF Inv, Bounded
  <2> QED  BY <1>2, <2>1 DEF Inv, Bounded, Sound, Earned
<1>6. Faithful => Faithful'
  <2>1. Unfinished' = Unfinished
    BY <1>2 DEF Unfinished, Restoring
  <2>2. Restorable(batches)' = Restorable(batches) /\ Whole' = Whole
    BY DEF Whole
  <2>3. ASSUME Faithful, ~debt.open, board = Empty
        PROVE  \A j \in Instances : capture'[j].pc # "commit"
    BY <1>1, <2>3 DEF Faithful
  <2> QED  BY <1>2, <2>1, <2>2, <2>3 DEF Faithful
<1> QED  BY <1>4, <1>5, <1>6 DEF Inv

LEMMA CapturesMay ==
  ASSUME Inv, NEW i \in Instances
  PROVE  /\ Idle \in Captures /\ Idle.pc = "idle"
         /\ capture[i] # Idle => Again(i) \in Captures /\ Again(i).pc = "read" /\ Again(i).at \in 1..taken
<1>1. capture[i] # Idle => capture[i].at \in 1..taken /\ capture[i].at \in Nat
  BY DEF Inv, Shape
<1> QED  BY <1>1 DEF Again, Captures, Idle

LEMMA CaptureKeeps ==
  ASSUME Inv, NEW i \in Instances, BeginCapture(i) \/ ReadTop(i) \/ CaptureFails(i)
  PROVE  Inv'
<1>1. taken \in Nat /\ UNCHANGED <<board, batches, starts, wire, faults, earned, debt>>
  BY StateIs DEF BeginCapture, ReadTop, CaptureFails
<1>2. CASE BeginCapture(i)
  <2> DEFINE w == [pc |-> "read", at |-> taken']
  <2>1. taken' = taken + 1 /\ capture' = [capture EXCEPT ![i] = w]
    BY <1>2 DEF BeginCapture
  <2>2. taken' \in Nat /\ taken <= taken' /\ taken' \in 1..taken'
    BY <1>1, <2>1
  <2>3. w \in Captures /\ w.pc = "read" /\ w.at \in 1..taken'
    BY <2>2 DEF Captures
  <2> HIDE DEF w
  <2> QED  BY <1>1, <2>1, <2>2, <2>3, CaptureMoves
<1>3. CASE CaptureFails(i)
  <2>1. taken' = taken /\ capture[i] # Idle
    BY <1>3 DEF CaptureFails
  <2>2. PICK w \in {Idle, Again(i)} : capture' = [capture EXCEPT ![i] = w]
    BY <1>3 DEF CaptureFails, MayFollow
  <2>3. w \in Captures /\ w.pc # "commit" /\ (w # Idle => w.at \in 1..taken)
    <3>1. CASE w = Idle
      BY <3>1, CapturesMay
    <3>2. CASE w = Again(i)
      BY <2>1, <3>2, CapturesMay
    <3> QED  BY <2>2, <3>1, <3>2
  <2>4. taken' \in Nat /\ taken <= taken' /\ (w # Idle => w.at \in 1..taken')
    BY <1>1, <2>1, <2>3
  <2> QED  BY <1>1, <2>2, <2>3, <2>4, CaptureMoves
<1>4. CASE ReadTop(i) /\ Ranked(board) = {}
  <2>1. taken' = taken /\ capture' = [capture EXCEPT ![i] = Idle]
    BY <1>4 DEF ReadTop
  <2>2. taken' \in Nat /\ taken <= taken'
    BY <1>1, <2>1
  <2>3. Idle \in Captures /\ Idle.pc # "commit"
    BY CapturesMay
  <2> QED  BY <1>1, <2>1, <2>2, <2>3, CaptureMoves
<1>5. CASE ReadTop(i) /\ Ranked(board) # {}
  <2> DEFINE rows == Rows(board)
             w == [pc |-> "commit", at |-> capture[i].at, rows |-> rows, gone |-> FALSE]
  <2>1. taken' = taken /\ capture' = [capture EXCEPT ![i] = w]
    BY <1>5 DEF ReadTop
  <2>2. IsBatch(rows) /\ board # Empty
    BY <1>5, StateIs, CapturedBatch, RankedIs
  <2>3. Earned(rows)
    BY StateIs, RowsAre DEF Earned, Inv, Bounded, Ranked
  <2> HIDE DEF rows
  <2>4. capture[i] # Idle /\ capture[i].at \in 1..taken /\ capture[i].at \in Nat
    BY <1>5 DEF ReadTop, Idle, Inv, Shape
  <2>5. w \in Captures /\ w.at \in 1..taken /\ w.rows = rows
    BY <2>2, <2>4 DEF Captures, IsBatch
  <2> HIDE DEF w
  <2>6. taken' \in Nat /\ taken <= taken' /\ w.at \in 1..taken'
    BY <1>1, <2>1, <2>5
  <2>7. Sound(w.rows)
    BY <2>2, <2>3, <2>5 DEF Sound
  <2> QED  BY <1>1, <2>1, <2>2, <2>5, <2>6, <2>7, CaptureMoves
<1> QED  BY <1>2, <1>3, <1>4, <1>5
(* The commit of a capture, of one that was read before a loss as well.    *)
LEMMA CommitKeeps == ASSUME Inv, NEW i \in Instances, CommitCapture(i) PROVE Inv'
<1> DEFINE at == capture[i].at
           rows == capture[i].rows
           stored == [t \in DOMAIN batches \cup {at} |-> IF t = at THEN rows ELSE batches[t]]
<1>1. /\ UNCHANGED <<board, taken, runner, manual, late, excused, wire, faults, earned>>
      /\ capture[i].pc = "commit" /\ batches' = stored
      /\ debt' = IF debt.spoiled \/ (Unfinished /\ Restorable(stored) # debt.owed) THEN Spoiled
                 ELSE [debt EXCEPT !.owed = IF debt.open THEN Restorable(stored) ELSE debt.owed]
  BY StateIs DEF CommitCapture, starts, Debts
<1>2. capture[i] # Idle /\ at \in 1..taken /\ Sound(rows)
  BY <1>1 DEF Inv, Shape, Bounded, Idle
<1>3. PICK w \in {Idle, Again(i)} : capture' = [capture EXCEPT ![i] = w]
  BY DEF CommitCapture, MayFollow
<1>4. /\ capture' \in [Instances -> Captures]
      /\ \A j \in Instances : capture'[j] # Idle => capture'[j].at \in 1..taken
      /\ \A j \in Instances : capture'[j].pc = "commit" => Sound(capture'[j].rows)
  <2>1. w \in Captures /\ w.pc # "commit" /\ (w # Idle => w.at \in 1..taken)
    <3>1. CASE w = Idle
      BY <3>1, CapturesMay
    <3>2. CASE w = Again(i)
      BY <1>2, <3>2, CapturesMay
    <3> QED  BY <1>3, <3>1, <3>2
  <2>2. /\ capture' \in [Instances -> Captures]
        /\ \A j \in Instances : capture'[j] = IF j = i THEN w ELSE capture[j]
    BY <1>3, <2>1, StateIs
  <2> QED  BY <2>1, <2>2 DEF Inv, Shape, Bounded
<1> HIDE DEF at, rows
<1>5. DOMAIN stored \subseteq 1..taken /\ \A t \in DOMAIN stored : Sound(stored[t])
  <2>1. \A t \in DOMAIN stored : t = at \/ t \in DOMAIN batches
    OBVIOUS
  <2>2. DOMAIN batches \subseteq 1..taken /\ \A t \in DOMAIN batches : Sound(batches[t])
    BY DEF Inv, Shape, Bounded
  <2> QED  BY <1>2, <2>1, <2>2
<1>6. Restorable(stored) \in Scores
  BY <1>5, StateIs, RestorableIs DEF Sound
<1> HIDE DEF stored
<1> DEFINE spoils == debt.spoiled \/ (Unfinished /\ Restorable(stored) # debt.owed)
<1>7. /\ debt' \in Debts
      /\ ~debt'.spoiled => /\ ~debt.spoiled /\ debt'.open = debt.open /\ debt'.fresh = debt.fresh
                           /\ Unfinished => Restorable(stored) = debt.owed
                           /\ debt'.owed = IF debt.open THEN Restorable(stored) ELSE debt.owed
  <2>1. CASE spoils
    <3>1. debt' = Spoiled
      BY <1>1, <2>1
    <3> QED  BY <3>1, SpoiledIs
  <2>2. CASE ~spoils
    <3>1. debt' = [debt EXCEPT !.owed = IF debt.open THEN Restorable(stored) ELSE debt.owed]
      BY <1>1, <2>2
    <3> QED  BY <1>6, <2>2, <3>1, StateIs DEF Debts
  <2> QED  BY <2>1, <2>2
<1> HIDE DEF spoils
<1>8. Shape'
  BY <1>1, <1>4, <1>5, <1>7 DEF Inv, Shape
<1>9. Bounded'
  <2>1. \A t \in DOMAIN batches' : Sound(batches'[t])
    BY <1>1, <1>5
  <2> QED  BY <1>1, <1>4, <2>1 DEF Inv, Bounded, Sound, Earned
<1>10. ASSUME ~debt'.spoiled PROVE Faithful'
  <2>1. ~debt.spoiled /\ Faithful
    BY <1>7, <1>10 DEF Inv
  <2>2. debt.open \/ board # Empty
    BY <1>1, <2>1 DEF Faithful
  <2>3. Unfinished' = Unfinished /\ Restorable(batches)' = Restorable(stored)
    BY <1>1 DEF Unfinished, Restoring
  <2>4. debt.open => board = Empty /\ debt.fresh = Empty /\ debt'.owed = Restorable(stored)
    BY <1>7, <1>10, <2>1 DEF Faithful
  <2>5. ~debt.open => board = Whole'
    <3>1. ~debt.open => debt'.owed = debt.owed
      BY <1>7, <1>10
    <3>2. debt'.fresh = debt.fresh
      BY <1>7, <1>10
    <3> QED  BY <2>1, <3>1, <3>2 DEF Faithful, Whole
  <2>6. Unfinished => debt.fresh = Empty /\ debt'.owed = Restorable(stored) /\ debt'.owed = debt.owed
    BY <1>7, <1>10, <2>1 DEF Faithful
  <2>7. \A j \in Instances : runner[j].pc \in {"delete", "add"} => ScoresOf(runner[j].rows) = debt'.owed
    <3>1. \A j \in Instances : runner[j].pc \in {"delete", "add"} => Unfinished
      BY DEF Unfinished, Restoring
    <3> QED  BY <2>1, <2>6, <3>1 DEF Faithful
  <2>8. \A command \in late : ScoresOf(command.rows) = debt'.owed
    <3>1. late # {} => Unfinished
      BY DEF Unfinished
    <3> QED  BY <2>1, <2>6, <3>1 DEF Faithful
  <2> QED  BY <1>1, <1>7, <1>10, <2>2, <2>3, <2>4, <2>5, <2>6, <2>7, <2>8 DEF Faithful
<1> QED  BY <1>8, <1>9, <1>10 DEF Inv

(* The board is lost: what is owed from now on is the newest snapshot.     *)
LEMMA LoseKeeps == ASSUME Inv, LoseBoard PROVE Inv'
<1> DEFINE open == DOMAIN batches # {} \/ \E i \in Instances : capture[i].pc = "commit"
<1>1. /\ UNCHANGED <<taken, capture, batches, runner, manual, late, wire, faults, earned>>
      /\ board' = Empty /\ excused' \in [Instances -> BOOLEAN]
      /\ debt' = IF Unfinished THEN Spoiled
                 ELSE [open |-> open, owed |-> Restorable(batches), fresh |-> Empty, spoiled |-> FALSE]
  BY DEF LoseBoard, snapshots
<1>2. open \in BOOLEAN
  OBVIOUS
<1>3. ~open => DOMAIN batches = {} /\ \A i \in Instances : capture[i].pc # "commit"
  OBVIOUS
<1> HIDE DEF open
<1>4. /\ debt' \in Debts
      /\ ~debt'.spoiled => /\ ~Unfinished /\ debt'.open = open
                           /\ debt'.owed = Restorable(batches) /\ debt'.fresh = Empty
  <2>1. CASE Unfinished
    BY <1>1, <2>1, SpoiledIs
  <2>2. CASE ~Unfinished
    BY <1>1, <1>2, <2>2, StateIs, BatchesAre DEF Debts
  <2> QED  BY <2>1, <2>2
<1>5. Shape'
  BY <1>1, <1>4, StateIs DEF Inv, Shape
<1>6. Bounded'
  <2>1. \A u \in Users : board'[u] <= earned[u]
    BY <1>1, StateIs DEF Empty, Scores
  <2> QED  BY <1>1, <2>1 DEF Inv, Bounded, Sound, Earned
<1>7. ASSUME ~debt'.spoiled PROVE Faithful'
  <2>1. ~Unfinished /\ ~Unfinished' /\ Restorable(batches)' = Restorable(batches)
    BY <1>1, <1>4, <1>7 DEF Unfinished, Restoring
  <2>2. late' = {} /\ \A i \in Instances : runner'[i].pc \notin {"delete", "add"}
    BY <1>1, <2>1 DEF Unfinished, Restoring
  <2>3. ~open => board' = Whole'
    <3>1. ASSUME ~open PROVE Whole' = Empty
      <4>1. debt'.owed = Empty /\ debt'.fresh = Empty
        BY <1>3, <1>4, <1>7, <3>1, BatchesAre
      <4>2. \A u \in Users : debt'.owed[u] + debt'.fresh[u] = 0
        BY <4>1 DEF Empty
      <4> QED  BY <4>2 DEF Whole, Empty
    <3> QED  BY <1>1, <3>1
  <2> QED  BY <1>1, <1>3, <1>4, <1>7, <2>1, <2>2, <2>3 DEF Faithful
<1> QED  BY <1>5, <1>6, <1>7 DEF Inv
----------------------------------------------------------------------------
LEMMA StartsWell == ASSUME Init PROVE Inv
<1>1. board \in Scores /\ Empty \in Scores /\ earned = board
  BY RecoveryAssumption DEF Init, RecoveryAssumption, Scores, Empty
<1>2. /\ debt.open = FALSE /\ debt.owed = board /\ debt.fresh = Empty /\ debt.spoiled = FALSE
      /\ debt \in Debts
  BY <1>1 DEF Init, Debts
<1>3. DOMAIN batches = {}
  BY DEF Init
<1>4. /\ capture \in [Instances -> Captures] /\ runner \in [Instances -> Starts]
      /\ \A i \in Instances : capture[i] = Idle /\ capture[i].pc = "idle"
      /\ \A i \in Instances : runner[i].pc = "down"
  BY DEF Init, Captures, Starts, Idle, Down
<1>5. Shape
  BY <1>1, <1>2, <1>3, <1>4 DEF Init, Shape
<1>6. Bounded
  <2>1. \A u \in Users : board[u] <= earned[u]
    BY <1>1 DEF Scores
  <2> QED  BY <1>3, <1>4, <2>1 DEF Init, Bounded
<1>7. Faithful
  <2>1. ~Unfinished
    BY <1>4 DEF Init, Unfinished, Restoring
  <2>2. board = Whole
    <3>1. \A u \in Users : board[u] \in Nat /\ debt.fresh[u] = 0 /\ debt.owed[u] = board[u]
      BY <1>1, <1>2 DEF Scores, Empty
    <3>2. \A u \in Users : Whole[u] = board[u]
      BY <3>1 DEF Whole
    <3> QED  BY <1>1, <3>2 DEF Whole, Scores
  <2> QED  BY <1>2, <1>3, <1>4, <2>1, <2>2 DEF Init, Faithful
<1> QED  BY <1>5, <1>6, <1>7 DEF Inv

LEMMA StepKeeps == ASSUME Inv, [Next]_vars PROVE Inv'
<1>1. ASSUME NEW i \in Instances,
             StartServing(i) \/ Recover(i) \/ RecoveryFails(i) \/ Crash(i) \/ Snapshot(i)
      PROVE  Inv'
  <2>1. CASE StartServing(i) \/ OpenManually(i) \/ ClearManualOverride(i)
    BY <2>1, StartKeeps
  <2>2. CASE RecoveryFails(i) \/ Exit(i) \/ Crash(i)
    BY <2>2, EndKeeps
  <2>3. CASE CountRanks(i) \/ FindSnapshot(i) \/ DeleteRanks(i) \/ AddRanks(i)
    BY <2>3, CountKeeps, FindKeeps, DeleteKeeps, AddKeeps
  <2>4. CASE BeginCapture(i) \/ ReadTop(i) \/ CaptureFails(i) \/ CommitCapture(i)
    BY <2>4, CaptureKeeps, CommitKeeps
  <2> QED  BY <1>1, <2>1, <2>2, <2>3, <2>4 DEF Recover, Snapshot
<1>2. ASSUME NEW i \in Instances, NEW u \in Users, Send(i, u) PROVE Inv'
  BY <1>2, SendKeeps
<1>3. ASSUME NEW call \in wire, ApplyEvent(call) PROVE Inv'
  BY <1>3, ApplyKeeps
<1>4. ASSUME NEW command \in late, RunLate(command) PROVE Inv'
  BY <1>4, LateKeeps
<1>5. CASE LoseBoard
  BY <1>5, LoseKeeps
<1>6. CASE UNCHANGED vars
  <2>1. UNCHANGED <<board, taken, capture, batches, runner, manual, late, excused, wire, faults, earned, debt>>
    BY <1>6 DEF vars, snapshots, starts
  <2>2. Shape' /\ Bounded'
    BY <2>1 DEF Inv, Shape, Bounded, Sound, Earned
  <2>3. Faithful => Faithful'
    BY <2>1 DEF Faithful, Whole, Unfinished, Restoring
  <2> QED  BY <2>1, <2>2, <2>3 DEF Inv
<1> QED  BY <1>1, <1>2, <1>3, <1>4, <1>5, <1>6 DEF Next

LEMMA InvCorrect == Spec => []Inv
<1>1. Init => Inv
  BY StartsWell
<1>2. Inv /\ [Next]_vars => Inv'
  BY StepKeeps
<1> QED  BY <1>1, <1>2, PTL DEF Spec
(* Variables keep their shapes, and rows to restore are never empty.       *)
THEOREM TypeCorrect == Spec => []TypeOK
<1>1. Inv => TypeOK
  <2> SUFFICES ASSUME Inv PROVE TypeOK
    OBVIOUS
  <2>1. ASSUME NEW i \in Instances
        PROVE  \/ runner[i] = Down
               \/ runner[i].pc \in {"serving", "count", "find", "closing", "up"}
               \/ runner[i].pc \in {"delete", "add"} /\ runner[i].rows \in Batches
               \/ runner[i].pc = "clear" /\ runner[i].result \in Results
    <3>1. runner[i] \in Starts
      BY StateIs
    <3> QED  BY <3>1, StartsAre
  <2>2. ASSUME NEW i \in Instances
        PROVE  \/ capture[i] = Idle
               \/ capture[i].at \in 1..taken /\
                    \/ capture[i].pc = "read"
                    \/ capture[i].pc = "commit" /\ capture[i].rows \in Batches
                         /\ capture[i].gone \in BOOLEAN
    <3>1. capture[i] \in Captures /\ (capture[i] # Idle => capture[i].at \in 1..taken)
      BY DEF Inv, Shape
    <3> QED  BY <3>1, CapturesAre
  <2>3. \A t \in DOMAIN batches : batches[t] \in Batches
    BY BatchesAre DEF IsBatch
  <2>4. \A command \in late : command.pc \in {"delete", "add"} /\ command.rows \in Batches
    BY StateIs DEF Commands
  <2> QED  BY <2>1, <2>2, <2>3, <2>4 DEF TypeOK, Inv, Shape, Scores, Batches, Results, Debts
<1> QED  BY <1>1, InvCorrect, PTL

(* No user ever has more points, on the board or in a snapshot, than the   *)
(* accepted events gave, however many instances restore a board, whatever  *)
(* commands run after their recovery failed, and whatever events arrive in *)
(* the middle.                                                             *)
THEOREM NoInflationHolds == Spec => []NoInflation
<1>1. Inv => NoInflation
  <2> SUFFICES ASSUME Inv PROVE NoInflation
    OBVIOUS
  <2>1. ASSUME NEW t \in DOMAIN batches, NEW k \in DOMAIN batches[t]
        PROVE  batches[t][k].score <= earned[batches[t][k].user]
    <3>1. batches[t] \in Seq(RowSet) /\ Earned(batches[t])
      BY BatchesAre DEF IsBatch, Batches
    <3>2. k \in 1..Len(batches[t])
      BY <3>1
    <3> QED  BY <3>1, <3>2 DEF Earned
  <2> QED  BY <2>1 DEF NoInflation, Inv, Bounded
<1> QED  BY <1>1, InvCorrect, PTL

(* A recovery nothing interfered with is exact, however many instances ran *)
(* it, failed in it or crashed between its delete and its add, whatever    *)
(* commands ran late, and whichever captures were on their way: a lost     *)
(* board is owed the newest snapshot, and a restored one holds it and the  *)
(* events accepted since.                                                  *)
THEOREM UndisturbedRecoveryIsExactHolds == Spec => []UndisturbedRecoveryIsExact
<1>1. Inv => UndisturbedRecoveryIsExact
  <2> SUFFICES ASSUME Inv, ~debt.spoiled
               PROVE  /\ debt.open => Restorable(batches) = debt.owed
                      /\ ~debt.open => \A u \in Users : board[u] = debt.owed[u] + debt.fresh[u]
    BY DEF UndisturbedRecoveryIsExact
  <2>1. ~debt.open => board = Whole
    BY DEF Inv, Faithful
  <2> QED  BY <2>1 DEF Inv, Faithful, Whole
<1> QED  BY <1>1, InvCorrect, PTL
----------------------------------------------------------------------------
(* Who may be up.  An instance gets past its recovery only with a ranked   *)
(* board or an excuse; and while a command is left behind, whoever is      *)
(* beyond its first step has an excuse.                                    *)
OutOf(w) == w.pc \in {"down", "serving", "closing"} \/ (w.pc = "clear" /\ w.result = "failed")
Past(w) == w.pc = "up" \/ (w.pc = "clear" /\ w.result # "failed")

Covered == board # Empty \/ \E j \in Instances : runner[j].pc = "add"

Watched ==
  /\ late # {} => \A i \in Instances : excused[i] \/ OutOf(runner[i])
  /\ \A i \in Instances : Past(runner[i]) /\ ~excused[i] => Covered

(* A step of one instance that leaves the board alone. *)
LEMMA OneMoves ==
  ASSUME Inv, Watched, UNCHANGED <<board, late>>, NEW i \in Instances, NEW w,
         runner' = [runner EXCEPT ![i] = w], runner[i].pc # "add",
         \A j \in Instances : j # i => excused'[j] = excused[j],
         late # {} => excused'[i] \/ OutOf(w),
         Past(w) /\ ~excused'[i] => Covered
  PROVE  Watched'
<1>1. \A j \in Instances : runner'[j] = IF j = i THEN w ELSE runner[j]
  BY StateIs
<1>2. late # {} => \A j \in Instances : excused'[j] \/ OutOf(runner'[j])
  BY <1>1 DEF Watched
<1>3. Covered => Covered'
  <2>1. CASE board # Empty
    BY <2>1 DEF Covered, Empty
  <2>2. CASE \E j \in Instances : runner[j].pc = "add"
    <3>1. PICK j \in Instances : runner[j].pc = "add"
      BY <2>2
    <3>2. runner'[j].pc = "add"
      BY <1>1, <3>1
    <3> QED  BY <3>2 DEF Covered
  <2> QED  BY <2>1, <2>2 DEF Covered
<1>4. \A j \in Instances : Past(runner'[j]) /\ ~excused'[j] => Covered
  BY <1>1 DEF Watched
<1> QED  BY <1>2, <1>3, <1>4 DEF Watched, OutOf, Past

LEMMA StartIsWatched ==
  ASSUME Inv, Watched, NEW i \in Instances,
         \/ StartServing(i) \/ OpenManually(i) \/ CountRanks(i) \/ FindSnapshot(i)
         \/ ClearManualOverride(i) \/ Exit(i)
  PROVE  Watched'
<1> DEFINE Held(w) == late # {} => excused'[i] \/ OutOf(w)
           Safe(w) == Past(w) /\ ~excused'[i] => Covered
<1>0. /\ late # {} => excused[i] \/ OutOf(runner[i])
      /\ Past(runner[i]) /\ ~excused[i] => Covered
  BY DEF Watched
<1>1. UNCHANGED <<board, late>> /\ runner[i].pc # "add"
  BY DEF StartServing, OpenManually, CountRanks, FindSnapshot, ClearManualOverride, Exit, Down, snapshots
<1>2. \A j \in Instances : j # i => excused'[j] = excused[j]
  BY DEF StartServing, OpenManually, CountRanks, FindSnapshot, ClearManualOverride, Exit, Inv, Shape
<1>3. CASE StartServing(i)
  <2>1. runner' = [runner EXCEPT ![i] = [pc |-> "serving"]]
    BY <1>3 DEF StartServing
  <2>2. Held([pc |-> "serving"]) /\ Safe([pc |-> "serving"])
    BY DEF OutOf, Past
  <2> QED  BY <1>1, <1>2, <2>1, <2>2, OneMoves
<1>4. CASE OpenManually(i)
  <2>1. runner' = [runner EXCEPT ![i] = [pc |-> "count"]] /\ excused'[i] = (late # {})
    BY <1>4 DEF OpenManually, Inv, Shape
  <2>2. Held([pc |-> "count"]) /\ Safe([pc |-> "count"])
    BY <2>1 DEF OutOf, Past
  <2> QED  BY <1>1, <1>2, <2>1, <2>2, OneMoves
<1>5. CASE CountRanks(i)
  <2>0. excused' = excused /\ runner[i].pc = "count"
    BY <1>5 DEF CountRanks
  <2>1. late # {} => excused'[i]
    BY <1>0, <2>0 DEF OutOf
  <2>2. CASE AlreadyWarm(board)
    <3>1. runner' = [runner EXCEPT ![i] = Outcome("skipped")]
      BY <1>5, <2>2 DEF CountRanks
    <3>2. Covered
      BY <2>2, RankedIs, StateIs DEF AlreadyWarm, Covered
    <3> QED  BY <1>1, <1>2, <2>1, <3>1, <3>2, OneMoves
  <2>3. CASE ~AlreadyWarm(board)
    <3>1. runner' = [runner EXCEPT ![i] = [pc |-> "find"]]
      BY <1>5, <2>3 DEF CountRanks
    <3>2. ~Past([pc |-> "find"])
      BY DEF Past
    <3> QED  BY <1>1, <1>2, <2>1, <3>1, <3>2, OneMoves
  <2> QED  BY <2>2, <2>3
<1>6. CASE FindSnapshot(i)
  <2>0. excused'[i] = (excused[i] \/ DOMAIN batches = {}) /\ runner[i].pc = "find"
    BY <1>6 DEF FindSnapshot, Inv, Shape
  <2>1. late # {} => excused'[i]
    BY <1>0, <2>0 DEF OutOf
  <2>2. CASE DOMAIN batches = {}
    <3>1. runner' = [runner EXCEPT ![i] = Outcome("skipped")] /\ excused'[i]
      BY <1>6, <2>0, <2>2 DEF FindSnapshot
    <3> QED  BY <1>1, <1>2, <2>1, <3>1, OneMoves
  <2>3. CASE DOMAIN batches # {}
    <3> DEFINE w == [pc |-> "delete", rows |-> RestoredRows(LatestBatch)]
    <3>1. runner' = [runner EXCEPT ![i] = w]
      BY <1>6, <2>3 DEF FindSnapshot
    <3>2. ~Past(w)
      BY DEF Past
    <3> HIDE DEF w
    <3> QED  BY <1>1, <1>2, <2>1, <3>1, <3>2, OneMoves
  <2> QED  BY <2>2, <2>3
<1>7. CASE ClearManualOverride(i)
  <2> DEFINE w == StartupAfter(runner[i].result)
  <2>1. runner' = [runner EXCEPT ![i] = w] /\ excused' = excused /\ runner[i].pc = "clear"
    BY <1>7, StateIs DEF ClearManualOverride
  <2>2. w = IF runner[i].result = "failed" THEN [pc |-> "closing"] ELSE [pc |-> "up"]
    BY DEF StartupAfter
  <2> HIDE DEF w
  <2>3. Held(w) /\ Safe(w)
    BY <1>0, <2>1, <2>2 DEF OutOf, Past
  <2> QED  BY <1>1, <1>2, <2>1, <2>3, OneMoves
<1>8. CASE Exit(i)
  <2>1. runner' = [runner EXCEPT ![i] = Down]
    BY <1>8 DEF Exit
  <2>2. Held(Down) /\ Safe(Down)
    BY DEF Down, OutOf, Past
  <2> QED  BY <1>1, <1>2, <2>1, <2>2, OneMoves
<1> QED  BY <1>3, <1>4, <1>5, <1>6, <1>7, <1>8

(* Who fails is out of it, and excuses the others. *)
LEMMA FaultIsWatched ==
  ASSUME Inv, NEW i \in Instances, RecoveryFails(i) \/ Crash(i)
  PROVE  Watched'
<1>1. \A j \in Instances : j # i => excused'[j]
  BY DEF RecoveryFails, Crash, OthersExcused
<1>2. runner' = [runner EXCEPT ![i] = Outcome("failed")] \/ runner' = [runner EXCEPT ![i] = Down]
  BY DEF RecoveryFails, Crash
<1>3. runner'[i] = Outcome("failed") \/ runner'[i] = Down
  BY <1>2, StateIs
<1>4. OutOf(runner'[i]) /\ ~Past(runner'[i])
  BY <1>3 DEF OutOf, Past, Outcome, Down
<1> QED  BY <1>1, <1>4 DEF Watched, OutOf, Past

(* The delete leaves its instance about to add, and the add, like an       *)
(* event, leaves a ranked board.                                           *)
LEMMA CommandIsWatched ==
  ASSUME Inv, Watched, NEW i \in Instances, DeleteRanks(i) \/ AddRanks(i)
  PROVE  Watched'
<1> DEFINE w == IF runner[i].pc = "delete" THEN [pc |-> "add", rows |-> runner[i].rows]
                ELSE Outcome("recovered")
<1>1. UNCHANGED <<late, excused>> /\ runner' = [runner EXCEPT ![i] = w] /\ runner[i].pc \in {"delete", "add"}
  BY StateIs DEF DeleteRanks, AddRanks
<1>2. \A j \in Instances : runner'[j] = IF j = i THEN w ELSE runner[j]
  BY <1>1, StateIs
<1>3. runner[i].pc = "delete" => w.pc = "add"
  OBVIOUS
<1> HIDE DEF w
<1>4. ~OutOf(runner[i])
  BY <1>1 DEF OutOf
<1>5. late # {} => \A j \in Instances : excused[j] \/ OutOf(runner'[j])
  BY <1>2, <1>4 DEF Watched
<1>6. Covered'
  <2>1. CASE DeleteRanks(i)
    <3>1. runner'[i].pc = "add"
      BY <1>2, <1>3, <2>1 DEF DeleteRanks
    <3> QED  BY <3>1 DEF Covered
  <2>2. CASE AddRanks(i)
    <3> DEFINE rows == runner[i].rows
    <3>1. board' = Added(board, rows) /\ runner[i].pc = "add"
      BY <2>2 DEF AddRanks
    <3>2. IsBatch(rows)
      BY <3>1 DEF Inv, Bounded, Sound
    <3> HIDE DEF rows
    <3>3. 1 \in 1..Len(rows)
      BY <3>2, EmptySeq DEF IsBatch, Batches
    <3>4. rows[1].user \in Listed(rows) /\ rows[1].user \in Users
      BY <3>2, <3>3, ScoresOfAre DEF Listed
    <3>5. ScoresOf(rows)[rows[1].user] > 0 /\ ScoresOf(rows)[rows[1].user] \in Nat
      BY <3>2, <3>4, ScoresOfAre DEF Scores
    <3>6. board'[rows[1].user] = ScoresOf(rows)[rows[1].user]
      BY <3>1, <3>4, <3>5 DEF Added
    <3>7. Empty[rows[1].user] = 0
      BY <3>4 DEF Empty
    <3>8. board' # Empty
      BY <3>5, <3>6, <3>7
    <3> QED  BY <3>8 DEF Covered, Empty
  <2> QED  BY <2>1, <2>2
<1> QED  BY <1>1, <1>5, <1>6 DEF Watched, OutOf, Past

LEMMA LateIsWatched ==
  ASSUME Watched, NEW command \in late, RunLate(command)
  PROVE  Watched'
<1>1. UNCHANGED <<runner, excused>> /\ late # {}
  BY DEF RunLate
<1>2. \A i \in Instances : excused[i] \/ OutOf(runner[i])
  BY <1>1 DEF Watched
<1>3. \A i \in Instances : OutOf(runner[i]) => ~Past(runner[i])
  BY DEF OutOf, Past
<1> QED  BY <1>1, <1>2, <1>3 DEF Watched, OutOf, Past

LEMMA EventIsWatched ==
  ASSUME Inv, Watched, NEW call \in wire, ApplyEvent(call)
  PROVE  Watched'
<1>1. UNCHANGED <<runner, late, excused>> /\ board' = [board EXCEPT ![call.user] = @ + 1]
  BY DEF ApplyEvent, starts
<1>2. call.user \in Users /\ board[call.user] \in Nat
  BY StateIs DEF Inv, Shape, Scores
<1>3. board'[call.user] = board[call.user] + 1
  BY <1>1, <1>2, StateIs DEF Scores
<1>4. board'[call.user] # 0
  BY <1>2, <1>3
<1>5. board' # Empty
  BY <1>2, <1>4 DEF Empty
<1>6. Covered'
  BY <1>5 DEF Covered, Empty
<1> QED  BY <1>1, <1>6 DEF Watched, OutOf, Past

LEMMA WatchedStays == ASSUME Inv, Watched, [Next]_vars PROVE Watched'
<1>1. UNCHANGED <<board, late, runner, excused>> => Watched'
  BY DEF Watched, Covered, Empty, OutOf, Past
<1>2. ASSUME NEW i \in Instances,
             StartServing(i) \/ Recover(i) \/ RecoveryFails(i) \/ Crash(i) \/ Snapshot(i)
      PROVE  Watched'
  <2>1. CASE Snapshot(i)
    BY <1>1, <2>1 DEF Snapshot, BeginCapture, ReadTop, CaptureFails, CommitCapture, starts
  <2>2. CASE RecoveryFails(i) \/ Crash(i)
    BY <2>2, FaultIsWatched
  <2>3. CASE DeleteRanks(i) \/ AddRanks(i)
    BY <2>3, CommandIsWatched
  <2>4. CASE \/ StartServing(i) \/ OpenManually(i) \/ CountRanks(i) \/ FindSnapshot(i)
             \/ ClearManualOverride(i) \/ Exit(i)
    BY <2>4, StartIsWatched
  <2> QED  BY <1>2, <2>1, <2>2, <2>3, <2>4 DEF Recover
<1>3. ASSUME NEW i \in Instances, NEW u \in Users, Send(i, u) PROVE Watched'
  BY <1>1, <1>3 DEF Send, starts
<1>4. ASSUME NEW call \in wire, ApplyEvent(call) PROVE Watched'
  BY <1>4, EventIsWatched
<1>5. ASSUME NEW command \in late, RunLate(command) PROVE Watched'
  BY <1>5, LateIsWatched
<1>6. CASE LoseBoard
  <2>1. late' = late /\ \A i \in Instances : excused'[i]
    BY <1>6 DEF LoseBoard
  <2> QED  BY <2>1 DEF Watched
<1>7. CASE UNCHANGED vars
  BY <1>1, <1>7 DEF vars, starts
<1> QED  BY <1>2, <1>3, <1>4, <1>5, <1>6, <1>7 DEF Next

(* An instance that is up and has no excuse is in front of a ranked board, *)
(* but for the moment between the delete and the add of another one: also  *)
(* when instances delete and add across each other.                        *)
THEOREM UpMeansRankedHolds == Spec => []UpMeansRanked
<1>1. Init => Watched
  BY DEF Init, Watched, Down, Past
<1>2. Inv /\ Watched /\ [Next]_vars => Watched'
  BY WatchedStays
<1>3. Inv /\ Watched => UpMeansRanked
  BY StateIs, RankedIs DEF Watched, Covered, Past, UpMeansRanked
<1> QED  BY <1>1, <1>2, <1>3, InvCorrect, PTL DEF Spec
=============================================================================
