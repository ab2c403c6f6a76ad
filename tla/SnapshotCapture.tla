--------------------------- MODULE SnapshotCapture ---------------------------
(***************************************************************************)
(* The snapshots of one leaderboard: the scheduler thread of each instance *)
(* takes a PostgreSQL advisory lock, reads the top of the Redis board and  *)
(* stores it as one batch, in a transaction, in up to MaxAttempts attempts *)
(* under one snapshotAt.  The lock belongs to the session, that is to a    *)
(* pooled connection, and is returned before the transaction commits.      *)
(* Redis may lose what it has not yet synced to its append-only file.      *)
(***************************************************************************)
EXTENDS Board, Sequences, TLC, SequencesExt

CONSTANTS Instances,
          PoolSize,      \* connections of an instance's pool
          Registered,    \* users that have a row in the users table
          TopN,          \* snapshots.worker.top-n
          MaxAttempts,   \* snapshots.worker.max-attempts
          StartScores,   \* bound: the scores before the first capture
          MaxPoints,     \* bound: points given after it, to all users together
          MaxClock,      \* bound: time
          MaxFaults,     \* bound: faults of the kinds below
          FaultKinds     \* the faults of the environment

ASSUME SnapshotAssumption ==
  /\ Registered \subseteq Users
  /\ {PoolSize, TopN, MaxAttempts} \subseteq Nat \ {0}
  /\ StartScores \cup {MaxPoints, MaxClock, MaxFaults} \subseteq Nat

VARIABLES
  board,        \* the ZSET: a user's score, 0 when absent
  aof,          \* the board in Redis's append-only file, as last synced
  clock,
  batches,      \* committed snapshots: snapshot_at -> set of entries
  lock,         \* how many times each session holds the advisory lock
  worker,       \* what each instance's capture is doing
  lastSuccess,  \* SnapshotStatusTracker of each instance, 0 before the first
  faults,
  since         \* history: the board at each time, as far as Redis kept it

vars == <<board, aof, clock, batches, lock, worker, lastSuccess, faults, since>>

Conns == Instances \X (1..PoolSize)
Idle == [pc |-> "idle"]

Fault(kind) ==
  /\ kind \in FaultKinds
  /\ faults < MaxFaults
  /\ faults' = faults + 1

Init ==
  /\ \E k \in StartScores : board = [u \in Users |-> k]
  /\ aof = board
  /\ clock = 1
  /\ batches = << >>
  /\ lock = [c \in Conns |-> 0]
  /\ worker = [i \in Instances |-> Idle]
  /\ lastSuccess = [i \in Instances |-> 0]
  /\ faults = 0
  /\ since = [t \in {1} |-> board]

----------------------------------------------------------------------------
(* ZREVRANGE 0 TopN-1 *)
Top(b) == ReverseRange(b, 0, TopN)

(* Competition ranking: a rank is the position where its score first came. *)
RankIsPosition(order, b) == [k \in 1..Len(order) |-> k]        \* mutated form of Ranks
Ranks(order, b) ==
  LET rank[k \in 1..Len(order)] ==
        IF k = 1 THEN 1 ELSE IF b[order[k]] # b[order[k - 1]] THEN k ELSE rank[k - 1]
  IN  rank

Rows(order, b) ==
  {[user |-> order[k], rank |-> Ranks(order, b)[k], score |-> b[order[k]]] : k \in 1..Len(order)}

----------------------------------------------------------------------------
(* A leaderboard's turn in captureAllLeaderboards: snapshotAt is taken     *)
(* once, for all the attempts.                                             *)
Begin(i) ==
  /\ worker[i] = Idle
  /\ worker' = [worker EXCEPT ![i] = [pc |-> "lock", at |-> clock, attempt |-> 1]]
  /\ UNCHANGED <<board, aof, clock, batches, lock, lastSuccess, faults, since>>

(* An exception reached the retry loop, after the rollback. *)
Retried(i) ==
  IF worker[i].attempt = MaxAttempts THEN Idle
  ELSE [pc |-> "lock", at |-> worker[i].at, attempt |-> worker[i].attempt + 1]

LockOfTheJvm(c) == \E d \in Conns : d # c /\ d[1] = c[1] /\ lock[d] > 0   \* mutated form of HeldElsewhere
OtherIsBusy(c) == \E j \in Instances \ {c[1]} : worker[j] # Idle          \* mutated form of HeldElsewhere
HeldElsewhere(c) == \E d \in Conns : d # c /\ lock[d] > 0

(* The transaction begins on some connection of the pool; tryLock is its   *)
(* first statement and may throw.  Not getting the lock ends the turn.     *)
TryLock(i) ==
  /\ worker[i].pc = "lock"
  /\ \/ \E c \in {i} \X (1..PoolSize) :
          /\ ~HeldElsewhere(c)
          /\ lock' = [lock EXCEPT ![c] = @ + 1]
          /\ worker' = [worker EXCEPT ![i] = [pc |-> "read", at |-> @.at, attempt |-> @.attempt,
                                             conn |-> c, lost |-> FALSE]]
          /\ UNCHANGED faults
     \/ /\ \E c \in {i} \X (1..PoolSize) : HeldElsewhere(c)
        /\ worker' = [worker EXCEPT ![i] = Idle]
        /\ UNCHANGED <<lock, faults>>
     \/ /\ Fault("sql")
        /\ worker' = [worker EXCEPT ![i] = Retried(i)]
        /\ UNCHANGED lock
  /\ UNCHANGED <<board, aof, clock, batches, lastSuccess, since>>

(* What the transaction has come to when its capture returns or throws:    *)
(* saved rows, "empty", "redis" or "sql" (the transaction is aborted).     *)
Captured(i, outcome, rows) ==
  [pc |-> "unlock", at |-> worker[i].at, attempt |-> worker[i].attempt,
   conn |-> worker[i].conn, lost |-> worker[i].lost, outcome |-> outcome, rows |-> rows]

(* Reading the board; an empty one is not stored. *)
EmptyStored(order) == FALSE                                    \* mutated form of EmptyGuard
EmptyGuard(order) == order = << >>

Read(i) ==
  /\ worker[i].pc = "read"
  /\ \/ /\ worker' = [worker EXCEPT ![i] =
             IF EmptyGuard(Top(board)) THEN Captured(i, "empty", {})
             ELSE [pc |-> "save", at |-> @.at, attempt |-> @.attempt, conn |-> @.conn,
                   lost |-> @.lost, rows |-> Rows(Top(board), board)]]
        /\ UNCHANGED faults
     \/ Fault("redis") /\ worker' = [worker EXCEPT ![i] = Captured(i, "redis", {})]
  /\ UNCHANGED <<board, aof, clock, batches, lock, lastSuccess, since>>

(* Upsert, delete, insert.  An upsert of the same batch waits for the      *)
(* transaction that wrote it first.  A user without a row breaks the       *)
(* foreign key; any failing statement aborts the transaction.              *)
Save(i) ==
  /\ worker[i].pc = "save"
  /\ ~ \E j \in Instances \ {i} :
         /\ worker[j].pc \in {"unlock", "commit"} /\ worker[j].rows # {}
         /\ worker[j].at = worker[i].at
  /\ IF ~worker[i].lost /\ \A r \in worker[i].rows : r.user \in Registered
     THEN \/ /\ worker' = [worker EXCEPT ![i] = Captured(i, "saved", @.rows)]
             /\ UNCHANGED faults
          \/ Fault("sql") /\ worker' = [worker EXCEPT ![i] = Captured(i, "sql", {})]
     ELSE worker' = [worker EXCEPT ![i] = Captured(i, "sql", {})] /\ UNCHANGED faults
  /\ UNCHANGED <<board, aof, clock, batches, lock, lastSuccess, since>>

(* The finally block.  In an aborted transaction the unlock is refused as  *)
(* any statement is: the session keeps the lock and returns to the pool.   *)
Unlock(i) ==
  /\ worker[i].pc = "unlock"
  /\ lock' = IF worker[i].lost \/ worker[i].outcome = "sql" THEN lock
             ELSE [lock EXCEPT ![worker[i].conn] = @ - 1]
  /\ worker' = [worker EXCEPT ![i] =
       IF @.lost \/ @.outcome \in {"redis", "sql"} THEN Retried(i)
       ELSE IF @.outcome = "empty" THEN Idle
       ELSE [pc |-> "commit", at |-> @.at, attempt |-> @.attempt, conn |-> @.conn,
             lost |-> FALSE, rows |-> @.rows]]
  /\ UNCHANGED <<board, aof, clock, batches, lastSuccess, faults, since>>

(* The rows replace those an earlier attempt may have committed. *)
RowsAdded(i) ==                                                \* mutated form of Stored
  LET old == IF worker[i].at \in DOMAIN batches THEN batches[worker[i].at] ELSE {}
      kept == {r \in old : \A s \in worker[i].rows : r.user # s.user}
  IN  (worker[i].at :> (worker[i].rows \cup kept)) @@ batches
StampedAtCommit(i) == (clock :> worker[i].rows) @@ batches     \* mutated form of Stored
Stored(i) ==
  [t \in DOMAIN batches \cup {worker[i].at} |->
     IF t = worker[i].at THEN worker[i].rows ELSE batches[t]]

(* An exception from the commit is retried like any other. *)
FailureIgnored(i) ==                                           \* mutated form of CommitThrew
  /\ worker' = [worker EXCEPT ![i] = Idle]
  /\ lastSuccess' = [lastSuccess EXCEPT ![i] = worker[i].at]
CommitThrew(i) ==
  /\ worker' = [worker EXCEPT ![i] = Retried(i)]
  /\ UNCHANGED lastSuccess

(* COMMIT, whose answer may be lost, and recordSuccess after it. *)
Commit(i) ==
  /\ worker[i].pc = "commit"
  /\ IF worker[i].lost THEN CommitThrew(i) /\ UNCHANGED <<batches, faults>>
     ELSE \/ /\ batches' = Stored(i)
             /\ worker' = [worker EXCEPT ![i] = Idle]
             /\ lastSuccess' = [lastSuccess EXCEPT ![i] = worker[i].at]
             /\ UNCHANGED faults
          \/ /\ Fault("commit")
             /\ batches' \in {batches, Stored(i)}
             /\ CommitThrew(i)
  /\ UNCHANGED <<board, aof, clock, lock, since>>

(* The database closes a session: its locks are gone at once, and the      *)
(* transaction it was in fails at its next statement.                      *)
InTransaction(i) == worker[i].pc \in {"read", "save", "unlock", "commit"}
LoseSession(c) ==
  /\ Fault("session")
  /\ lock' = [lock EXCEPT ![c] = 0]
  /\ worker' = [i \in Instances |->
       IF InTransaction(i) /\ worker[i].conn = c THEN [worker[i] EXCEPT !.lost = TRUE]
       ELSE worker[i]]
  /\ UNCHANGED <<board, aof, clock, batches, lastSuccess, since>>

(* A killed instance comes back with new sessions and an empty tracker. *)
Restart(i) ==
  /\ Fault("crash")
  /\ lock' = [c \in Conns |-> IF c[1] = i THEN 0 ELSE lock[c]]
  /\ worker' = [worker EXCEPT ![i] = Idle]
  /\ lastSuccess' = [lastSuccess EXCEPT ![i] = 0]
  /\ UNCHANGED <<board, aof, clock, batches, since>>

----------------------------------------------------------------------------
Score(u) ==
  /\ FoldFunction(+, 0, board) < FoldFunction(+, 0, since[1]) + MaxPoints
  /\ board' = [board EXCEPT ![u] = @ + 1]
  /\ UNCHANGED <<aof, clock, batches, lock, worker, lastSuccess, faults, since>>

(* appendfsync everysec. *)
Fsync ==
  /\ aof # board
  /\ aof' = board
  /\ UNCHANGED <<board, clock, batches, lock, worker, lastSuccess, faults, since>>

(* Redis comes back from its file, or with nothing. *)
Less(m, n) == IF m < n THEN m ELSE n
RestartRedis ==
  /\ Fault("loss")
  /\ board' \in {aof, [u \in Users |-> 0]}
  /\ aof' = board'
  /\ since' = [t \in DOMAIN since |-> [u \in Users |-> Less(since[t][u], board'[u])]]
  /\ UNCHANGED <<clock, batches, lock, worker, lastSuccess>>

Tick ==
  /\ clock < MaxClock
  /\ clock' = clock + 1
  /\ since' = [t \in 1..(clock + 1) |-> IF t = clock + 1 THEN board ELSE since[t]]
  /\ UNCHANGED <<board, aof, batches, lock, worker, lastSuccess, faults>>

CaptureStep(i) ==
  \/ Begin(i) \/ TryLock(i) \/ Read(i) \/ Save(i) \/ Unlock(i) \/ Commit(i)

Next ==
  \/ \E i \in Instances : CaptureStep(i) \/ Restart(i)
  \/ \E c \in Conns : LoseSession(c)
  \/ \E u \in Users : Score(u)
  \/ Fsync \/ RestartRedis \/ Tick

Spec == Init /\ [][Next]_vars

(* The scheduler comes round to the capture and runs it to its end. *)
FairSpec == Spec /\ \A i \in Instances : WF_vars(CaptureStep(i))

----------------------------------------------------------------------------
Entries == [user : Users, rank : Nat \ {0}, score : Nat \ {0}]

(* The variables keep their shapes, and no committed batch is empty. *)
TypeOK ==
  /\ board \in [Users -> Nat] /\ aof \in [Users -> Nat]
  /\ clock \in Nat \ {0}
  /\ DOMAIN batches \subseteq 1..clock
  /\ \A t \in DOMAIN batches :
       batches[t] # {} /\ batches[t] \subseteq Entries
  /\ lock \in [Conns -> Nat]
  /\ \A i \in Instances :
       worker[i].pc \in {"idle", "lock", "read", "save", "unlock", "commit"}
  /\ lastSuccess \in [Instances -> 0..clock]
  /\ faults \in Nat

(* A committed batch is one ranking of the board, whatever attempts and    *)
(* instances stored it: at most TopN entries, of distinct users, each with *)
(* a rank one more than the number of entries above it.                    *)
(* (RedisSnapshotRankingQueryRepository 45-69; SnapshotEntries-            *)
(* RepositoryAdapter 35-59.)                                               *)
BatchIsARanking ==
  \A t \in DOMAIN batches : Cardinality(batches[t]) <= TopN /\ \A r \in batches[t] :
    /\ r.rank = 1 + Cardinality({s \in batches[t] : s.score > r.score})
    /\ \A s \in batches[t] : r.user = s.user => r = s

(* A batch is never older than it says: whoever had a score at             *)
(* snapshot_at that Redis has not lost since is on it with at least that   *)
(* score, or a whole page of others is no lower.  Recovery then loses no   *)
(* more than what came after snapshot_at, or what Redis itself lost.       *)
(* (SnapshotCaptureWorker 74-80; PRD lines 502, 506, 509 and 544.)         *)
NotOlderThanItsTime ==
  \A t \in DOMAIN batches : \A u \in Users : since[t][u] > 0 =>
    \/ \E r \in batches[t] : r.user = u /\ r.score >= since[t][u]
    \/ Cardinality(batches[t]) = TopN /\ \A r \in batches[t] : r.score >= since[t][u]

(* The last success an instance reports is a batch that is in the table:   *)
(* also when commits fail, or take effect without an answer.               *)
(* (SnapshotCaptureWorker 96.)                                             *)
TrackerIsTruthful ==
  \A i \in Instances : lastSuccess[i] # 0 => lastSuccess[i] \in DOMAIN batches

(* A session holds the lock that no capture in it is using. *)
Using(i, c) == worker[i].pc \in {"read", "save", "unlock"} /\ ~worker[i].lost /\ worker[i].conn = c
Leaked == \E c \in Conns : lock[c] > Cardinality({i \in Instances : Using(i, c)})

(* "Returns the lock whether or not there was an exception."               *)
(* (SnapshotCaptureExecutionService 43.)                                   *)
LockReturned == ~Leaked

(* Two captures never work under the lock together, also when locks leak   *)
(* and are taken again by their own session.  (PRD lines 398 and 449.)     *)
OneCaptureAtATime ==
  \A i, j \in Instances : \A c, d \in Conns : Using(i, c) /\ Using(j, d) => i = j

(* A board that has scores gets a snapshot, unless Redis loses it first or *)
(* an aborted transaction has left its lock in a pool.                     *)
SnapshotTaken ==
  (\E u \in Users : board[u] > 0)
    ~> DOMAIN batches # {} \/ Leaked \/ \A u \in Users : board[u] = 0
=============================================================================
