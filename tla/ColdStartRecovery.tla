-------------------------- MODULE ColdStartRecovery --------------------------
(***************************************************************************)
(* The cold start of one leaderboard.  An instance serves requests as soon *)
(* as its web server is up; then ColdStartRecoveryRunner opens the         *)
(* instance's breaker by hand, and recover() counts the board and, when it *)
(* is empty, reads the latest snapshot, deletes the key and adds the rows: *)
(* each a command of its own, while other instances, requests that passed  *)
(* the breaker earlier and snapshots on their way to PostgreSQL go on.  A  *)
(* command whose caller gave up may still run.  Of a capture there is its  *)
(* time, its read and its commit, which comes after the lock is returned,  *)
(* so that reads and commits of several instances come in any order        *)
(* (SnapshotCapture has the steps between).  An event gives one point.     *)
(***************************************************************************)
EXTENDS Board, Sequences

CONSTANTS Instances,
          TopN,          \* snapshots.worker.top-n
          RecoverN,      \* snapshots.recovery.top-n
          Boards,        \* bound: the boards at the beginning
          MaxEvents,     \* bound: events sent
          MaxSnapshots,  \* bound: captures begun
          MaxLosses,     \* bound: times Redis loses the board
          MaxFaults      \* bound: crashes and failed recoveries

ASSUME RecoveryAssumption ==
  /\ Boards \subseteq [Users -> Nat]
  /\ {TopN, RecoverN} \subseteq Nat \ {0}
  /\ {MaxEvents, MaxSnapshots, MaxLosses, MaxFaults} \subseteq Nat

VARIABLES
  board,
  taken,     \* captures begun: a capture's number is its snapshot_at
  capture,   \* what the snapshot worker of each instance is doing
  batches,   \* committed snapshots: snapshot_at -> rows, best first
  runner,    \* how far each instance's start is
  manual,    \* manualOpenReason of each instance's breaker is set
  wire,      \* script calls that passed the breaker and have not run yet
  late,      \* commands of recoveries that gave up, which may still run
  events, losses, faults,
  earned,    \* history: points each user was given, ever
  debt,      \* history: what a restore owes since the board was lost or deleted
  excused    \* history: the instance's recovery had nothing to restore, or was
             \* followed by a loss or another's fault

snapshots == <<taken, capture, batches>>
starts == <<runner, manual, late, excused>>
vars == <<board, snapshots, starts, wire, events, losses, faults, earned, debt>>

Down == [pc |-> "down"]
Empty == [u \in Users |-> 0]

Rows(b) == LET top == ReverseRange(b, 0, TopN)
           IN  [k \in DOMAIN top |-> [user |-> top[k], score |-> b[top[k]]]]

Idle == [pc |-> "idle"]

Init ==
  /\ board \in Boards
  /\ taken = 0
  /\ capture = [i \in Instances |-> Idle]
  /\ batches = << >>
  /\ runner = [i \in Instances |-> Down]
  /\ manual = [i \in Instances |-> FALSE]
  /\ wire = {} /\ late = {}
  /\ events = 0 /\ losses = 0 /\ faults = 0
  /\ earned = board
  /\ debt = [open |-> FALSE, owed |-> board, fresh |-> Empty, spoiled |-> FALSE]
  /\ excused = [i \in Instances |-> FALSE]

----------------------------------------------------------------------------
(* The breaker lets a request of instance i pass. *)
Send(i, u) ==
  /\ runner[i] # Down /\ ~manual[i]
  /\ events < MaxEvents
  /\ events' = events + 1
  /\ wire' = wire \cup {[id |-> events, user |-> u]}
  /\ UNCHANGED <<board, snapshots, starts, losses, faults, earned, debt>>

(* An instance found the board empty and has not restored it yet, or a     *)
(* command of one that gave up is still to run.                            *)
Restoring(i) == runner[i].pc \in {"find", "delete", "add"}
Unfinished == late # {} \/ \E i \in Instances : Restoring(i)

(* Once something interfered, nothing is owed until the next loss. *)
Spoiled == [open |-> FALSE, owed |-> Empty, fresh |-> Empty, spoiled |-> TRUE]

(* process_event.lua runs, whatever has become of its sender. *)
ApplyEvent(call) ==
  /\ call \in wire
  /\ wire' = wire \ {call}
  /\ board' = [board EXCEPT ![call.user] = @ + 1]
  /\ earned' = [earned EXCEPT ![call.user] = @ + 1]
  /\ debt' = IF debt.spoiled \/ debt.open \/ Unfinished THEN Spoiled
             ELSE [debt EXCEPT !.fresh[call.user] = @ + 1]
  /\ UNCHANGED <<snapshots, starts, events, losses, faults>>

----------------------------------------------------------------------------
OldestBatch == batches[CHOOSE t \in DOMAIN batches : \A s \in DOMAIN batches : t <= s]  \* mutated form of LatestBatch
Newest(stored) == stored[CHOOSE t \in DOMAIN stored : \A s \in DOMAIN stored : s <= t]
LatestBatch == Newest(batches)

LastRowLeftOut(batch) == SubSeq(batch, 1, Len(batch) - 1)   \* mutated form of RestoredRows
(* restoreLimit is the smaller of the two configured sizes *)
RestoredRows(batch) == SubSeq(batch, 1, IF Len(batch) < RecoverN THEN Len(batch) ELSE RecoverN)

ScoresOf(rows) ==
  [u \in Users |-> IF \E k \in DOMAIN rows : rows[k].user = u
                   THEN rows[CHOOSE k \in DOMAIN rows : rows[k].user = u].score ELSE 0]

(* The board that the newest of these snapshots gives back. *)
Restorable(stored) ==
  IF DOMAIN stored = {} THEN Empty
  ELSE [u \in Users |-> IF \E k \in DOMAIN Newest(stored) : k <= RecoverN /\ Newest(stored)[k].user = u
                        THEN ScoresOf(Newest(stored))[u] ELSE 0]

(* The worker's turn: snapshotAt is taken once, for all the attempts. *)
BeginCapture(i) ==
  /\ runner[i] # Down /\ capture[i] = Idle
  /\ taken < MaxSnapshots
  /\ taken' = taken + 1
  /\ capture' = [capture EXCEPT ![i] = [pc |-> "read", at |-> taken']]
  /\ UNCHANGED <<board, batches, starts, wire, events, losses, faults, earned, debt>>

(* An empty board is not stored. *)
ReadTop(i) ==
  /\ runner[i] # Down /\ capture[i].pc = "read"
  /\ capture' = [capture EXCEPT ![i] = IF Ranked(board) = {} THEN Idle
                                       ELSE [pc |-> "commit", at |-> @.at, rows |-> Rows(board),
                                             gone |-> FALSE]]
  /\ UNCHANGED <<board, taken, batches, starts, wire, events, losses, faults, earned, debt>>

(* The turn ends or another attempt begins, under the same snapshotAt; of  *)
(* a process that is gone, only the COMMIT it had sent is left.            *)
Again(i) == [pc |-> "read", at |-> capture[i].at]
MayFollow(i) ==
  IF capture[i].pc = "commit" /\ capture[i].gone THEN {Idle} ELSE {Idle, Again(i)}
CaptureLeft(i) == IF capture[i].pc = "commit" THEN [capture[i] EXCEPT !.gone = TRUE] ELSE Idle

(* No lock, or an exception. *)
CaptureFails(i) ==
  /\ capture[i] # Idle
  /\ capture' \in {[capture EXCEPT ![i] = w] : w \in MayFollow(i)}
  /\ UNCHANGED <<board, taken, batches, starts, wire, events, losses, faults, earned, debt>>

(* COMMIT, of an instance that may be down by now; its answer may be lost. *)
(* A snapshot that was read before a loss is owed once it is committed,    *)
(* and it interferes with a recovery that has not finished.                *)
CommitCapture(i) ==
  LET stored == [t \in DOMAIN batches \cup {capture[i].at} |->
                   IF t = capture[i].at THEN capture[i].rows ELSE batches[t]]
  IN  /\ capture[i].pc = "commit"
      /\ batches' = stored
      /\ capture' \in {[capture EXCEPT ![i] = w] : w \in MayFollow(i)}
      /\ debt' = IF debt.spoiled \/ (Unfinished /\ Restorable(stored) # debt.owed) THEN Spoiled
                 ELSE [debt EXCEPT !.owed = IF debt.open THEN Restorable(stored) ELSE @]
      /\ UNCHANGED <<board, taken, starts, wire, events, losses, faults, earned>>

----------------------------------------------------------------------------
(* Redis comes back without the board; the last snapshot is what is left, *)
(* or one that was read and is not committed yet.                          *)
LoseBoard ==
  /\ losses < MaxLosses
  /\ losses' = losses + 1
  /\ board' = Empty
  /\ debt' = IF Unfinished THEN Spoiled
             ELSE [open |-> DOMAIN batches # {} \/ \E i \in Instances : capture[i].pc = "commit",
                   owed |-> Restorable(batches), fresh |-> Empty, spoiled |-> FALSE]
  /\ excused' = [i \in Instances |-> TRUE]
  /\ UNCHANGED <<snapshots, runner, manual, late, wire, events, faults, earned>>

(* The web server accepts requests before the runner is called. *)
StartServing(i) ==
  /\ runner[i] = Down
  /\ runner' = [runner EXCEPT ![i] = [pc |-> "serving"]]
  /\ UNCHANGED <<board, snapshots, manual, late, wire, events, losses, faults, earned, debt, excused>>

OpenManually(i) ==
  /\ runner[i].pc = "serving"
  /\ runner' = [runner EXCEPT ![i] = [pc |-> "count"]]
  /\ manual' = [manual EXCEPT ![i] = TRUE]
  /\ excused' = [excused EXCEPT ![i] = late # {}]
  /\ UNCHANGED <<board, snapshots, late, wire, events, losses, faults, earned, debt>>

Outcome(result) == [pc |-> "clear", result |-> result]

OneIsCold(b) == Cardinality(Ranked(b)) > 1         \* mutated form of AlreadyWarm
AlreadyWarm(b) == Ranked(b) # {}

CountRanks(i) ==
  /\ runner[i].pc = "count"
  /\ runner' = [runner EXCEPT ![i] = IF AlreadyWarm(board) THEN Outcome("skipped")
                                     ELSE [pc |-> "find"]]
  /\ UNCHANGED <<board, snapshots, manual, late, wire, events, losses, faults, earned, debt, excused>>

(* findLatestByLeaderboardId takes the greatest snapshot_at; a batch has   *)
(* rows.                                                                   *)
FindSnapshot(i) ==
  /\ runner[i].pc = "find"
  /\ runner' = [runner EXCEPT ![i] = IF DOMAIN batches = {} THEN Outcome("skipped")
                                     ELSE [pc |-> "delete", rows |-> RestoredRows(LatestBatch)]]
  /\ excused' = [excused EXCEPT ![i] = @ \/ DOMAIN batches = {}]
  /\ UNCHANGED <<board, snapshots, manual, late, wire, events, losses, faults, earned, debt>>

DeleteRanks(i) ==
  /\ runner[i].pc = "delete"
  /\ board' = Empty
  /\ runner' = [runner EXCEPT ![i] = [pc |-> "add", rows |-> @.rows]]
  /\ debt' = [debt EXCEPT !.open = TRUE]
  /\ UNCHANGED <<snapshots, manual, late, wire, events, losses, faults, earned, excused>>

AddedOnTop(b, rows) == [u \in Users |-> b[u] + ScoresOf(rows)[u]]   \* mutated form of Added
(* ZADD sets the score of every row's user, whatever it was. *)
Added(b, rows) == [u \in Users |-> IF ScoresOf(rows)[u] > 0 THEN ScoresOf(rows)[u] ELSE b[u]]

AddRanks(i) ==
  /\ runner[i].pc = "add"
  /\ board' = Added(board, runner[i].rows)
  /\ runner' = [runner EXCEPT ![i] = Outcome("recovered")]
  /\ debt' = [debt EXCEPT !.open = FALSE]
  /\ UNCHANGED <<snapshots, manual, late, wire, events, losses, faults, earned, excused>>

StartedAnyway(result) == [pc |-> "up"]                              \* mutated form of StartupAfter
StartupAfter(result) == IF result = "failed" THEN [pc |-> "closing"] ELSE [pc |-> "up"]

(* The finally of the runner, and what follows: an exception of the runner *)
(* ends the application.                                                   *)
ClearManualOverride(i) ==
  /\ runner[i].pc = "clear"
  /\ manual' = [manual EXCEPT ![i] = FALSE]
  /\ runner' = [runner EXCEPT ![i] = StartupAfter(@.result)]
  /\ UNCHANGED <<board, snapshots, late, wire, events, losses, faults, earned, debt, excused>>

(* A caller that gives up on its delete or its add, after the command      *)
(* timeout or because it is killed, does not take the command back.        *)
LeavesBehind(i) ==
  \/ UNCHANGED late
  \/ /\ runner[i].pc \in {"delete", "add"}
     /\ late' = late \cup {[no |-> faults, pc |-> runner[i].pc, rows |-> runner[i].rows]}
OthersExcused(i) == excused' = [j \in Instances |-> excused[j] \/ j # i]

(* A command or a query of the recovery throws. *)
RecoveryFails(i) ==
  /\ runner[i].pc = "count" \/ Restoring(i)
  /\ faults < MaxFaults
  /\ faults' = faults + 1
  /\ runner' = [runner EXCEPT ![i] = Outcome("failed")]
  /\ LeavesBehind(i) /\ OthersExcused(i)
  /\ UNCHANGED <<board, snapshots, manual, wire, events, losses, earned, debt>>

Exit(i) ==
  /\ runner[i].pc = "closing"
  /\ runner' = [runner EXCEPT ![i] = Down]
  /\ capture' = [capture EXCEPT ![i] = CaptureLeft(i)]
  /\ UNCHANGED <<board, taken, batches, manual, late, wire, events, losses, faults, earned, debt, excused>>

(* The process is killed or stopped, at any point. *)
Crash(i) ==
  /\ runner[i] # Down
  /\ faults < MaxFaults
  /\ faults' = faults + 1
  /\ runner' = [runner EXCEPT ![i] = Down]
  /\ manual' = [manual EXCEPT ![i] = FALSE]
  /\ capture' = [capture EXCEPT ![i] = CaptureLeft(i)]
  /\ LeavesBehind(i) /\ OthersExcused(i)
  /\ UNCHANGED <<board, taken, batches, wire, events, losses, earned, debt>>

RunLate(command) ==
  /\ command \in late
  /\ late' = late \ {command}
  /\ board' = IF command.pc = "delete" THEN Empty ELSE Added(board, command.rows)
  /\ debt' = [debt EXCEPT !.open = command.pc = "delete"]
  /\ UNCHANGED <<snapshots, runner, manual, wire, events, losses, faults, earned, excused>>

Recover(i) ==
  \/ OpenManually(i) \/ CountRanks(i) \/ FindSnapshot(i)
  \/ DeleteRanks(i) \/ AddRanks(i) \/ ClearManualOverride(i) \/ Exit(i)

Snapshot(i) == BeginCapture(i) \/ ReadTop(i) \/ CaptureFails(i) \/ CommitCapture(i)

Next ==
  \/ \E i \in Instances :
       StartServing(i) \/ Recover(i) \/ RecoveryFails(i) \/ Crash(i) \/ Snapshot(i)
  \/ \E i \in Instances, u \in Users : Send(i, u)
  \/ \E call \in wire : ApplyEvent(call)
  \/ \E command \in late : RunLate(command)
  \/ LoseBoard

Spec == Init /\ [][Next]_vars

----------------------------------------------------------------------------
RowSet == [user : Users, score : Nat]

(* Variables keep their shapes, and rows to restore are never empty. *)
TypeOK ==
  /\ board \in [Users -> Nat] /\ earned \in [Users -> Nat]
  /\ DOMAIN batches \subseteq 1..taken
  /\ \A t \in DOMAIN batches : batches[t] \in Seq(RowSet) \ {<< >>}
  /\ \A i \in Instances :
       \/ capture[i] = Idle
       \/ capture[i].at \in 1..taken /\
            \/ capture[i].pc = "read"
            \/ capture[i].pc = "commit" /\ capture[i].rows \in Seq(RowSet) \ {<< >>}
                 /\ capture[i].gone \in BOOLEAN
  /\ \A i \in Instances :
       \/ runner[i] = Down
       \/ runner[i].pc \in {"serving", "count", "find", "closing", "up"}
       \/ runner[i].pc \in {"delete", "add"} /\ runner[i].rows \in Seq(RowSet) \ {<< >>}
       \/ runner[i].pc = "clear" /\ runner[i].result \in {"skipped", "recovered", "failed"}
  /\ manual \in [Instances -> BOOLEAN] /\ excused \in [Instances -> BOOLEAN]
  /\ \A call \in wire : call.user \in Users
  /\ \A command \in late :
       command.pc \in {"delete", "add"} /\ command.rows \in Seq(RowSet) \ {<< >>}
  /\ debt \in [open : BOOLEAN, owed : [Users -> Nat], fresh : [Users -> Nat], spoiled : BOOLEAN]

(* No user ever has more points, on the board or in a snapshot, than the   *)
(* accepted events gave: not when several instances restore the same       *)
(* board, when a command runs after its recovery failed, nor when events   *)
(* arrive in the middle.  (RedisSnapshotRankingRestoreRepository 48-50.)   *)
NoInflation ==
  /\ \A u \in Users : board[u] <= earned[u]
  /\ \A t \in DOMAIN batches : \A k \in DOMAIN batches[t] :
       batches[t][k].score <= earned[batches[t][k].user]

(* A recovery nothing interfered with is exact, however many instances ran *)
(* it, failed in it or crashed between its delete and its add.  While the  *)
(* board is lost or deleted, what the newest snapshot gives back is owed,  *)
(* be it one that was read before the loss and commits after it.  Once     *)
(* restored, the board is that and every event accepted since.  An event   *)
(* interferes when it runs before the lost board is restored, or while a   *)
(* recovery is unfinished: the breaker opened by hand holds back neither   *)
(* the requests that had passed it nor those of another instance.  A       *)
(* capture interferes when it read the board before the loss and commits   *)
(* another newest snapshot while a recovery is unfinished.                 *)
(* (SnapshotApplicationService 134-163, ColdStartRecoveryRunner 44-65;     *)
(* docs/MANUAL_VERIFICATION.md 264.)                                       *)
UndisturbedRecoveryIsExact ==
  ~debt.spoiled =>
    IF debt.open THEN Restorable(batches) = debt.owed
    ELSE \A u \in Users : board[u] = debt.owed[u] + debt.fresh[u]

(* An instance that is up is in front of a ranked board, but for the       *)
(* moment between the delete and the add of another one: also when         *)
(* instances delete and add across each other, and one that could not      *)
(* restore the board is not up.  Beyond that no such promise holds, for a  *)
(* running instance never looks again: it stays in front of an empty board *)
(* when there was no snapshot, when the board is lost later, when another  *)
(* instance fails between its delete and its add, or when a delete given   *)
(* up on runs after all.                                                   *)
(* (ColdStartRecoveryRunner 48-64: the exception is not caught.)           *)
UpMeansRanked ==
  \A i \in Instances :
    runner[i].pc = "up" /\ ~excused[i]
      => Ranked(board) # {} \/ \E j \in Instances : runner[j].pc = "add"
=============================================================================
