# A TLA+ model of RealtimeAPI

RealtimeAPI is a Spring Boot service that keeps leaderboards in Redis. Clients
post score events with an idempotency key; a Lua script applies each event once
and records it in a Redis stream; a relay moves the stream to Kafka; a consumer
moves the topic to PostgreSQL. This directory models the parts of the service
whose correctness depends on order, failure and interleaving, model-checks them
with TLC and proves their safety for every size with TLAPS. Paths below are relative to
the repository; Java paths to `src/main/java/com/jake/realtimeapi/`.

## The system

| component | state | operations | what makes it correct |
|---|---|---|---|
| event write path (`events/api`, `events/persistence`, `lua/process_event.lua`) | Redis: score ZSET, idempotency keys (24 h), audit stream; per request: the processing time | process an event, replay, conflict | one application per key and life of its record; score, keys and stream agree; retries get the answer of the first call |
| audit relay (`events/relay/AuditRelayWorker`) | stream, consumer group, PEL per consumer name; producer buffer; claim cursor | re-read own PEL, claim old entries, read new ones; send, flush, XACK | nothing lost, XACK after confirmation, order, eventual delivery |
| stream trim (`events/relay/AuditStreamTrimWorker`) | none of its own | XPENDING, XINFO, XTRIM | never cuts what is not published |
| audit consumer (`events/consumer`, `infra/config/AuditConsumerErrorConfig`) | `audit_events`, dead-letter topic, committed offsets, `AuditConsumerStatus` | poll, parse, insert, dead-letter, commit, retry, stop | commits cover settled records only; rows once; stops are reported; every record settled |
| snapshots (`snapshots/`) | `snapshot_batches`, `snapshot_entries`, advisory lock, status tracker | capture with retries, query | one capturer, batch and entries together |
| cold-start recovery (`snapshots/worker/ColdStartRecoveryRunner`) | manual override of the circuit breaker, Redis ZSET | restore boards that are empty | nobody gains points; a recovery nothing interferes with is exact; an instance that could not restore an empty board does not come up before it |
| circuit breaker (`infra/circuitbreaker`) | resilience4j's window, manual override | execute, open by hand, clear | a refused call changes nothing |
| ranking queries (`events/persistence/RankingQueryRepositoryAdapter`) | none | top, rank, count | competition ranks agree with the scores |
| API keys and limits (`apikeys/`) | key cache, per-second bucket, daily quota | create, authorize | limits hold, refusals are deserved, usage stays within the quota |
| usage statistics (`usagestats/`) | in-memory deltas, table | record, flush | counts are neither lost nor doubled |
| users, projects, leaderboards | tables | create, read | names unique |
| admin authentication, controllers, console, benchmarks | | | not modelled |

Interactions. A request thread calls the API-key limiter, the script through
the circuit breaker, and the usage recorder. The relay and the trim worker of
one process share the single scheduler thread (also with snapshots and usage
flushes), so their ticks do not interleave inside a process; between processes
every Redis command may. The relay and the consumers share only the topic.

What is hard here: retries whose first attempt is still in flight; several
relays over one PEL; a crash between publish and XACK, or between insert and
commit; three Redis commands for one trim decision; a partition that changes
hands in the middle of a batch; two nested error handlers; a claim cursor that
must come round to a dead relay's entries; a recovery of several commands beside
live requests; ranks computed from scores read earlier; counters that expire
while late calls still come; a map that is swapped under its writers. `PROJECT.json` lists these hazards
at their lines with the properties that cover them.

## Modules

| module | models | proofs |
|---|---|---|
| `EventHotPath` | the write path of one leaderboard | `EventHotPathProofs` |
| `AuditRelay` | relay and trim processes over one stream | `AuditPipelineProofs`, first part |
| `AuditSink` | abstract: what the consumers promise together | |
| `AuditConsumer` | the consumer group; refines `AuditSink` | `AuditConsumerProofs` |
| `AuditPipeline` | `AuditConsumer` behind `AuditRelay`, which it extends | `AuditPipelineProofs` |
| `SnapshotCapture` | the scheduled capture of one leaderboard by several instances | `SnapshotCaptureProofs` |
| `Board` | a leaderboard's sorted set: order and ZREVRANGE | lemmas in `SnapshotCaptureProofs` |
| `RankingReads` | the ranking queries, command by command, beside events | `RankingReadsProofs` |
| `ColdStartRecovery` | the start of several instances over one lost board | `ColdStartRecoveryProofs` |
| `Calendar` | seconds, UTC hours and days | |
| `KeyLimits` | the per-second and daily counters of one API key | `AdmissionProofs` |
| `Admission` | `POST /events` around the hot path; extends `KeyLimits` | `AdmissionProofs` |
| `UsageStats` | the usage recorder and its flush | `UsageStatsProofs` |
| `MC*` | small instances for TLC | |

Operators named "mutated form of X" in a comment are wrong versions of X: they
are not used by any specification and are kept to show, one property at a time,
that the property notices such a slip.

### EventHotPath

`redis` holds the score of each user, the idempotency records and the stream;
`aof` is its last fsynced copy. `Receive` is `EventCommandRepositoryAdapter.process`
up to the Redis call, with the processing time already taken; `ProcessEvent` is
the script, one atomic step that may run after its caller gave up; `Answer` is
the reading of the reply. `Timeout`, `Lose`, `Expire`, `Fsync` and `RestartRedis`
are the environment. A payload's hash is the payload; a v1 record is one whose
time is `LegacyAt`, because the adapter then falls back to the request's time
and the script compares no hashes.

### AuditRelay

A process is in one of `down, idle, own, claim, new, send, xinfo, xtrim`: the
program point of its scheduler thread between two Redis commands. `Tick` enters
`relayOne` (with `ensureGroup`), `ReadOwn`, `Claim` and `ReadNew` are its three
reads, `Send` one `KafkaTemplate.send` in batch order, `Ack` the XACK after
`flush`. `Land` and `Drop` are what becomes of a buffered record. `TrimPending`,
`TrimInfo` and `Trim` are the three commands of a trim tick. Every Redis command
may fail before (`RedisFails`) or after (`Replied`) it took effect; `SendThrows`
is a KafkaException, which leaves `relayAll`. An entry is its position in the
stream; `body` the entries not yet trimmed. `raced` and `overflowed` are history
variables that name the two ways an entry can be cut before its time. `Overlap`
says whether two processes may be up at once: the repository documents a single
relay with handover as the normal operation, and argues that more are safe.

### AuditConsumer and AuditSink

One action per thing a listener does to shared state: `Poll` a batch, `Store`
the rows (a failed insert may have stored some), `DeadLetter` a record, `Succeed`,
`CommitBatch`, `Retry`. `Fails` is the error configuration: by class on the first
failure, without looking at the class inside the retry loop. `Assign` moves a
partition whenever the new owner is polling, whatever the old one is doing.
A record is parsable or not for good, so the three parse attempts are one.
`AuditSink` says what the group promises whoever does the work: rows and dead
letters only appear, once, for published records, and commits only cover settled
ones. `AuditConsumer` implements it with the identity mapping (`ImplementsSink`).

### AuditPipeline

Extends `AuditRelay` by the consumers: `AuditConsumer` by `INSTANCE`, with the
relay's `topic` as its only partition and the event's entry as its `event_id`.

### SnapshotCapture

One instance's capture is `idle` or between two of its calls: `lock`, `read`,
`save`, `unlock`, `commit`. `Begin` fixes `snapshotAt` once for all the attempts;
`TryLock` opens the transaction on some session of the instance's pool; `Read`
is the Redis query with the competition ranks; `Save` the upsert, the delete and
the insert, whose outcome the `finally` block of `Unlock` and the retry loop
then meet. `lock` counts, per session, how often it holds the advisory lock,
because a session that holds it may take it again. `LoseSession` gives a lock up
at once and fails the transaction at its next statement. `aof` is the board in
Redis's file; `RestartRedis` brings it back, or nothing, at any point, also
between `snapshotAt` and the read of a retry. `since` is a history variable: the
board when each time began, as far as Redis has kept it, to say how old a batch
may be. The ranking of equal scores is Redis's, by member name.

### RankingReads

One query at a time: queries only read, so what one meets is independent of
another. A query's program point is the next Redis command (`greaterOrEqual`,
`equal`, `total`); `ask` is what its first command returned. `GetTopRanks` and
`GetUserRank` are the first commands, `CountGreaterOrEqual` and `CountEqual` the
two ZCOUNTs of `computeCompetitionRank`, `CountParticipants` the ZCARD. The
result classes' "rank must be positive" is the answer `refused`. `during`
remembers the board at the first command and what happened since, so that the
properties can say how wrong an answer may be: not at all when nothing happened,
by one rank per event otherwise, and never below the first score of a page.

### ColdStartRecovery

An instance is `down`, `serving` (its web server is up, the runner has not begun),
`count`, `find`, `delete`, `add` or `clear` (inside the runner), `up` or
`closing`. `manual` is the override of its own breaker: `Send` is a request that
passes the breaker, and `ApplyEvent` the script it sent, later. A command of the
restore whose caller timed out or was killed is `late`: it may run at any time
after, or never. Of a capture there are the three moments that recovery can tell
apart: `BeginCapture` fixes its time, `ReadTop` reads the board, `CommitCapture`
makes it visible, in any order with those of other instances, for the lock is
returned before the commit; what happens between them is `SnapshotCapture`'s.
A capture's number is its `snapshot_at`, and the newest batch is the one with the
greatest (`Newest`), not the last committed. The COMMIT of an instance that
died may still take effect, without a retry (`gone`), and the next capture of that
instance waits for it (a bound of the model: one capture per instance). An exception of
the runner ends the application (`StartupAfter`).

`debt` is history: what the board must hold once it is restored (`owed`: what the
newest snapshot gives back, one that commits after the loss included), the events
since (`fresh`), and whether something interfered (`spoiled`): an event between
the loss and the restore or during a recovery, a loss during one, or a capture
from before the loss that commits another newest snapshot during one. Then the code promises nothing:
see Observations. `excused` is history too: the instances that may be in front of an empty
board because their recovery had nothing to restore, or because of something after
it or outside it (a later loss, the fault of another instance, a late command).

### KeyLimits and Admission

`KeyLimits` is the script: two counters that expire, named by the second and the
day of the caller's clock, run when Redis gets to the call. `Admission` is
`EventCommandController.process`: `authorize` (key expired, breaker open, limits
asked, timed out), the hot path as the set of its outcomes, and `recorded`, the
call of `UsageStatsRecorder` a request ended in, if any. The points at which
an exception leaves without a record are `Fail`: the breaker open inside
`authorize`, a timeout, and in `Process` every exception outside `Caught`, the
controller's catch clauses.

### UsageStats

`recorder` is `record()` in each request thread, whose loop over the bucket
types is `get()` then `merge()` twice; `flush` is `flushPending`: `SwapMaps`
(`getAndSet`), the walk with the iterator of a `ConcurrentHashMap`, which is
weakly consistent, and `Increment` per entry. A map is the set of <<bucket type,
request>> it counts, so that the rows tell which requests they count; the sums
of the code are their sizes. A thread holds the `current` map, the `old` one or
an `orphan` that no flush will walk again. `raced`, `doubtful` and `died` are
history: the three ways the code miscounts. `Admission`'s `recorded` is what it
is called with; the two are checked apart because their product has too many
interleavings, and they share no other state: `UsageStats` takes requests at any
time and counted at any time.

## Runs

| run | instance | shows |
|---|---|---|
| `hot_path` | 2 threads, 1 key, 2 payloads, 3 calls, 2 clock values, 1 expiry, 1 restart | score = sum of the stream, one application per key life, consistent answers, real conflicts |
| `relay_handover` | 2 processes, one up at a time, 3 entries, batch 2, 2 faults | nothing lost, trimmed or acknowledged early, an entry is overtaken only by a fault and then not lost, every event published; `Inv` is an invariant |
| `relay_trim_race` | 2 at once, 3 entries, 1 fault | *violated*: a trim cuts an unpublished entry |
| `consumer` | 2 consumers, 2 partitions with 2 records together, polls of 2, 2 faults | commits cover settled records, stops are reported, refinement of `AuditSink`, every record settled |
| `consumer_permanent` | as `consumer` | *violated*: a permanent error does not stop a retrying consumer |
| `pipeline` | 2 relays, 2 consumers, 2 entries, MAXLEN 1, 1 fault | no event lost end to end and one row of each, every event stored |
| `snapshots` | 2 instances, 1 session each, 3 users, top 2, 2 attempts, 2 times, 1 fault | a batch is one ranking and no older than it says but for what Redis lost; tracker, mutual exclusion, a snapshot is taken |
| `snapshot_lock_leak` | 2 sessions each, one user without a row, no faults | *violated*: the lock is not returned |
| `ranking` | 4 users, all boards with scores 0 to 2, offsets 0 to 3, limits 1 to 3, 2 events of 1 or 2 points, 1 lost board | undisturbed answers exact, disturbed ones off by the events at most, lower ranks exact |
| `cold_start` | 2 instances, 2 users, snapshots of 2 of which 1 is restored, 1 event, 2 captures, 1 loss, 1 crash or failed recovery | no inflation, an undisturbed recovery is exact, who is up is in front of a ranked board |
| `admission` | 2 threads, 4 requests, 2 days of 2 seconds, 2 per second, 3 per day, a key that expires in the last second | both limits hold, refusals deserved, usage within the quota |
| `usage` | 2 threads, 2 requests, 2 hours of one day, 1 fault | counted once, stored in the end |

Why the bounds are enough. Batch size 2 with three entries has full, partial
and empty batches, a claim with and without room, and a cursor that stops short
of the end. Two faults allow a failure while recovering from one. MAXLEN 1 makes
every entry overflow in turn. Two payloads and two threads are what a conflict
and a race need; three calls add a retry of the loser. Two records, in one
partition or in both, let a batch mix partitions and a commit lag behind the
position of the next owner. The snapshot board starts empty or with a tie of
three users, one point is given during the run: that is an empty read, a tie at
the cut and two different ranks; two times and two attempts let a retry meet a
board and a clock that moved. Four users with
three scores make every pattern of ties, a page that starts inside one and a
page past the end; two events between the two ZCOUNTs can push a rank to zero.
Two instances let one restore a board the other is restoring, two snapshots let
one be read before the loss and committed after it, or after a newer one, and
one fault is a crash between DEL and ZADD. A user more than is restored
tells the newest snapshot from an older one; ties are the `snapshots` run's. A
limit of 2, a quota of 3 and four requests reach both limits, in one second, in
the next, and over midnight; the clock runs far enough for every counter to
expire with a call still sent. Two requests meet in the day's row and part in
the hour's when their times differ.

Relays that overlap are not a run of their own: what holds for them is proved
for every number of relays (Proofs), and `relay_trim_race` shows what does not.

Deadlock is checked for the relay, the snapshots, the ranking reads and the usage
recorder. It is off where
a bounded run comes to rest: the write path after `MaxCalls` requests, the
consumers after `MaxLog` records, a stopped container that nobody restarts, the
recovery and the admission at the ends of their clocks and counts.

## Fairness

`AuditRelay!Fairness`: the scheduler thread of a live process goes on (weak,
per process), the producer's records are answered (weak), and a relay tick comes
round however trim ticks fall (strong on `Tick`: both are due at fixed delays on
one thread). Some process is started when all are down, and time passes for a
pending entry. `AuditConsumer!ConsumerFairness`: a listener thread goes on; an
unassigned partition is assigned (strong, since a consumer is only briefly at
its poll); a process that is down or whose health is DOWN is started again, which
is what the readiness group and an operator are for. A container stopped by a
failed dead-letter send reports UP, so nothing restarts it: `StopIsReported`
says exactly that exception, and `EveryRecordSettled` and `EveryEventStored`
except the runs in which all consumers have stopped so (`StoppedUnnoticed`).
`SnapshotCapture!FairSpec`: each instance's scheduler comes round to the capture
and goes on with it (weak); `SnapshotTaken` excepts runs in which a lock has
leaked or Redis lost the board. `UsageStats!FairSpec`:
the scheduler and each request thread go on (weak). `RankingReads`,
`ColdStartRecovery` and `Admission` have safety properties only: a recovery is a
straight line of commands that each end or time out, and what matters is how it
ends (`UpMeansRanked`). Faults are bounded; without a bound a broker that never answers refutes
any liveness.

## Proofs

Each `*Proofs` module proves safety for every set of processes, threads, users
or keys, every limit and size and any number of faults. The assumptions are the
ones named in the modules: counts are naturals, batch and page sizes are
positive, users are a finite set of numbers, a placeholder (`None`, `NoRecord`,
`NotYet`) is not one of the values it stands beside. The inductive invariants
(`Inv` in each module) are stronger than the properties; what they add is said
below.

**Relay** (`AuditPipelineProofs`, first part). `NoEventLost` is not inductive: whether an entry
may leave a PEL depends on what the acknowledging process believes. `Inv` adds
that records in a batch or a buffer carry their body unless it is gone for good
(`RecordsFaithful`), that what a process will acknowledge is published
(`GoodIsDone`), where each entry is (`Accounted`), that a watermark lies below
what was delivered (`MarkSeen`) and, with one relay at a time, that nothing
becomes pending behind a trim tick (`TrimAlone`). For overlapping relays too:
`LossOnlyByCutHolds`, `OneOwnerHolds`, `AckOnlyPublishedHolds`. For one at a
time: `NoRacedCutHolds`, `NoEventLostAlone`, and `CutOnlyPublishedAlone`, the
statement that `relay_trim_race` refutes for two. `OvertakenOnlyByFaultsHolds`
needs a second invariant, `Orderly`: while one relay runs without faults, an
entry that precedes one on the topic, in a buffer or in a batch is ahead of it
there or was cut by MAXLEN, and a process between two reads has nothing on its
way.

**Consumer** (`AuditConsumerProofs`). A batch has no gap that is not settled
(`Gapless`), and the owner of a partition has polled nothing that is neither
settled nor in its batch (`PolledCovered`): so the offset behind a finished batch
may be committed, by a consumer that has lost its partition too.
The invariant is kept by any step that only appends to
the log (`Step`), whoever publishes. `SinkImplemented` is the refinement of
`AuditSink`: under the identity mapping each action settles records, commits
settled ones, or stutters.

**Pipeline** (`AuditPipelineProofs`, second part). The relay's and the consumer's invariants
hold together: a relay step is a publication or nothing to the consumers, a
consumer step changes at most the count of faults to the relays (`OthersFaults`).
The end-to-end property follows from `Accounted`, `CommittedSettled` and
`RowsPublished`.

**Write path** (`EventHotPathProofs`). `Sound` says of Redis, and of its
append-only file, that scores are the sums of the stream, that a live record is
that of the newest accepted event of its key (`RecordIsNewest`), and that
conflict entries follow an event they conflict with. It is a predicate of a
Redis state, so a restart, which goes back to the file, keeps it. Beside it, all
that was or is being answered of one life of a key agrees, and agrees with the
record while it lives. Sums over the stream need an induction on
its length; it is done by taking the least index at which two sums differ
(`Least`, from the well-foundedness of the naturals).

**Snapshots** (`SnapshotCaptureProofs`). Positions on a board are an injection of
its ranked users into as many places, hence a surjection (`EveryPlaceIsTaken`):
a page holds the best users in order, and its competition ranks count the higher
scores. Captures and batches hold only such rows, no older than their time
(`Good`); a restart of Redis lowers what they are held to (`Less`) and never the rows. The lock is held by one session at a time, and a capture that works
under it works on that session (`LockOK`).

**Ranking reads** (`RankingReadsProofs`, with the lemmas about the board). The
invariant keeps what a query read (`AskOK`: the page of the board of its first
command) beside how far that board and the present one are apart: scores only
grew, and no more users moved than events were applied. A place whose score is
lower than that of the place before it is that score's competition rank
(`PlaceIsRank`), which makes the ranks below a page's first score exact. What
two counts give differs from the rank by those who came to the score or left it
since, all of whom moved (`RankIsNear`).

**Recovery** (`ColdStartRecoveryProofs`). While nothing is `spoiled`
(`Faithful`): a board that is to be restored is empty and owed the newest
snapshot; whoever found rows, or left a command that may still run, holds
exactly what is owed, so adding them again, by another instance, after a crash or
late, changes nothing; and an empty board that is owed nothing has no snapshot,
not even one on its way to be committed. `NoInflation` needs no such condition:
every row in a batch, a capture, a runner or a late command is no more than its
user earned (`Sound`). `UpMeansRanked` rests on `Watched`: an instance gets past its
recovery only with a ranked board or with an excuse, a delete stays covered by
the add its instance is about to send, and while a command is left behind whoever
is beyond its first step has an excuse.

**Limits** (`AdmissionProofs`). A counter counts between what must be in it (the
calls run in time) and what may be (all of its second or day), and its time to
live reaches past the end of the second or day it is for. A request is followed
from its call through its decision to its record (`Followed`): what is recorded
as more than blocked had only admitted runs (`Passed`). `AllowedWithinQuota` then
follows: a request recorded on the day it was received was run by Redis on that
day too, before the counter expired, so the requests it counts are among the
admissions that counter bounds.

**Usage** (`UsageStatsProofs`). Each pair of a request and a bucket type has one
`Fate`: it is at one place on the way to its row, or in it, or one of the three
histories names it; the places are disjoint, which is the reason why the merge
back cannot count twice.

Only model-checked: all liveness (`EveryEventPublished`, `EveryRecordSettled`,
`EveryEventStored`, `SnapshotTaken`, `StoredInTheEnd`), because
the prover reaches neither fairness nor ENABLED.

## Findings

* The trim watermark is read in two commands; with two relays it can pass
  entries the other relay has just read (`relay_trim_race`; comment in
  `events/relay/AuditStreamTrimWorker.java:26`, `docs/SPIKE-001-kafka-migration-path.md:127`).
* A permanent database error inside the retry loop of a transient one is
  retried, not stopped (`consumer_permanent`; `docs/2026-09-07-dlt-change-notes.md:87`).
* A failed statement of a capture leaves the advisory lock with a pooled session,
  and other sessions skip their captures in silence (`snapshot_lock_leak`;
  comment in `snapshots/worker/SnapshotCaptureExecutionService.java:43`).

## Observations

What the passing runs say by the exceptions their properties have to make:

* Order within a leaderboard is kept only while nothing fails. A failed send is
  overtaken by the entries behind it (`AuditRelayWorker.java:214-223`), while
  `docs/SPIKE-001-kafka-migration-path.md:97` calls the order guaranteed.
  `OvertakenOnlyByFaults` names the exceptions.
* The breaker opened by hand does not keep writes from a recovery, although
  `docs/PRD.md:528` and the comment at `ColdStartRecoveryRunner.java:46` say so: the
  override is the instance's own, and a call that had passed it still runs. One event on the lost board makes the recovery skip it (`REDIS_ALREADY_WARM`),
  and the next snapshot, of that almost empty board, takes the place of the good
  one: only the newest is ever restored. An event between DEL and ZADD, or before
  the DEL, is lost. `spoiled` in `UndisturbedRecoveryIsExact` is this exception.
* A capture that read the board before it was lost may be committed after it, or
  after the recovery looked for a snapshot: the restored board then is not the
  newest snapshot, without any event, against `docs/MANUAL_VERIFICATION.md:264`.
  `spoiled` names the second case; when the capture commits after the restore,
  the board stays what was owed before. Two captures can also be committed out of
  the order of their `snapshot_at`, and the newest batch, by that time, can hold
  less than an older one.
* A batch may hold less than there was at its `snapshot_at` when Redis came back
  with less before a retry read it. `NotOlderThanItsTime` holds a batch to what
  Redis kept.
* A recovery counts as complete without a look at the board after its ZADD
  (`docs/PRD.md:527` has it checked by ZCARD), which another instance may have
  deleted again. That one then adds its rows, unless it fails.
* A recovery happens only when an instance starts, and `UpMeansRanked` has to
  except the instances already up (`excused`): one of them stays in front of an empty
  board when another one fails between its DEL and its ZADD, when a DEL that was
  given up on runs late, or when the board is lost again.
* Nothing in the code relates `snapshots.recovery.top-n` to
  `snapshots.worker.top-n`. A recovery that restores fewer users than a snapshot
  holds loses the others to the next snapshot; both are configured to 1000
  (`application.properties:24`, `:28`). `UndisturbedRecoveryIsExact` holds for any
  two sizes, for it owes only what is restored.
* A rank can come out as zero or less when users leave a score between the two
  ZCOUNTs; the result classes then refuse it with an IllegalArgumentException,
  and a valid GET fails. It can also be too high: a sole user who overtakes the
  score read for him is ranked second. `OffByTheEventsAtMost` bounds both.
* A script call run after its second's counter has expired starts a counter
  again, with a new limit; the same after midnight. `LimitsHeld` counts the calls
  run in time.
* A request that fails with a timeout, of the limits or of the event, has used up
  quota and is not recorded; nor is one that an open breaker refuses inside
  `authorize`, which `docs/MANUAL_VERIFICATION.md:312` counts as blocked.
  `AllowedWithinQuota` bounds the usage from above
  only. Requests received on one day and recorded on the next count for neither.
* A replay is recorded in the hour and the day of the event it repeats, so a past
  day's `allowed_count` can exceed the day's quota.
* A thread that got the usage map before the swap and merges after the walk is
  not counted; an increment that was committed and seemed to fail is counted
  twice. `raced` and `doubtful` in `CountedOnce`.

## Plan

1. Done: the write path, the audit path, the snapshots, the recovery, the ranking
   reads, admission and usage; the safety properties of the passing runs proved
   (`NoEventLost` with the exception of MAXLEN), with the refinement of `AuditSink`.
2. Next: several leaderboards in one relay tick.

## Not modelled

* JavaScript. The service is Java and Lua. The JavaScript files of the repository
  are the pages of generated database diagrams (`erd/`, with the libraries
  they vendor: jQuery, Bootstrap, CodeMirror, DataTables), the compiled bundle of the
  console, a client written in TypeScript, and k6 benchmark scripts; they hold no
  logic of the service.
* The round over several leaderboards in one relay tick: a KafkaException skips
  the leaderboards behind it, and a leaderboard that never runs dry keeps the
  thread. `AuditRelay` has one leaderboard.
* The creation of keys, users, projects and leaderboards: one insert each, whose
  uniqueness is the database's constraint. The one-minute key cache: no code
  changes a key after its creation.
* The state machine of resilience4j: a refusal may come at any call.
* Commands sent twice. Lettuce reconnects by default and may send again what it
  had sent before; the event script is safe by its key, while a limit call run
  twice would count its request twice (`KeyLimits` runs a call at most once).
* Clocks that differ between instances: `snapshot_at`, the limits' seconds and
  days and the usage hours are read from one clock.
* A partial loss of the board under recovery: `ColdStartRecovery!LoseBoard` is a
  total one, for a recovery only begins before an empty board. The last second of
  the append-only file is lost in `EventHotPath` and `SnapshotCapture`.
* The limit counters lost with Redis's data; Kafka's retention and
  its broker's own failures (one broker, acks=all); Redis eviction (noeviction);
  doubles past 2^53 (any positive long is accepted as
  a delta, and ZINCRBY rounds); the JSON and UUID formats beyond "parses or not".
* Admin tokens, read-only status queries, metrics, logging, and the conversions
  of the REST layer.
