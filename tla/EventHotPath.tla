---------------------------- MODULE EventHotPath ----------------------------
(***************************************************************************)
(* The write path of one leaderboard: an HTTP request thread stamps the    *)
(* event with the application clock, hands process_event.lua to Redis and  *)
(* turns the reply into processed / replayed / 409.  The script is atomic; *)
(* everything around it is not: the reply may be lost, the command may run *)
(* after its caller gave up, the idempotency key expires, and Redis may    *)
(* come back from its append-only file without the last second.            *)
(* Abstractions: a payload hash is the payload; a v1 ("legacy") record is  *)
(* one whose processing time is LegacyAt.                                  *)
(***************************************************************************)
EXTENDS Naturals, Sequences, FiniteSets, FiniteSetsExt

CONSTANTS Users, Keys, Deltas, Threads,
          NoRecord,      \* no value under the idempotency key
          MaxCalls,      \* bound: requests received
          MaxClock,      \* bound: application clock
          MaxExpiries,   \* bound: idempotency keys expired
          MaxRestarts    \* bound: Redis restarts from its append-only file

VARIABLES
  redis,     \* score, idempotency records and audit stream, in memory
  aof,       \* the same, as of the last fsync
  wire,      \* script calls sent to Redis and not executed yet
  thread,    \* what each request thread is doing
  clock, calls, restarts,
  life,      \* history: how many times each key's record has gone away
  answers    \* history: the 2xx answers given

vars == <<redis, aof, wire, thread, clock, calls, restarts, life, answers>>

LegacyAt == 0
Payloads == [user : Users, delta : Deltas]
Records  == [payload : Payloads, at : Nat]
Calls    == [id : Nat, key : Keys, payload : Payloads, at : Nat]
Entries  == [type : {"new", "conflict"}, key : Keys, payload : Payloads]

ASSUME HotPathAssumption ==
  /\ Deltas \subseteq Nat \ {0}
  /\ {MaxCalls, MaxClock, MaxExpiries, MaxRestarts} \subseteq Nat
  /\ NoRecord \notin Records

Idle == [pc |-> "idle"]

----------------------------------------------------------------------------
(* A key may hold a v1 record written before this version was deployed;    *)
(* what that event added to the score is not in this stream.               *)
Init ==
  \E legacy \in [Keys -> {NoRecord} \cup [payload : Payloads, at : {LegacyAt}]] :
    /\ redis = [score |-> [u \in Users |-> 0], idem |-> legacy,
                stream |-> << >>, expired |-> [k \in Keys |-> 0]]
    /\ aof = redis
    /\ wire = {}
    /\ thread = [t \in Threads |-> Idle]
    /\ clock = 1
    /\ calls = 0 /\ restarts = 0
    /\ life = [k \in Keys |-> 0]
    /\ answers = {}

(* A request reaches the adapter: the processing time is taken before the  *)
(* script is sent.  A retry is another request with the same key.          *)
Receive(t, k, p) ==
  /\ thread[t].pc = "idle"
  /\ calls < MaxCalls
  /\ LET call == [id |-> calls, key |-> k, payload |-> p, at |-> clock]
     IN  /\ wire' = wire \cup {call}
         /\ thread' = [thread EXCEPT ![t] = [pc |-> "waiting", call |-> call]]
  /\ calls' = calls + 1
  /\ UNCHANGED <<redis, aof, clock, restarts, life, answers>>

Waiting(t, call) == thread[t].pc = "waiting" /\ thread[t].call = call

(* Mutated forms of the definitions below: what a plausible slip in the    *)
(* script or the adapter would do.  No property holds of the model with    *)
(* its mutant in place.                                                    *)
NewEventKeepsNoKey(r, call) ==
  [r EXCEPT !.score[call.payload.user] = @ + call.payload.delta,
            !.stream = Append(@, [type |-> "new", key |-> call.key, payload |-> call.payload])]

NewEventStoresBareHash(r, call) ==
  [NewEventKeepsNoKey(r, call) EXCEPT !.idem[call.key] = call.payload]

KnownEventScoresConflict(r, call) ==
  IF r.idem[call.key].payload # call.payload
  THEN [r EXCEPT !.score[call.payload.user] = @ + call.payload.delta]
  ELSE r

KnownEventLogsReplay(r, call) ==
  [r EXCEPT !.stream =
     Append(@, [type |-> "conflict", key |-> call.key, payload |-> call.payload])]

AnswerWithOwnTime(t) == thread[t].call.at

(* What process_event.lua leaves behind for one call. *)
NewEvent(r, call) ==
  [r EXCEPT !.score[call.payload.user] = @ + call.payload.delta,
            !.idem[call.key] = [payload |-> call.payload, at |-> call.at],
            !.stream = Append(@, [type |-> "new", key |-> call.key, payload |-> call.payload])]

(* The script compares the two hashes only when both values parse as v2. *)
KnownEvent(r, call) ==
  LET known == r.idem[call.key]
  IN  IF known.at # LegacyAt /\ known.payload # call.payload
      THEN [r EXCEPT !.stream =
              Append(@, [type |-> "conflict", key |-> call.key, payload |-> call.payload])]
      ELSE r

(* Redis runs the script of one call, whether or not its caller still waits. *)
ProcessEvent(call) ==
  /\ call \in wire
  /\ wire' = wire \ {call}
  /\ LET known == redis.idem[call.key]
         isNew == known = NoRecord
     IN  /\ redis' = IF isNew THEN NewEvent(redis, call) ELSE KnownEvent(redis, call)
         /\ thread' = [t \in Threads |->
              IF Waiting(t, call)
              THEN [pc |-> "returned", call |-> call, isNew |-> isNew,
                    value |-> IF isNew THEN [payload |-> call.payload, at |-> call.at] ELSE known,
                    life |-> life[call.key]]
              ELSE thread[t]]
  /\ UNCHANGED <<aof, clock, calls, restarts, life, answers>>

(* The adapter's reading of the reply: the time a replay reports is the    *)
(* stored one, or the request's own when the record is a legacy one.       *)
StoredAt(t) ==
  IF thread[t].value.at = LegacyAt THEN thread[t].call.at ELSE thread[t].value.at

Answer(t) ==
  /\ thread[t].pc = "returned"
  /\ answers' = IF thread[t].value.payload = thread[t].call.payload
                THEN answers \cup
                       {[id |-> thread[t].call.id, key |-> thread[t].call.key, life |-> thread[t].life,
                         payload |-> thread[t].call.payload,
                         replayed |-> ~thread[t].isNew,
                         legacy |-> thread[t].value.at = LegacyAt, at |-> StoredAt(t)]}
                ELSE answers                     \* 409, no score
  /\ thread' = [thread EXCEPT ![t] = Idle]
  /\ UNCHANGED <<redis, aof, wire, clock, calls, restarts, life>>

(* The command timeout: the caller gets an error, the command stays sent. *)
Timeout(t) ==
  /\ thread[t].pc = "waiting"
  /\ thread' = [thread EXCEPT ![t] = Idle]
  /\ UNCHANGED <<redis, aof, wire, clock, calls, restarts, life, answers>>

(* The connection drops a call before Redis runs it; its caller, if any, fails. *)
Lose(call) ==
  /\ call \in wire
  /\ wire' = wire \ {call}
  /\ thread' = [t \in Threads |-> IF Waiting(t, call) THEN Idle ELSE thread[t]]
  /\ UNCHANGED <<redis, aof, clock, calls, restarts, life, answers>>

(* 24 hours after the SET, whatever is still in flight. *)
Expire(k) ==
  /\ redis.idem[k] # NoRecord
  /\ life[k] < MaxExpiries
  /\ redis' = [redis EXCEPT !.idem[k] = NoRecord,
                            !.expired[k] = IF redis.idem[k].at = LegacyAt THEN @ ELSE @ + 1]
  /\ life' = [life EXCEPT ![k] = @ + 1]
  /\ UNCHANGED <<aof, wire, thread, clock, calls, restarts, answers>>

(* appendfsync everysec *)
Fsync ==
  /\ aof # redis
  /\ aof' = redis
  /\ UNCHANGED <<redis, wire, thread, clock, calls, restarts, life, answers>>

(* Redis restarts from its file: one script is one transaction of the file. *)
RestartRedis ==
  /\ restarts < MaxRestarts
  /\ restarts' = restarts + 1
  /\ redis' = aof
  /\ life' = [k \in Keys |-> IF aof.idem[k] = redis.idem[k] THEN life[k] ELSE life[k] + 1]
  /\ UNCHANGED <<aof, wire, thread, clock, calls, answers>>

Tick ==
  /\ clock < MaxClock
  /\ clock' = clock + 1
  /\ UNCHANGED <<redis, aof, wire, thread, calls, restarts, life, answers>>

Next ==
  \/ \E t \in Threads, k \in Keys, p \in Payloads : Receive(t, k, p)
  \/ \E call \in wire : ProcessEvent(call) \/ Lose(call)
  \/ \E t \in Threads : Answer(t) \/ Timeout(t)
  \/ \E k \in Keys : Expire(k)
  \/ Fsync \/ RestartRedis \/ Tick

Spec == Init /\ [][Next]_vars

----------------------------------------------------------------------------
Redis == [score : [Users -> Nat], idem : [Keys -> Records \cup {NoRecord}],
          stream : Seq(Entries), expired : [Keys -> Nat]]

(* The shapes: what the script stores under a key is always a record the   *)
(* adapter can parse, in memory and in the file, and a request thread that *)
(* waits or has a reply still has its call.                                *)
TypeOK ==
  /\ redis \in Redis /\ aof \in Redis
  /\ wire \subseteq Calls
  /\ \A t \in Threads :
       \/ thread[t] = Idle
       \/ thread[t].pc \in {"waiting", "returned"} /\ thread[t].call \in Calls
  /\ {clock, calls, restarts} \subseteq Nat
  /\ life \in [Keys -> Nat]

(* What the accepted events of a stream gave a user. *)
Share(entry, u) ==
  IF entry.type = "new" /\ entry.payload.user = u THEN entry.payload.delta ELSE 0
Total(stream, u) ==
  LET sum[i \in 0..Len(stream)] == IF i = 0 THEN 0 ELSE sum[i - 1] + Share(stream[i], u)
  IN  sum[Len(stream)]

(* A user's score is exactly what the accepted events in the audit stream  *)
(* add up to, in memory and in the file Redis restarts from: no retry, no  *)
(* late command, no conflict and no restart makes the two diverge.         *)
(* (process_event.lua 33-49; SPIKE-001 line 303.)                          *)
ScoreIsSumOfStream ==
  \A r \in {redis, aof} : \A u \in Users : r.score[u] = Total(r.stream, u)

(* An idempotency key is applied once per life of its record: the number   *)
(* of accepted events under a key is the number of its records that        *)
(* expired, plus the live one.  (process_event.lua 11-31, 36-37.)          *)
AppliedOncePerLife ==
  \A r \in {redis, aof} : \A k \in Keys :
    Cardinality({i \in DOMAIN r.stream : r.stream[i].type = "new" /\ r.stream[i].key = k}) =
      r.expired[k] + (IF r.idem[k] # NoRecord /\ r.idem[k].at # LegacyAt THEN 1 ELSE 0)

(* All the successful answers given for a key while its record lives speak *)
(* of one event: the same payload, one of them at most as not replayed,    *)
(* and, unless the record is a legacy one, the same processing time,       *)
(* however the retries, timeouts and late commands interleaved.            *)
(* (EventCommandRepositoryAdapter 61-73, 94-119.)                          *)
AnswersAgree ==
  \A a, b \in answers : a.key = b.key /\ a.life = b.life =>
    /\ a.payload = b.payload
    /\ a.at = b.at \/ (a.legacy /\ b.legacy)
    /\ a.replayed \/ b.replayed \/ a = b

(* A conflict entry is about a key whose record was written by another     *)
(* payload: the newest accepted event under that key before it differs.    *)
(* (process_event.lua 16-29.)                                              *)
ConflictEntriesAreReal ==
  \A i \in DOMAIN redis.stream : redis.stream[i].type = "conflict" =>
    LET earlier == {j \in 1..(i - 1) : /\ redis.stream[j].type = "new"
                                       /\ redis.stream[j].key = redis.stream[i].key}
    IN  earlier # {} /\ redis.stream[Max(earlier)].payload # redis.stream[i].payload
=============================================================================
