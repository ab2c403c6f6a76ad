----------------------------- MODULE AuditRelay -----------------------------
(***************************************************************************)
(* The outbox of one leaderboard: a Redis stream read through a consumer   *)
(* group by relay processes that publish to Kafka and XACK, and trimmed by *)
(* the same processes.  Inside a process the relay tick and the trim tick  *)
(* share one scheduler thread; between processes every Redis command may   *)
(* interleave.  A process may crash anywhere, a send may throw, fail, or   *)
(* land without its caller learning it, and a Redis command may fail       *)
(* before or after it took effect.                                         *)
(* An entry is its position in the stream.  A published record is its      *)
(* entry and whether the body was still there to be published.             *)
(***************************************************************************)
EXTENDS Integers, Sequences, FiniteSets

CONSTANTS Procs,        \* relay processes, each with its own consumer name
          BatchSize,    \* events.relay.batch-size
          MaxLen,       \* the MAXLEN of XADD
          Overlap,      \* may two relay processes be up at once?
          MaxEntries,   \* bound: entries added
          MaxFaults,    \* bound: faults of the kinds below
          FaultKinds    \* the faults of the environment

ASSUME RelayAssumption ==
  /\ BatchSize \in Nat \ {0}
  /\ MaxLen \in Nat
  /\ Overlap \in BOOLEAN
  /\ MaxEntries \in Nat
  /\ MaxFaults \in Nat

VARIABLES
  added,       \* entries XADDed so far: 1 .. added
  body,        \* entries whose body is still in the stream
  group,       \* does the consumer group exist?
  delivered,   \* last-delivered-id of the group
  pel,         \* pending entries of each consumer
  stale,       \* pending entries idle for at least claim-min-idle
  topic,       \* records of the leaderboard's partition
  wire,        \* records buffered in each process's producer
  relay,       \* what each process's scheduler thread is doing
  faults,
  raced,       \* history: entries XTRIM removed while pending
  overflowed   \* history: entries MAXLEN removed before they were done

stream == <<added, body, group, delivered, pel, stale>>
vars == <<added, body, group, delivered, pel, stale, topic, wire, relay,
          faults, raced, overflowed>>

RecWithoutEventId(n, f) == [id |-> 0, full |-> f]         \* mutated form of Rec
Rec(n, f) == [id |-> n, full |-> f]
Pending == UNION {pel[p] : p \in Procs}
Published(n) == \E i \in DOMAIN topic : topic[i] = Rec(n, TRUE)
Up(p) == relay[p].pc # "down"

LastOf(S, k) == {n \in S : Cardinality({m \in S : m > n}) < k}    \* mutated form of FirstOf
(* The first k members of a set of entries, in stream order. *)
FirstOf(S, k) == {n \in S : Cardinality({m \in S : m < n}) < k}

(* Between two ticks a process keeps only its XAUTOCLAIM cursor. *)
Resting(c, at) ==
  [pc |-> at, next |-> "idle", batch |-> {}, unsent |-> {}, good |-> {},
   room |-> 0, mark |-> 0, cursor |-> c]
Rest(p) == Resting(relay[p].cursor, "idle")

(* Publish the batch just read, then go on at "next". *)
Publishing(ids, next, room, cursor) ==
  LET records == {Rec(n, n \in body) : n \in ids}
  IN  [pc |-> "send", next |-> next, batch |-> records, unsent |-> records,
       good |-> {}, room |-> room, mark |-> 0, cursor |-> cursor]

Fault(kind) ==
  /\ kind \in FaultKinds
  /\ faults < MaxFaults
  /\ faults' = faults + 1

(* The reply of a Redis command arrives, or is lost after the command ran. *)
Replied(p, state) ==
  \/ relay' = [relay EXCEPT ![p] = state] /\ UNCHANGED faults
  \/ relay' = [relay EXCEPT ![p] = Rest(p)] /\ Fault("redis")

Init ==
  /\ added = 0 /\ body = {} /\ group = FALSE /\ delivered = 0
  /\ pel = [p \in Procs |-> {}] /\ stale = {}
  /\ topic = << >>
  /\ wire = [p \in Procs |-> << >>]
  /\ relay = [p \in Procs |-> Resting(0, "down")]
  /\ faults = 0
  /\ raced = {} /\ overflowed = {}

----------------------------------------------------------------------------
(* XADD MAXLEN ~: the new entry, and perhaps the oldest ones gone, never   *)
(* leaving fewer than MaxLen.                                              *)
Add ==
  /\ added < MaxEntries
  /\ added' = added + 1
  /\ \E oldest \in 1..(added + 1) :
       LET kept == {n \in body \cup {added + 1} : n >= oldest}
       IN  /\ oldest = 1 \/ Cardinality(kept) >= MaxLen
           /\ body' = kept
           /\ overflowed' = overflowed \cup
                {n \in body : n < oldest /\ (n > delivered \/ n \in Pending)}
  /\ UNCHANGED <<group, delivered, pel, stale, topic, wire, relay, faults, raced>>

(* relayAll reaches this leaderboard; ensureGroup swallows every failure. *)
Tick(p) ==
  /\ relay[p].pc = "idle"
  /\ \/ group' = TRUE /\ UNCHANGED faults
     \/ UNCHANGED group /\ Fault("redis")
  /\ relay' = [relay EXCEPT ![p].pc = "own"]
  /\ UNCHANGED <<added, body, delivered, pel, stale, topic, wire, raced, overflowed>>

(* XREADGROUP 0: this consumer's own pending entries, oldest first.  An    *)
(* entry whose body is gone comes back without fields.                     *)
ReadOwn(p) ==
  /\ relay[p].pc = "own" /\ group
  /\ LET ids == FirstOf(pel[p], BatchSize)
         room == BatchSize - Cardinality(ids)
         next == IF room > 0 THEN "claim" ELSE "new"
     IN  /\ stale' = stale \ ids
         /\ Replied(p, IF ids = {}
                       THEN [relay[p] EXCEPT !.pc = "claim", !.room = BatchSize]
                       ELSE Publishing(ids, next, room, relay[p].cursor))
  /\ UNCHANGED <<added, body, group, delivered, pel, topic, wire, raced, overflowed>>

(* The cursor XAUTOCLAIM returns: the pending entry after the last one it   *)
(* looked at, 0 once it has seen the end of the PEL.                       *)
CursorPastEnd(p, ahead, visit) == {added + 1}       \* mutated form: never back to 0
NextCursor(p, ahead, visit) ==
  LET rest == {n \in ahead : \A m \in visit : m < n}
  IN  IF Cardinality(visit) < relay[p].room \/ rest = {} THEN {0} ELSE FirstOf(rest, 1)

(* Claimed entries change owner; without a body they leave the PEL. *)
ClaimedTwice(p, visit) == [pel EXCEPT ![p] = @ \cup (visit \cap body)]    \* mutated form
Claimed(p, visit) ==
  [q \in Procs |-> IF q = p THEN (pel[q] \ visit) \cup (visit \cap body) ELSE pel[q] \ visit]

(* XAUTOCLAIM from the cursor: a pending entry whose body is gone leaves   *)
(* the PEL, an idle one moves to this consumer, at most "room" of them.    *)
Claim(p) ==
  /\ relay[p].pc = "claim" /\ group
  /\ LET ahead == {n \in Pending : n >= relay[p].cursor}
         visit == FirstOf({n \in ahead : n \notin body \/ n \in stale}, relay[p].room)
         moved == visit \cap body
     IN  /\ pel' = Claimed(p, visit)
         /\ stale' = stale \ visit
         /\ \E c \in NextCursor(p, ahead, visit) :
              Replied(p, IF moved = {}
                         THEN Resting(c, "new")
                         ELSE Publishing(moved, "new", 0, c))
  /\ UNCHANGED <<added, body, group, delivered, topic, wire, raced, overflowed>>

(* XREADGROUP >: the next entries nobody was given, until there is none. *)
ReadNew(p) ==
  /\ relay[p].pc = "new" /\ group
  /\ LET ids == FirstOf({n \in body : n > delivered}, BatchSize)
     IN  \/ /\ ids = {}
            /\ relay' = [relay EXCEPT ![p] = Rest(p)]
            /\ UNCHANGED <<delivered, pel, faults>>
         \/ \E last \in ids :
              /\ \A n \in ids : n <= last
              /\ delivered' = last
              /\ pel' = [pel EXCEPT ![p] = @ \cup ids]
              /\ Replied(p, Publishing(ids, "new", 0, relay[p].cursor))
  /\ UNCHANGED <<added, body, group, stale, topic, wire, raced, overflowed>>

(* One kafkaTemplate.send: the record joins the producer's buffer. *)
Send(p) ==
  /\ relay[p].pc = "send"
  /\ \E r \in relay[p].unsent :
       /\ \A s \in relay[p].unsent : r.id <= s.id
       /\ wire' = [wire EXCEPT ![p] = Append(@, [rec |-> r, own |-> TRUE])]
       /\ relay' = [relay EXCEPT ![p].unsent = @ \ {r}]
  /\ UNCHANGED <<stream, topic, faults, raced, overflowed>>

(* send throws: a KafkaException leaves relayAll; what was buffered stays  *)
(* in the producer, but nobody will look at its outcome.                   *)
SendThrows(p) ==
  /\ relay[p].pc = "send" /\ relay[p].unsent # {}
  /\ Fault("throw")
  /\ relay' = [relay EXCEPT ![p] = Rest(p)]
  /\ wire' = [wire EXCEPT ![p] = [i \in DOMAIN wire[p] |-> [wire[p][i] EXCEPT !.own = FALSE]]]
  /\ UNCHANGED <<stream, topic, raced, overflowed>>

(* The broker appends a producer's records in order; the outcome is        *)
(* reported to the sender, or lost.                                        *)
Land(p) ==
  /\ wire[p] # << >>
  /\ LET sent == Head(wire[p])
     IN  /\ topic' = Append(topic, sent.rec)
         /\ \/ /\ relay' = IF sent.own
                           THEN [relay EXCEPT ![p].good = @ \cup {sent.rec.id}]
                           ELSE relay
               /\ UNCHANGED faults
            \/ Fault("unreported") /\ UNCHANGED relay
  /\ wire' = [wire EXCEPT ![p] = Tail(@)]
  /\ UNCHANGED <<stream, raced, overflowed>>

(* A record is given up by the producer; the ones behind it go on. *)
Drop(p) ==
  /\ wire[p] # << >>
  /\ Fault("drop")
  /\ wire' = [wire EXCEPT ![p] = Tail(@)]
  /\ UNCHANGED <<stream, topic, relay, raced, overflowed>>

(* flush has returned: XACK what was reported as published.  With nothing  *)
(* to acknowledge there is no command.                                     *)
Flushed(p) == relay[p].pc = "send" /\ relay[p].unsent = {} /\ wire[p] = << >>

AcknowledgedAll(p) == {r.id : r \in relay[p].batch}            \* mutated form
Acknowledged(p) == relay[p].good

Ack(p) ==
  /\ Flushed(p)
  /\ pel' = [q \in Procs |-> pel[q] \ Acknowledged(p)]
  /\ stale' = stale \ Acknowledged(p)
  /\ Acknowledged(p) = {} => UNCHANGED faults
  /\ Replied(p, [Resting(relay[p].cursor, relay[p].next) EXCEPT !.room = relay[p].room])
  /\ UNCHANGED <<added, body, group, delivered, topic, wire, raced, overflowed>>

(* A command fails without effect, or there is no group to read from: the  *)
(* DataAccessException ends this leaderboard's tick.                       *)
RedisFails(p) ==
  /\ \/ relay[p].pc \in {"own", "claim", "new", "xinfo", "xtrim"}
     \/ Flushed(p) /\ Acknowledged(p) # {}
  /\ relay' = [relay EXCEPT ![p] = Rest(p)]
  /\ \/ Fault("redis")
     \/ relay[p].pc = "own" /\ ~group /\ UNCHANGED faults
  /\ UNCHANGED <<stream, topic, wire, raced, overflowed>>

----------------------------------------------------------------------------
(* The trim tick.  XPENDING: with anything pending the watermark is the    *)
(* oldest pending entry of the whole group ...                             *)
TrimPending(p) ==
  /\ relay[p].pc = "idle" /\ group
  /\ \/ /\ Pending = {}
        /\ relay' = [relay EXCEPT ![p].pc = "xinfo"]
     \/ \E oldest \in Pending :
          /\ \A n \in Pending : oldest <= n
          /\ relay' = [relay EXCEPT ![p] = [@ EXCEPT !.pc = "xtrim", !.mark = oldest]]
  /\ UNCHANGED <<stream, topic, wire, faults, raced, overflowed>>

(* ... and otherwise a second command, XINFO GROUPS, reads how far the     *)
(* group has been delivered by now.                                        *)
TrimInfo(p) ==
  /\ relay[p].pc = "xinfo"
  /\ relay' = [relay EXCEPT ![p] = [@ EXCEPT !.pc = "xtrim", !.mark = delivered]]
  /\ UNCHANGED <<stream, topic, wire, faults, raced, overflowed>>

(* XTRIM MINID: everything before the watermark goes. *)
CutThrough(p) == {n \in body : n <= relay[p].mark}             \* mutated form
Cut(p) == {n \in body : n < relay[p].mark}

Trim(p) ==
  /\ relay[p].pc = "xtrim"
  /\ body' = body \ Cut(p)
  /\ raced' = raced \cup (Cut(p) \cap Pending)
  /\ Replied(p, Rest(p))
  /\ UNCHANGED <<added, group, delivered, pel, stale, topic, wire, overflowed>>

----------------------------------------------------------------------------
(* A killed process loses its batch, its producer's buffer and its cursor;  *)
(* the PEL under its consumer name stays in Redis.                         *)
Crash(p) ==
  /\ Up(p)
  /\ Fault("crash")
  /\ relay' = [relay EXCEPT ![p] = Resting(0, "down")]
  /\ wire' = [wire EXCEPT ![p] = << >>]
  /\ UNCHANGED <<stream, topic, raced, overflowed>>

Start(p) ==
  /\ ~Up(p)
  /\ Overlap \/ \A q \in Procs : ~Up(q)
  /\ relay' = [relay EXCEPT ![p].pc = "idle"]
  /\ UNCHANGED <<stream, topic, wire, faults, raced, overflowed>>

(* Ten minutes without a delivery of this pending entry. *)
Age(n) ==
  /\ n \in Pending \ stale
  /\ stale' = stale \cup {n}
  /\ UNCHANGED <<added, body, group, delivered, pel, topic, wire, relay, faults,
                 raced, overflowed>>

RelayStep(p) ==
  \/ Tick(p) \/ ReadOwn(p) \/ Claim(p) \/ ReadNew(p)
  \/ Send(p) \/ SendThrows(p) \/ Ack(p) \/ RedisFails(p)

TrimStep(p) == TrimPending(p) \/ TrimInfo(p) \/ Trim(p)

Next ==
  \/ Add
  \/ \E p \in Procs :
       \/ RelayStep(p) \/ TrimStep(p)
       \/ Land(p) \/ Drop(p)
       \/ Crash(p) \/ Start(p)
  \/ \E n \in Pending : Age(n)

Spec == Init /\ [][Next]_vars

(* The scheduler runs a process's ticks to their end and, because both are *)
(* due at fixed delays on one thread, comes back to the relay however the  *)
(* trim ticks fall; Kafka answers; some relay is started again; and time   *)
(* passes for a pending entry.  Faults stop at their bound.                *)
Fairness ==
  /\ \A p \in Procs :
       /\ WF_vars(RelayStep(p) \/ TrimStep(p)) /\ WF_vars(Land(p))
       /\ SF_vars(Tick(p))
  /\ WF_vars(\E p \in Procs : Start(p))
  /\ \A n \in 1..MaxEntries : WF_vars(Age(n))

FairSpec == Spec /\ Fairness

----------------------------------------------------------------------------
Records == [id : Nat \ {0}, full : BOOLEAN]

RelayStates ==
  [pc : {"down", "idle", "own", "claim", "new", "send", "xinfo", "xtrim"},
   next : {"idle", "claim", "new"},
   batch : SUBSET Records, unsent : SUBSET Records, good : SUBSET (Nat \ {0}),
   room : Int, mark : Nat, cursor : Nat]

(* Every entry the group, a PEL or a history names has been added, and only *)
(* delivered entries are pending.                                          *)
TypeOK ==
  /\ added \in Nat
  /\ body \subseteq 1..added
  /\ group \in BOOLEAN
  /\ delivered \in 0..added
  /\ pel \in [Procs -> SUBSET (1..delivered)]
  /\ stale \subseteq 1..delivered
  /\ topic \in Seq(Records)
  /\ wire \in [Procs -> Seq([rec : Records, own : BOOLEAN])]
  /\ relay \in [Procs -> RelayStates]
  /\ faults \in Nat
  /\ raced \subseteq 1..added /\ overflowed \subseteq 1..added

(* An entry is still owed to Kafka when its body is in the stream and the  *)
(* group has it yet to deliver or pending.                                 *)
Owed(n) == n \in body /\ (n > delivered \/ n \in Pending)

(* No event is lost between the script's XADD and Kafka: through crashes,  *)
(* failed sends, lost replies and handovers, every entry is still owed or  *)
(* has been published with its body.  (AuditRelayWorker 102-121, 194-228;  *)
(* SPIKE-001 lines 57-67.)                                                 *)
NoEventLost == \A n \in 1..added : Owed(n) \/ Published(n)

(* With any number of relays up at once, and a stream that hits MAXLEN, an *)
(* entry can only be lost in two ways: cut by MAXLEN before it was done,   *)
(* or cut by a trim tick while it was pending.                             *)
LossOnlyByCut ==
  \A n \in 1..added : Owed(n) \/ Published(n) \/ n \in raced \cup overflowed

(* The trim tick never cuts a pending entry while one relay is up at a     *)
(* time.                                                                   *)
NoRacedCut == ~Overlap => raced = {}

(* A pending entry belongs to one consumer, whoever claims it when. *)
OneOwner == \A p, q \in Procs : p # q => pel[p] \cap pel[q] = {}

(* XACK comes after Kafka's confirmation: an entry leaves the PEL only     *)
(* once it is published with its body, or when the body was already gone.  *)
(* (AuditRelayWorker 214-226; SPIKE-001 line 176.)                         *)
AckOnlyPublished ==
  [][\A n \in Pending : n \notin Pending' => Published(n) \/ n \notin body]_vars

(* "The watermark never passes the point where moving is finished": an     *)
(* entry whose body leaves the stream has been published.                  *)
(* (AuditStreamTrimWorker 25-27; SPIKE-001 lines 119-127.)                 *)
CutOnlyPublished == [][\A n \in body : n \notin body' => Published(n)]_vars

(* One relay that never fails puts the first copies of the entries on the  *)
(* topic in the order of the stream, all but those MAXLEN cut; and however *)
(* many relays and faults let an entry be overtaken, it stays pending, to  *)
(* be sent later, and is never out of sight.                               *)
(* (SPIKE-001 lines 95-97 promise the order without the conditions.)       *)
FirstCopiesInOrder ==
  \A i \in DOMAIN topic : \A n \in 1..topic[i].id :
    n \in overflowed \/ \E j \in 1..i : topic[j].id = n
OvertakenOnlyByFaults ==
  /\ faults = 0 /\ ~Overlap => FirstCopiesInOrder
  /\ \A i \in DOMAIN topic : \A n \in 1..topic[i].id :
       Published(n) \/ n \in Pending \/ n \in raced \cup overflowed

(* Every accepted event reaches Kafka in the end, also when the relay that *)
(* read it dies and another one takes its place.                           *)
EveryEventPublished == \A n \in 1..MaxEntries : n <= added ~> Published(n)

----------------------------------------------------------------------------
(* What the safety properties rest on.                                     *)

(* A record without a body is that of a delivered entry whose body is gone *)
(* for good, wherever the record waits.                                    *)
Faithful(r) == r.id <= delivered /\ (r.full \/ r.id \notin body)
RecordsFaithful ==
  \A p \in Procs :
    /\ \A r \in relay[p].unsent : Faithful(r)
    /\ \A i \in DOMAIN wire[p] : Faithful(wire[p][i].rec)

(* What a process is about to acknowledge is published, or had no body. *)
GoodIsDone ==
  \A p \in Procs : \A n \in relay[p].good :
    n <= delivered /\ (Published(n) \/ n \notin body)

(* An entry is in the stream until it is delivered, in the stream while it *)
(* is pending, and published once it is neither: or it was cut.            *)
Accounted ==
  \A n \in 1..added :
    /\ n > delivered => n \in body \cup overflowed
    /\ n \in Pending => n \in body \cup raced \cup overflowed
    /\ n <= delivered /\ n \notin Pending => Published(n) \/ n \in raced \cup overflowed

(* A watermark never passes what the group has been given. *)
MarkSeen == \A p \in Procs : relay[p].pc = "xtrim" => relay[p].mark <= delivered

(* With one relay up at a time, nothing becomes pending behind the back of *)
(* a trim tick.                                                            *)
TrimAlone ==
  ~Overlap =>
    /\ \A p, q \in Procs : Up(p) /\ Up(q) => p = q
    /\ \A p \in Procs : relay[p].pc = "xinfo" => Pending = {}
    /\ \A p \in Procs : relay[p].pc = "xtrim" => \A n \in Pending : relay[p].mark <= n

(* The inductive invariant. *)
Inv ==
  /\ TypeOK /\ RecordsFaithful /\ GoodIsDone /\ Accounted
  /\ MarkSeen /\ OneOwner /\ TrimAlone /\ NoRacedCut
=============================================================================
