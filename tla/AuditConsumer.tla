---------------------------- MODULE AuditConsumer ----------------------------
(***************************************************************************)
(* The audit consumers: each process runs one batch listener of the group. *)
(* It polls a batch, inserts the rows it can parse, sends the others to    *)
(* the dead-letter topic, and lets the container commit the batch.  A      *)
(* transient database error re-invokes the listener with the same batch    *)
(* until it succeeds; any other error of the first invocation stops the    *)
(* container.  Partitions may change hands at any point.                   *)
(* Parsing a record gives the same result each time, so its three attempts *)
(* are one; a record is <<partition, offset>>.                             *)
(***************************************************************************)
EXTENDS Integers, Sequences, FiniteSets

CONSTANTS Parts,        \* partitions of lb-audit-events
          Events,       \* (leaderboard_id, event_id) pairs
          PartOf,       \* the partition a leaderboard's key hashes to
          Consumers,    \* processes running the listener
          None,         \* no consumer
          MaxPoll,      \* spring.kafka.consumer.max-poll-records
          MaxLog,       \* bound: records of all the partitions
          MaxFaults,    \* bound: faults of the kinds below
          FaultKinds    \* the faults of the environment

ASSUME ConsumerAssumption ==
  /\ PartOf \in [Events -> Parts]
  /\ None \notin Consumers
  /\ MaxPoll \in Nat \ {0}
  /\ MaxLog \in Nat
  /\ MaxFaults \in Nat

VARIABLES
  log,         \* the records of each partition
  rows,        \* how many rows of audit_events an event has
  dlt,         \* records in the dead-letter topic
  committed,   \* the group's committed offset of each partition
  owner,       \* who a partition is assigned to
  position,    \* how far its owner has polled a partition
  consumer,    \* what each process is doing, and its AuditConsumerStatus
  faults

vars == <<log, rows, dlt, committed, owner, position, consumer, faults>>

At(tn) == log[tn[1]][tn[2]]
Unparsable(records) == {tn \in records : ~At(tn).full}
Running(c) == consumer[c].pc \notin {"down", "stopped"}

(* "error" is how the listener's last invocation ended; "retrying" and      *)
(* "permanent" are the fields of AuditConsumerStatus.                      *)
Fresh(at) ==
  [pc |-> at, batch |-> {}, failures |-> {}, error |-> "none",
   retrying |-> FALSE, permanent |-> FALSE]

Fault(kind) ==
  /\ kind \in FaultKinds
  /\ faults < MaxFaults
  /\ faults' = faults + 1

Init ==
  /\ log = [t \in Parts |-> << >>]
  /\ rows = [e \in Events |-> 0]
  /\ dlt = {}
  /\ committed = [t \in Parts |-> 0]
  /\ owner = [t \in Parts |-> None]
  /\ position = [t \in Parts |-> 0]
  /\ consumer = [c \in Consumers |-> Fresh("down")]
  /\ faults = 0

----------------------------------------------------------------------------
(* The relay publishes an event, perhaps again, perhaps without its body. *)
Produce(e, full) ==
  /\ Cardinality({tn \in Parts \X (1..MaxLog) : tn[2] <= Len(log[tn[1]])}) < MaxLog
  /\ log' = [log EXCEPT ![PartOf[e]] = Append(@, [id |-> e, full |-> full])]
  /\ UNCHANGED <<rows, dlt, committed, owner, position, consumer, faults>>

(* A consumer learns of an assignment only while it polls, which it also   *)
(* does between two retries; the one that loses a partition may be         *)
(* anywhere.  The new owner starts from the committed offset.              *)
PositionKept(t) == position[t]                            \* mutated form of StartPosition
StartPosition(t) == committed[t]

Assign(t, c) ==
  /\ consumer[c].pc \in {"poll", "wait"}
  /\ owner[t] # c
  /\ IF owner[t] = None THEN UNCHANGED faults ELSE Fault("rebalance")
  /\ owner' = [owner EXCEPT ![t] = c]
  /\ position' = [position EXCEPT ![t] = StartPosition(t)]
  /\ UNCHANGED <<log, rows, dlt, committed, consumer>>

Freed(c) == [t \in Parts |-> IF owner[t] = c THEN None ELSE owner[t]]

Poll(c) ==
  /\ consumer[c].pc = "poll"
  /\ \E upto \in [Parts -> 0..MaxLog] :
       LET batch == {tn \in Parts \X (1..MaxLog) :
                       tn[2] > position[tn[1]] /\ tn[2] <= upto[tn[1]]}
       IN  /\ \A t \in Parts :
                IF owner[t] = c THEN upto[t] \in position[t]..Len(log[t])
                                ELSE upto[t] = position[t]
           /\ Cardinality(batch) \in 1..MaxPoll
           /\ position' = upto
           /\ consumer' = [consumer EXCEPT ![c] =
                [@ EXCEPT !.pc = "store", !.batch = batch, !.failures = Unparsable(batch)]]
  /\ UNCHANGED <<log, rows, dlt, committed, owner, faults>>

(* An exception leaves consume.  The first invocation's is handled by its  *)
(* class; in the retry loop of the transient handler every further one     *)
(* only schedules the next invocation.                                     *)
FailsSilently(c, kind) ==                                 \* mutated form of Fails
  /\ Fault(kind)
  /\ IF consumer[c].retrying \/ kind = "transient"
     THEN /\ consumer' = [consumer EXCEPT ![c] =
               [@ EXCEPT !.pc = "wait", !.error = kind, !.retrying = TRUE]]
          /\ UNCHANGED owner
     ELSE /\ consumer' = [consumer EXCEPT ![c] = [@ EXCEPT !.pc = "stopped", !.error = kind]]
          /\ owner' = Freed(c)

Fails(c, kind) ==
  /\ Fault(kind)
  /\ IF consumer[c].retrying \/ kind = "transient"
     THEN /\ consumer' = [consumer EXCEPT ![c] =
               [@ EXCEPT !.pc = "wait", !.error = kind, !.retrying = TRUE]]
          /\ UNCHANGED owner
     ELSE /\ consumer' = [consumer EXCEPT ![c] =
               [@ EXCEPT !.pc = "stopped", !.error = kind, !.permanent = (kind = "permanent")]]
          /\ owner' = Freed(c)

(* INSERT ... ON CONFLICT DO NOTHING: an event that has its row keeps it.  *)
InsertedAgain(records) ==                                 \* mutated form of Inserted
  [e \in Events |-> rows[e] + Cardinality({tn \in records : At(tn).id = e})]
Inserted(records) ==
  [e \in Events |-> IF rows[e] = 0 /\ \E tn \in records : At(tn).id = e THEN 1 ELSE rows[e]]

(* The rows are inserted in one batch without a transaction of their own:  *)
(* when it fails, some of them may be there.  Without rows nothing is sent. *)
Store(c) ==
  LET good == consumer[c].batch \ Unparsable(consumer[c].batch)
  IN  /\ consumer[c].pc = "store"
      /\ \/ /\ rows' = Inserted(good)
            /\ consumer' = [consumer EXCEPT ![c].pc = "dead"]
            /\ UNCHANGED <<owner, faults>>
         \/ \E done \in SUBSET good, kind \in {"transient", "permanent"} :
              /\ good # {}
              /\ rows' = Inserted(done)
              /\ Fails(c, kind)
      /\ UNCHANGED <<log, dlt, committed, position>>

(* One failed record goes to the dead-letter topic; when the send is       *)
(* reported as failed it may have got there all the same.                  *)
DeadLetter(c) ==
  /\ consumer[c].pc = "dead"
  /\ \E tn \in consumer[c].failures :
       \/ /\ dlt' = dlt \cup {tn}
          /\ consumer' = [consumer EXCEPT ![c].failures = @ \ {tn}]
          /\ UNCHANGED <<owner, faults>>
       \/ /\ dlt' \in {dlt, dlt \cup {tn}}
          /\ Fails(c, "dlt")
  /\ UNCHANGED <<log, rows, committed, position>>

(* recordSuccess, and consume returns to the container. *)
Succeed(c) ==
  /\ consumer[c].pc = "dead" /\ consumer[c].failures = {}
  /\ consumer' = [consumer EXCEPT ![c] =
       [@ EXCEPT !.pc = "commit", !.error = "none", !.retrying = FALSE, !.permanent = FALSE]]
  /\ UNCHANGED <<log, rows, dlt, committed, owner, position, faults>>

(* The container commits the end of the batch in each of its partitions.   *)
(* A member that lost a partition may be refused, or may overwrite what    *)
(* the new owner committed; a commit may also fail for reasons of its own. *)
OffsetsOf(batch, t) == {tn[2] : tn \in {r \in batch : r[1] = t}}
PolledTo(batch, t) == position[t]                         \* mutated form of CommitTo
CommitPastEnd(batch, t) ==                                \* mutated form of CommitTo
  LET mine == OffsetsOf(batch, t)
  IN  IF mine = {} THEN committed[t]
      ELSE 1 + CHOOSE n \in mine : \A m \in mine : m <= n
CommitTo(batch, t) ==
  LET mine == OffsetsOf(batch, t)
  IN  IF mine = {} THEN committed[t]
      ELSE CHOOSE n \in mine : \A m \in mine : m <= n

CommitBatch(c) ==
  LET batch == consumer[c].batch
      lost == \E tn \in batch : owner[tn[1]] # c
  IN  /\ consumer[c].pc = "commit"
      /\ \/ /\ committed' = [t \in Parts |-> CommitTo(batch, t)]
            /\ UNCHANGED faults
         \/ lost /\ UNCHANGED <<committed, faults>>
         \/ Fault("commit") /\ UNCHANGED committed
      /\ consumer' = [consumer EXCEPT ![c] = [@ EXCEPT !.pc = "poll", !.batch = {}]]
      /\ UNCHANGED <<log, rows, dlt, owner, position>>

(* The backoff is over: consume is called with the same batch. *)
Retry(c) ==
  /\ consumer[c].pc = "wait"
  /\ consumer' = [consumer EXCEPT ![c] =
       [@ EXCEPT !.pc = "store", !.failures = Unparsable(consumer[c].batch)]]
  /\ UNCHANGED <<log, rows, dlt, committed, owner, position, faults>>

----------------------------------------------------------------------------
Crash(c) ==
  /\ consumer[c].pc # "down"
  /\ Fault("crash")
  /\ consumer' = [consumer EXCEPT ![c] = Fresh("down")]
  /\ owner' = Freed(c)
  /\ UNCHANGED <<log, rows, dlt, committed, position>>

(* A process starts; a stopped one is started anew by its operator. *)
Start(c) ==
  /\ ~Running(c)
  /\ consumer' = [consumer EXCEPT ![c] = Fresh("poll")]
  /\ UNCHANGED <<log, rows, dlt, committed, owner, position, faults>>

ListenerStep(c) == Store(c) \/ DeadLetter(c) \/ Succeed(c) \/ CommitBatch(c) \/ Retry(c)

ConsumerNext ==
  \E c \in Consumers :
    \/ Poll(c) \/ ListenerStep(c) \/ Crash(c) \/ Start(c)
    \/ \E t \in Parts : Assign(t, c)

Next ==
  \/ \E e \in Events, full \in BOOLEAN : Produce(e, full)
  \/ ConsumerNext

Spec == Init /\ [][Next]_vars

(* A listener thread goes on; the group coordinator assigns a partition    *)
(* nobody has; a process that is down, or that reports DOWN, is started.   *)
ConsumerFairness ==
  /\ \A c \in Consumers :
       /\ WF_vars(Poll(c)) /\ WF_vars(ListenerStep(c))
       /\ WF_vars((consumer[c].pc = "down" \/ consumer[c].permanent) /\ Start(c))
  /\ \A t \in Parts : SF_vars(owner[t] = None /\ \E c \in Consumers : Assign(t, c))

FairSpec == Spec /\ ConsumerFairness

----------------------------------------------------------------------------
ConsumerStates ==
  [pc : {"down", "poll", "store", "dead", "commit", "wait", "stopped"},
   batch : SUBSET (Parts \X (Nat \ {0})), failures : SUBSET (Parts \X (Nat \ {0})),
   error : {"none", "transient", "permanent", "dlt"},
   retrying : BOOLEAN, permanent : BOOLEAN]

TypeOK ==
  /\ log \in [Parts -> Seq([id : Events, full : BOOLEAN])]
  /\ rows \in [Events -> Nat]
  /\ \A tn \in dlt : tn[1] \in Parts /\ tn[2] \in 1..Len(log[tn[1]])
  /\ committed \in [Parts -> Nat] /\ \A t \in Parts : committed[t] <= Len(log[t])
  /\ owner \in [Parts -> Consumers \cup {None}]
  /\ position \in [Parts -> Nat] /\ \A t \in Parts : position[t] <= Len(log[t])
  /\ consumer \in [Consumers -> ConsumerStates]
  /\ faults \in Nat

Settled(tn) == IF At(tn).full THEN rows[At(tn).id] = 1 ELSE tn \in dlt

(* An offset is committed only over records that are in PostgreSQL exactly *)
(* once or, when they cannot be parsed, in the dead-letter topic: whoever  *)
(* processed them, however often the batch was retried or the partition    *)
(* changed hands.  (AuditEventConsumer 56-79; change notes 46, 85, 94.)    *)
CommittedSettled == \A t \in Parts : \A n \in 1..committed[t] : Settled(<<t, n>>)

(* What the group does is what the abstract sink allows: rows appear once  *)
(* and only for published events, the dead-letter topic gets only what     *)
(* cannot be parsed, and no commit runs ahead of either.                   *)
Sink == INSTANCE AuditSink
ImplementsSink == Sink!Spec

(* A container that stopped reports DOWN, unless it was a dead-letter send *)
(* that stopped it; and only a stopped one reports a permanent error.      *)
(* (AuditConsumerErrorConfig 38-51; change notes 87-88.)                   *)
StopIsReported ==
  \A c \in Consumers :
    /\ consumer[c].pc = "stopped" => consumer[c].permanent \/ consumer[c].error = "dlt"
    /\ consumer[c].permanent => consumer[c].pc = "stopped"

(* "Any other, permanent DB error stops the consumer."  (Change notes 87;  *)
(* SPIKE-001 line 236.)                                                    *)
PermanentErrorStops ==
  \A c \in Consumers : consumer[c].error = "permanent" => consumer[c].pc = "stopped"

(* Every published record is settled in the end, unless failed dead-letter *)
(* sends have stopped every consumer while its health still says UP.       *)
(* (AuditEventConsumer 56-79; AuditConsumerStatus 86-99.)                  *)
StoppedUnnoticed == \A c \in Consumers : consumer[c].pc = "stopped" /\ ~consumer[c].permanent
EveryRecordSettled ==
  \A t \in Parts, n \in 1..MaxLog :
    n <= Len(log[t]) ~> (n <= Len(log[t]) /\ Settled(<<t, n>>)) \/ StoppedUnnoticed
=============================================================================
