------------------------- MODULE AuditConsumerProofs -------------------------
(***************************************************************************)
(* The safety proofs of AuditConsumer, for any number of partitions,       *)
(* events, consumers and faults: types, what a commit may cover, which     *)
(* stops are reported, and that the group implements AuditSink.            *)
(***************************************************************************)
EXTENDS AuditConsumer, SequenceTheorems, TLAPS

(* The published records. *)
Recs == {tn \in Parts \X (Nat \ {0}) : tn[2] <= Len(log[tn[1]])}

(* What a consumer holds: published records without a gap that is not      *)
(* settled, with a last one in each partition, and the unparsable ones     *)
(* that have to go to the dead-letter topic before the batch is done.      *)
BatchSound(c) ==
  /\ consumer[c].batch \subseteq Recs
  /\ consumer[c].failures \subseteq Unparsable(consumer[c].batch)
  /\ consumer[c].pc \in {"down", "poll"} => consumer[c].batch = {}
Gapless(c) ==
  \A tn \in consumer[c].batch : \A n \in 1..tn[2] :
    <<tn[1], n>> \in consumer[c].batch \/ Settled(<<tn[1], n>>)
Topped(c) ==
  \A tn \in consumer[c].batch : \E top \in consumer[c].batch :
    top[1] = tn[1] /\ \A r \in consumer[c].batch : r[1] = tn[1] => r[2] <= top[2]
Progress(c) ==
  /\ consumer[c].pc = "store" => consumer[c].failures = Unparsable(consumer[c].batch)
  /\ consumer[c].pc = "commit" => consumer[c].failures = {}
  /\ consumer[c].pc \in {"dead", "commit"} =>
       \A tn \in consumer[c].batch : Settled(tn) \/ tn \in consumer[c].failures

RowsOnce == \A e \in Events : rows[e] \in {0, 1}

(* Whoever owns a partition has polled no record that is neither settled   *)
(* nor in its hands.                                                       *)
OwnersRun == \A t \in Parts : owner[t] # None => Running(owner[t])
PolledCovered ==
  \A t \in Parts : owner[t] # None =>
    \A n \in 1..position[t] : Settled(<<t, n>>) \/ <<t, n>> \in consumer[owner[t]].batch

Inv ==
  /\ TypeOK /\ RowsOnce /\ OwnersRun /\ PolledCovered /\ CommittedSettled
  /\ \A c \in Consumers : BatchSound(c) /\ Gapless(c) /\ Topped(c) /\ Progress(c)

----------------------------------------------------------------------------
(* A step of the group, or of whoever publishes: the invariant of the      *)
(* consumers does not depend on who appends to the log, nor on the faults  *)
(* of others.                                                              *)
Published(e, full) == log' = [log EXCEPT ![PartOf[e]] = Append(@, [id |-> e, full |-> full])]
Publication ==
  /\ UNCHANGED log \/ \E e \in Events, full \in BOOLEAN : Published(e, full)
  /\ faults' \in Nat
  /\ UNCHANGED <<rows, dlt, committed, owner, position, consumer>>
Step == Publication \/ ConsumerNext

LEMMA NextIsStep == TypeOK /\ [Next]_vars => Step
BY DEF TypeOK, Next, Produce, Published, Publication, Step, vars

(* What grows, and what does not go back. *)
LEMMA LogGrows ==
  ASSUME TypeOK, Step, NEW t \in Parts
  PROVE  /\ log'[t] \in Seq([id : Events, full : BOOLEAN])
         /\ Len(log[t]) \in Nat /\ Len(log'[t]) \in Nat /\ Len(log[t]) <= Len(log'[t])
         /\ \A n \in 1..Len(log[t]) : log'[t][n] = log[t][n]
<1>0. log[t] \in Seq([id : Events, full : BOOLEAN])
  BY DEF TypeOK
<1>1. CASE UNCHANGED log
  BY <1>0, <1>1, LenProperties
<1>2. CASE \E e \in Events, full \in BOOLEAN : Published(e, full)
  <2>1. PICK e \in Events, full \in BOOLEAN : Published(e, full)
    BY <1>2
  <2>2. CASE t = PartOf[e]
    <3>1. log'[t] = Append(log[t], [id |-> e, full |-> full])
      BY <2>1, <2>2 DEF Published, TypeOK
    <3> QED BY <1>0, <3>1, AppendProperties, LenProperties
  <2>3. CASE t # PartOf[e]
    <3>1. log'[t] = log[t]
      BY <2>1, <2>3 DEF Published, TypeOK
    <3> QED BY <1>0, <3>1, LenProperties
  <2> QED BY <2>2, <2>3
<1>3. UNCHANGED log \/ \E e \in Events, full \in BOOLEAN : Published(e, full)
  BY DEF Step, Publication, ConsumerNext, ListenerStep, Poll, Store, DeadLetter, Succeed, CommitBatch,
         Retry, Crash, Start, Assign
<1> QED BY <1>1, <1>2, <1>3

LEMMA RowsGrow ==
  ASSUME TypeOK, RowsOnce, Step
  PROVE  /\ rows' \in [Events -> Nat]
         /\ \A e \in Events : rows'[e] \in {0, 1} /\ (rows[e] = 1 => rows'[e] = 1)
         /\ dlt \subseteq dlt'
<1>1. CASE UNCHANGED rows
  <2>1. dlt \subseteq dlt'
    BY DEF Step, Publication, ConsumerNext, ListenerStep, Poll, Store, DeadLetter, Succeed,
           CommitBatch, Retry, Crash, Start, Assign
  <2> QED BY <1>1, <2>1 DEF TypeOK, RowsOnce
<1>2. CASE \E c \in Consumers : Store(c)
  <2>1. dlt' = dlt /\ \E S : rows' = Inserted(S)
    BY <1>2 DEF Store
  <2>2. PICK S : rows' = Inserted(S)
    BY <2>1
  <2>3. /\ Inserted(S) \in [Events -> Nat]
        /\ \A e \in Events : Inserted(S)[e] \in {0, 1} /\ (rows[e] = 1 => Inserted(S)[e] = 1)
    BY DEF Inserted, TypeOK, RowsOnce
  <2> QED BY <2>1, <2>2, <2>3
<1>3. UNCHANGED rows \/ \E c \in Consumers : Store(c)
  BY DEF Step, Publication, ConsumerNext, ListenerStep, Poll, DeadLetter, Succeed, CommitBatch,
         Retry, Crash, Start, Assign
<1> QED BY <1>1, <1>2, <1>3

(* A published record stays where it is and what it is, and stays settled. *)
LEMMA RecordStays ==
  ASSUME TypeOK, RowsOnce, Step, NEW tn \in Recs
  PROVE  /\ tn \in Recs' /\ At(tn)' = At(tn)
         /\ At(tn).id \in Events /\ At(tn).full \in BOOLEAN
         /\ Settled(tn) => Settled(tn)'
<1>1. /\ tn[1] \in Parts /\ tn[2] \in Nat \ {0} /\ tn[2] <= Len(log[tn[1]])
      /\ tn \in Parts \X (Nat \ {0})
  BY DEF Recs
<1>2. log[tn[1]] \in Seq([id : Events, full : BOOLEAN])
  BY <1>1 DEF TypeOK
<1>3. tn[2] \in 1..Len(log[tn[1]]) /\ tn[2] <= Len(log'[tn[1]])
  BY <1>1, LogGrows
<1>4. tn \in Recs' /\ log'[tn[1]][tn[2]] = log[tn[1]][tn[2]]
  BY <1>1, <1>3, LogGrows DEF Recs
<1>5. log[tn[1]][tn[2]] \in [id : Events, full : BOOLEAN]
  BY <1>2, <1>3, ElementOfSeq
<1>6. At(tn)' = At(tn) /\ At(tn).id \in Events /\ At(tn).full \in BOOLEAN
  BY <1>4, <1>5 DEF At
<1>7. ASSUME Settled(tn) PROVE Settled(tn)'
  BY <1>6, <1>7, RowsGrow DEF Settled
<1> QED BY <1>4, <1>6, <1>7

LEMMA UnparsableStays ==
  ASSUME TypeOK, RowsOnce, Step, NEW S \in SUBSET Recs
  PROVE  Unparsable(S)' = Unparsable(S)
BY RecordStays DEF Unparsable

----------------------------------------------------------------------------
(* A batch that is kept stays gapless and topped, and a consumer that does *)
(* nothing keeps all it promises.                                          *)
LEMMA BatchKept ==
  ASSUME TypeOK, RowsOnce, Step, NEW c \in Consumers, BatchSound(c), Gapless(c), Topped(c),
         consumer'[c].batch = consumer[c].batch
  PROVE  /\ consumer'[c].batch \subseteq Recs'
         /\ Unparsable(consumer[c].batch)' = Unparsable(consumer[c].batch)
         /\ Gapless(c)' /\ Topped(c)'
<1>1. consumer[c].batch \subseteq Recs
  BY DEF BatchSound
<1>2. consumer'[c].batch \subseteq Recs' /\ Unparsable(consumer[c].batch)' = Unparsable(consumer[c].batch)
  BY <1>1, RecordStays DEF Unparsable
<1>3. Gapless(c)'
  <2>1. ASSUME NEW tn \in consumer[c].batch, NEW n \in 1..tn[2]
        PROVE  <<tn[1], n>> \in consumer[c].batch \/ Settled(<<tn[1], n>>)'
    <3>1. <<tn[1], n>> \in Recs
      BY <1>1 DEF Recs
    <3>2. <<tn[1], n>> \in consumer[c].batch \/ Settled(<<tn[1], n>>)
      BY DEF Gapless
    <3> QED BY <3>1, <3>2, RecordStays
  <2> QED BY <2>1 DEF Gapless
<1>4. Topped(c)'
  BY DEF Topped
<1> QED BY <1>2, <1>3, <1>4

LEMMA ConsumerUntouched ==
  ASSUME TypeOK, RowsOnce, Step, NEW c \in Consumers,
         BatchSound(c), Gapless(c), Topped(c), Progress(c), consumer'[c] = consumer[c]
  PROVE  (BatchSound(c) /\ Gapless(c) /\ Topped(c) /\ Progress(c))'
<1>1. consumer[c].batch \subseteq Recs
  BY DEF BatchSound
<1>2. BatchSound(c)' /\ Gapless(c)' /\ Topped(c)'
  BY BatchKept DEF BatchSound
<1>3. Progress(c)'
  BY <1>1, BatchKept, RecordStays DEF Progress
<1> QED BY <1>2, <1>3

----------------------------------------------------------------------------
(* What the acting consumer promises after each of its steps. *)
Promises(c) == BatchSound(c) /\ Gapless(c) /\ Topped(c) /\ Progress(c)

LEMMA FailsState ==
  ASSUME TypeOK, NEW c \in Consumers, NEW kind \in {"transient", "permanent", "dlt"}, Fails(c, kind)
  PROVE  /\ consumer' \in [Consumers -> ConsumerStates]
         /\ \A q \in Consumers : q # c => consumer'[q] = consumer[q]
         /\ consumer'[c].pc \in {"wait", "stopped"}
         /\ consumer'[c].batch = consumer[c].batch /\ consumer'[c].failures = consumer[c].failures
         /\ \/ consumer'[c].pc = "wait" /\ owner' = owner
            \/ consumer'[c].pc = "stopped" /\ owner' = Freed(c)
         /\ faults' \in Nat
<1>1. consumer[c] \in ConsumerStates /\ faults' \in Nat
  BY DEF Fails, Fault, TypeOK
<1>2. CASE consumer[c].retrying \/ kind = "transient"
  <2> DEFINE next == [consumer[c] EXCEPT !.pc = "wait", !.error = kind, !.retrying = TRUE]
  <2>1. consumer' = [consumer EXCEPT ![c] = next] /\ UNCHANGED owner
    BY <1>2 DEF Fails
  <2>2. /\ next \in ConsumerStates /\ next.pc = "wait"
        /\ next.batch = consumer[c].batch /\ next.failures = consumer[c].failures
    BY <1>1 DEF ConsumerStates
  <2> HIDE DEF next
  <2> QED BY <1>1, <2>1, <2>2 DEF TypeOK
<1>3. CASE ~(consumer[c].retrying \/ kind = "transient")
  <2> DEFINE next == [consumer[c] EXCEPT !.pc = "stopped", !.error = kind, !.permanent = (kind = "permanent")]
  <2>1. consumer' = [consumer EXCEPT ![c] = next] /\ owner' = Freed(c)
    BY <1>3 DEF Fails
  <2>2. /\ next \in ConsumerStates /\ next.pc = "stopped"
        /\ next.batch = consumer[c].batch /\ next.failures = consumer[c].failures
    BY <1>1 DEF ConsumerStates
  <2> HIDE DEF next
  <2> QED BY <1>1, <2>1, <2>2 DEF TypeOK
<1> QED BY <1>2, <1>3

LEMMA FailedPromises ==
  ASSUME Inv, Step, NEW c \in Consumers, NEW kind \in {"transient", "permanent", "dlt"}, Fails(c, kind)
  PROVE  Promises(c)'
<1>1. /\ consumer'[c].pc \in {"wait", "stopped"}
      /\ consumer'[c].batch = consumer[c].batch /\ consumer'[c].failures = consumer[c].failures
  BY FailsState DEF Inv
<1>2. consumer'[c].batch \subseteq Recs' /\ Gapless(c)' /\ Topped(c)'
      /\ Unparsable(consumer[c].batch)' = Unparsable(consumer[c].batch)
  BY <1>1, BatchKept DEF Inv
<1> QED BY <1>1, <1>2 DEF Promises, BatchSound, Progress, Inv

LEMMA StorePromises ==
  ASSUME Inv, Step, NEW c \in Consumers, Store(c)
  PROVE  Promises(c)'
<1> DEFINE good == consumer[c].batch \ Unparsable(consumer[c].batch)
<1>1. CASE rows' = Inserted(good) /\ consumer' = [consumer EXCEPT ![c].pc = "dead"]
  <2>1. /\ consumer'[c].pc = "dead" /\ consumer'[c].batch = consumer[c].batch
        /\ consumer'[c].failures = consumer[c].failures
    BY <1>1 DEF Inv, TypeOK, ConsumerStates
  <2>2. consumer'[c].batch \subseteq Recs' /\ Gapless(c)' /\ Topped(c)'
        /\ Unparsable(consumer[c].batch)' = Unparsable(consumer[c].batch)
    BY <2>1, BatchKept DEF Inv
  <2>3. consumer[c].failures = Unparsable(consumer[c].batch)
    BY DEF Store, Inv, Progress
  <2>4. ASSUME NEW tn \in consumer[c].batch, tn \notin consumer[c].failures PROVE Settled(tn)'
    <3>1. tn \in Recs /\ tn \in good /\ At(tn).full
      BY <2>3, <2>4 DEF Inv, BatchSound, Unparsable
    <3>2. At(tn)' = At(tn) /\ At(tn).id \in Events
      BY <3>1, RecordStays DEF Inv
    <3>3. rows'[At(tn).id] = 1
      <4>1. rows[At(tn).id] \in {0, 1}
        BY <3>2 DEF Inv, RowsOnce
      <4>2. Inserted(good)[At(tn).id] = 1
        BY <3>1, <3>2, <4>1 DEF Inserted
      <4> QED BY <1>1, <4>2
    <3> QED BY <3>1, <3>2, <3>3 DEF Settled
  <2> QED BY <2>1, <2>2, <2>3, <2>4 DEF Promises, BatchSound, Progress
<1>2. CASE \E kind \in {"transient", "permanent"} : Fails(c, kind)
  BY <1>2, FailedPromises
<1> QED BY <1>1, <1>2 DEF Store

LEMMA DeadLetterPromises ==
  ASSUME Inv, Step, NEW c \in Consumers, DeadLetter(c)
  PROVE  Promises(c)'
<1>1. ASSUME NEW tn \in consumer[c].failures, dlt' = dlt \cup {tn},
             consumer' = [consumer EXCEPT ![c].failures = @ \ {tn}]
      PROVE  Promises(c)'
  <2>1. /\ consumer'[c].pc = "dead" /\ consumer'[c].batch = consumer[c].batch
        /\ consumer'[c].failures = consumer[c].failures \ {tn}
    BY <1>1 DEF Inv, TypeOK, ConsumerStates, DeadLetter
  <2>2. consumer'[c].batch \subseteq Recs' /\ Gapless(c)' /\ Topped(c)'
        /\ Unparsable(consumer[c].batch)' = Unparsable(consumer[c].batch)
    BY <2>1, BatchKept DEF Inv
  <2>3. tn \in Recs /\ ~At(tn).full
    BY DEF Inv, BatchSound, Unparsable
  <2>4. Settled(tn)'
    BY <1>1, <2>3, RecordStays DEF Inv, Settled
  <2>5. ASSUME NEW r \in consumer[c].batch, r # tn PROVE Settled(r)' \/ r \in consumer'[c].failures
    <3>1. r \in Recs /\ (Settled(r) \/ r \in consumer[c].failures)
      BY DEF Inv, BatchSound, Progress, DeadLetter
    <3> QED BY <2>1, <2>5, <3>1, RecordStays DEF Inv
  <2> QED BY <2>1, <2>2, <2>4, <2>5 DEF Promises, BatchSound, Progress, Inv
<1>2. CASE Fails(c, "dlt")
  BY <1>2, FailedPromises
<1> QED BY <1>1, <1>2 DEF DeadLetter

LEMMA PollPromises ==
  ASSUME Inv, Step, NEW c \in Consumers, Poll(c)
  PROVE  Promises(c)'
<1>1. PICK upto \in [Parts -> 0..MaxLog] :
        LET batch == {tn \in Parts \X (1..MaxLog) : tn[2] > position[tn[1]] /\ tn[2] <= upto[tn[1]]}
        IN  /\ \A t \in Parts : IF owner[t] = c THEN upto[t] \in position[t]..Len(log[t])
                                               ELSE upto[t] = position[t]
            /\ consumer' = [consumer EXCEPT ![c] =
                 [@ EXCEPT !.pc = "store", !.batch = batch, !.failures = Unparsable(batch)]]
  BY DEF Poll
<1> DEFINE batch == {tn \in Parts \X (1..MaxLog) : tn[2] > position[tn[1]] /\ tn[2] <= upto[tn[1]]}
<1>2. /\ consumer'[c].pc = "store" /\ consumer'[c].batch = batch
      /\ consumer'[c].failures = Unparsable(batch)
  BY <1>1 DEF Inv, TypeOK, ConsumerStates
<1>3. \A t \in Parts : upto[t] \in Nat /\ position[t] \in Nat /\ Len(log[t]) \in Nat /\ MaxLog \in Nat
  BY LogGrows, ConsumerAssumption DEF Inv, TypeOK
<1>4. \A tn \in batch : /\ tn[1] \in Parts /\ tn[2] \in Nat \ {0} /\ owner[tn[1]] = c
                        /\ tn[2] <= Len(log[tn[1]]) /\ tn \in Recs
  BY <1>1, <1>3 DEF Recs
<1>5. consumer'[c].batch \subseteq Recs' /\ Unparsable(consumer[c].batch)' = Unparsable(batch)
  <2>1. \A tn \in batch : tn \in Recs' /\ At(tn)' = At(tn)
    BY <1>4, RecordStays DEF Inv
  <2> HIDE DEF batch
  <2> QED BY <1>2, <2>1 DEF Unparsable
<1>6. consumer[c].batch = {}
  BY DEF Inv, BatchSound, Poll
<1>7. ASSUME NEW tn \in batch, NEW n \in 1..tn[2]
      PROVE  <<tn[1], n>> \in batch \/ Settled(<<tn[1], n>>)'
  <2>1. tn[1] \in Parts /\ n \in Nat \ {0} /\ n <= tn[2] /\ tn[2] <= MaxLog /\ tn[2] <= upto[tn[1]]
    BY <1>3, <1>4
  <2>2. CASE n > position[tn[1]]
    BY <1>3, <2>1, <2>2
  <2>3. CASE n <= position[tn[1]]
    <3>1. Settled(<<tn[1], n>>)
      <4>1. n \in 1..position[tn[1]]
        BY <1>3, <2>1, <2>3
      <4> QED BY <1>4, <1>6, <4>1, ConsumerAssumption DEF Inv, PolledCovered
    <3>2. <<tn[1], n>> \in Recs
      <4>1. n <= Len(log[tn[1]]) /\ Len(log[tn[1]]) \in Nat /\ tn[2] \in Nat
        BY <1>3, <1>4, <2>1
      <4> QED BY <2>1, <4>1 DEF Recs
    <3> QED BY <3>1, <3>2, RecordStays DEF Inv
  <2> QED BY <1>3, <2>1, <2>2, <2>3
<1>8. Gapless(c)'
  BY <1>2, <1>7 DEF Gapless
<1>9. ASSUME NEW tn \in batch
      PROVE  \E top \in batch : top[1] = tn[1] /\ \A r \in batch : r[1] = tn[1] => r[2] <= top[2]
  <2>1. <<tn[1], upto[tn[1]]>> \in batch
    BY <1>3, <1>4
  <2> QED BY <2>1
<1>10. Topped(c)'
  BY <1>2, <1>9 DEF Topped
<1> HIDE DEF batch
<1> QED BY <1>2, <1>5, <1>8, <1>10 DEF Promises, BatchSound, Progress

LEMMA RestPromises ==
  ASSUME Inv, Step, NEW c \in Consumers,
         Succeed(c) \/ CommitBatch(c) \/ Retry(c) \/ Crash(c) \/ Start(c)
  PROVE  Promises(c)'
<1>1. CASE Succeed(c)
  <2>1. /\ consumer'[c].pc = "commit" /\ consumer[c].pc = "dead"
        /\ consumer'[c].batch = consumer[c].batch
        /\ consumer'[c].failures = {} /\ consumer[c].failures = {}
    BY <1>1 DEF Succeed, Inv, TypeOK, ConsumerStates
  <2>2. consumer'[c].batch \subseteq Recs' /\ Gapless(c)' /\ Topped(c)'
    BY <2>1, BatchKept DEF Inv
  <2>3. \A tn \in consumer[c].batch : tn \in Recs /\ Settled(tn)
    BY <2>1 DEF Inv, BatchSound, Progress
  <2> QED BY <2>1, <2>2, <2>3, RecordStays DEF Promises, BatchSound, Progress, Inv
<1>2. CASE Retry(c)
  <2>1. /\ consumer'[c].pc = "store" /\ consumer'[c].batch = consumer[c].batch
        /\ consumer'[c].failures = Unparsable(consumer[c].batch)
    BY <1>2 DEF Retry, Inv, TypeOK, ConsumerStates
  <2>2. consumer'[c].batch \subseteq Recs' /\ Gapless(c)' /\ Topped(c)'
        /\ Unparsable(consumer[c].batch)' = Unparsable(consumer[c].batch)
    BY <2>1, BatchKept DEF Inv
  <2> QED BY <2>1, <2>2 DEF Promises, BatchSound, Progress
<1>3. CASE CommitBatch(c)
  <2>1. consumer'[c].pc = "poll" /\ consumer'[c].batch = {} /\ consumer'[c].failures = {}
    BY <1>3 DEF CommitBatch, Inv, TypeOK, ConsumerStates, Progress
  <2> QED BY <2>1 DEF Promises, BatchSound, Progress, Gapless, Topped
<1>4. CASE Crash(c) \/ Start(c)
  <2>1. consumer'[c].pc \in {"down", "poll"} /\ consumer'[c].batch = {} /\ consumer'[c].failures = {}
    BY <1>4 DEF Crash, Start, Fresh, Inv, TypeOK
  <2> QED BY <2>1 DEF Promises, BatchSound, Progress, Gapless, Topped
<1> QED BY <1>1, <1>2, <1>3, <1>4

----------------------------------------------------------------------------
(* One consumer acts at a time. *)
LEMMA OneActs ==
  ASSUME TypeOK, Step
  PROVE  \/ UNCHANGED <<consumer, owner, position>>
         \/ \E c \in Consumers, t \in Parts : Assign(t, c)
         \/ \E c \in Consumers :
              /\ \/ Poll(c) \/ Store(c) \/ DeadLetter(c) \/ Succeed(c) \/ CommitBatch(c)
                 \/ Retry(c) \/ Crash(c) \/ Start(c)
              /\ \A q \in Consumers : q # c => consumer'[q] = consumer[q]
<1>1. ASSUME NEW c \in Consumers, Poll(c) \/ Store(c) \/ DeadLetter(c) \/ Succeed(c) \/ CommitBatch(c)
                                 \/ Retry(c) \/ Crash(c) \/ Start(c)
      PROVE  \A q \in Consumers : q # c => consumer'[q] = consumer[q]
  <2>1. \E next : consumer' = [consumer EXCEPT ![c] = next]
    BY <1>1 DEF Poll, Store, DeadLetter, Succeed, CommitBatch, Retry, Crash, Start, Fails
  <2> QED BY <2>1 DEF TypeOK
<1> QED BY <1>1 DEF Step, Publication, ConsumerNext, ListenerStep

LEMMA PromisesKept ==
  ASSUME Inv, Step, NEW q \in Consumers
  PROVE  Promises(q)'
<1>1. ASSUME consumer'[q] = consumer[q] PROVE Promises(q)'
  BY <1>1, ConsumerUntouched DEF Inv, Promises
<1>2. CASE \E c \in Consumers, t \in Parts : Assign(t, c)
  BY <1>1, <1>2 DEF Assign
<1>3. ASSUME NEW c \in Consumers,
             Poll(c) \/ Store(c) \/ DeadLetter(c) \/ Succeed(c) \/ CommitBatch(c)
               \/ Retry(c) \/ Crash(c) \/ Start(c),
             \A p \in Consumers : p # c => consumer'[p] = consumer[p]
      PROVE  Promises(q)'
  <2>1. CASE q = c
    BY <1>3, <2>1, PollPromises, StorePromises, DeadLetterPromises, RestPromises
  <2> QED BY <1>1, <1>3, <2>1
<1> QED BY <1>1, <1>2, <1>3, OneActs DEF Inv

(* The offset a commit writes is that of the last record of the batch in   *)
(* the partition.                                                          *)
LEMMA CommitsTheTop ==
  ASSUME Inv, NEW c \in Consumers, NEW t \in Parts
  PROVE  CommitTo(consumer[c].batch, t) = committed[t] \/ <<t, CommitTo(consumer[c].batch, t)>> \in consumer[c].batch
<1> DEFINE batch == consumer[c].batch
           mine == OffsetsOf(batch, t)
<1>1. \A n : n \in mine <=> <<t, n>> \in batch
  <2>1. \A tn \in batch : tn = <<tn[1], tn[2]>>
    BY DEF Inv, BatchSound, Recs
  <2> HIDE DEF batch
  <2> QED BY <2>1 DEF OffsetsOf
<1>2. CASE mine = {}
  BY <1>2 DEF CommitTo
<1>3. CASE mine # {}
  <2>1. PICK n \in mine : TRUE
    BY <1>3
  <2>0. <<t, n>> \in consumer[c].batch
    BY <1>1, <2>1
  <2>2. PICK top \in consumer[c].batch :
           top[1] = t /\ \A r \in consumer[c].batch : r[1] = t => r[2] <= top[2]
    BY <2>0 DEF Inv, Topped
  <2>3. top = <<t, top[2]>>
    BY <2>2 DEF Inv, BatchSound, Recs
  <2>4. top[2] \in mine /\ \A m \in mine : m <= top[2]
    <3>1. \A m \in mine : <<t, m>> \in consumer[c].batch
      BY <1>1
    <3> HIDE DEF mine
    <3> QED BY <1>1, <2>2, <2>3, <3>1
  <2>5. (CHOOSE k \in mine : \A m \in mine : m <= k) \in mine
    <3> HIDE DEF mine
    <3> QED BY <2>4
  <2>6. CommitTo(batch, t) \in mine
    BY <1>3, <2>5 DEF CommitTo
  <2> QED BY <1>1, <2>6
<1> QED BY <1>2, <1>3

(* What a commit covers is settled, whoever commits. *)
LEMMA CommitSettled ==
  ASSUME Inv, NEW c \in Consumers, consumer[c].pc = "commit", NEW t \in Parts
  PROVE  /\ CommitTo(consumer[c].batch, t) \in 0..Len(log[t])
         /\ \A n \in 1..CommitTo(consumer[c].batch, t) : Settled(<<t, n>>)
<1>0. log[t] \in Seq([id : Events, full : BOOLEAN]) /\ Len(log[t]) \in Nat
  BY LenProperties DEF Inv, TypeOK
<1>1. CASE CommitTo(consumer[c].batch, t) = committed[t]
  BY <1>0, <1>1 DEF Inv, TypeOK, CommittedSettled
<1>2. CASE <<t, CommitTo(consumer[c].batch, t)>> \in consumer[c].batch
  <2> DEFINE k == CommitTo(consumer[c].batch, t)
  <2>1. k \in Nat \ {0} /\ k <= Len(log[t])
    BY <1>2 DEF Inv, BatchSound, Recs
  <2>2. \A n \in 1..k : <<t, n>> \in consumer[c].batch \/ Settled(<<t, n>>)
    BY <1>2 DEF Inv, Gapless
  <2>3. \A tn \in consumer[c].batch : Settled(tn)
    BY DEF Inv, Progress
  <2> QED BY <1>0, <2>1, <2>2, <2>3
<1> QED BY <1>1, <1>2, CommitsTheTop

LEMMA CommittedStep ==
  ASSUME Inv, Step
  PROVE  /\ committed' \in [Parts -> Nat]
         /\ \A t \in Parts : committed'[t] <= Len(log[t])
         /\ \A t \in Parts : \A n \in 1..committed'[t] : Settled(<<t, n>>)
<1>0. \A t \in Parts : Len(log[t]) \in Nat
  BY LogGrows DEF Inv
<1>1. CASE UNCHANGED committed
  BY <1>1 DEF Inv, TypeOK, CommittedSettled
<1>2. ASSUME NEW c \in Consumers, consumer[c].pc = "commit",
             committed' = [t \in Parts |-> CommitTo(consumer[c].batch, t)]
      PROVE  /\ committed' \in [Parts -> Nat]
             /\ \A t \in Parts : committed'[t] <= Len(log[t])
             /\ \A t \in Parts : \A n \in 1..committed'[t] : Settled(<<t, n>>)
  BY <1>0, <1>2, CommitSettled
<1>3. \/ UNCHANGED committed
      \/ \E c \in Consumers : /\ consumer[c].pc = "commit"
                             /\ committed' = [t \in Parts |-> CommitTo(consumer[c].batch, t)]
  BY DEF Step, Publication, ConsumerNext, ListenerStep, Poll, Store, DeadLetter, Succeed,
         CommitBatch, Retry, Crash, Start, Assign
<1> QED BY <1>1, <1>2, <1>3

LEMMA CommittedStays ==
  ASSUME Inv, Step
  PROVE  CommittedSettled'
<1> SUFFICES ASSUME NEW t \in Parts, NEW n \in 1..committed'[t]
             PROVE  Settled(<<t, n>>)'
  BY DEF CommittedSettled
<1>1. <<t, n>> \in Recs
  <2>1. committed'[t] \in Nat /\ committed'[t] <= Len(log[t]) /\ Len(log[t]) \in Nat
    BY CommittedStep, LogGrows DEF Inv
  <2> QED BY <2>1 DEF Recs
<1> QED BY <1>1, CommittedStep, RecordStays DEF Inv

----------------------------------------------------------------------------
(* Who owns a partition is running, and what it has polled is settled or   *)
(* in its batch.                                                           *)
LEMMA OwnershipStep ==
  ASSUME Inv, Step, NEW t \in Parts, owner'[t] # None
  PROVE  /\ consumer'[owner'[t]].pc \notin {"down", "stopped"}
         /\ \A n \in 1..position'[t] : Settled(<<t, n>>)' \/ <<t, n>> \in consumer'[owner'[t]].batch
<1>1. /\ position[t] \in Nat /\ position[t] <= Len(log[t]) /\ Len(log[t]) \in Nat
      /\ owner[t] \in Consumers \cup {None}
  BY LogGrows DEF Inv, TypeOK
<1>2. ASSUME NEW n \in 1..position[t], Settled(<<t, n>>) PROVE Settled(<<t, n>>)'
  <2>1. <<t, n>> \in Recs
    BY <1>1 DEF Recs
  <2> QED BY <1>2, <2>1, RecordStays DEF Inv
<1>3. ASSUME owner[t] # None
      PROVE  /\ owner[t] \in Consumers /\ consumer[owner[t]].pc \notin {"down", "stopped"}
             /\ \A n \in 1..position[t] : Settled(<<t, n>>) \/ <<t, n>> \in consumer[owner[t]].batch
  BY <1>1, <1>3 DEF Inv, OwnersRun, Running, PolledCovered
<1>4. ASSUME owner'[t] = owner[t], position'[t] = position[t],
             consumer'[owner[t]].pc \notin {"down", "stopped"},
             consumer'[owner[t]].batch = consumer[owner[t]].batch
      PROVE  /\ consumer'[owner'[t]].pc \notin {"down", "stopped"}
             /\ \A n \in 1..position'[t] : Settled(<<t, n>>)' \/ <<t, n>> \in consumer'[owner'[t]].batch
  BY <1>2, <1>3, <1>4
<1>5. ASSUME owner'[t] = owner[t], position'[t] = position[t], consumer'[owner[t]] = consumer[owner[t]]
      PROVE  /\ consumer'[owner'[t]].pc \notin {"down", "stopped"}
             /\ \A n \in 1..position'[t] : Settled(<<t, n>>)' \/ <<t, n>> \in consumer'[owner'[t]].batch
  BY <1>3, <1>4, <1>5
<1>6. CASE UNCHANGED <<consumer, owner, position>>
  BY <1>5, <1>6
<1>7. ASSUME NEW c \in Consumers, NEW s \in Parts, Assign(s, c)
      PROVE  /\ consumer'[owner'[t]].pc \notin {"down", "stopped"}
             /\ \A n \in 1..position'[t] : Settled(<<t, n>>)' \/ <<t, n>> \in consumer'[owner'[t]].batch
  <2>1. CASE s = t
    <3>1. /\ owner'[t] = c /\ position'[t] = committed[t] /\ consumer' = consumer
          /\ consumer[c].pc \in {"poll", "wait"}
      BY <1>7, <2>1 DEF Assign, StartPosition, Inv, TypeOK
    <3>2. \A n \in 1..committed[t] : Settled(<<t, n>>)'
      <4> TAKE n \in 1..committed[t]
      <4>1. <<t, n>> \in Recs /\ Settled(<<t, n>>)
        BY <1>1 DEF Inv, TypeOK, Recs, CommittedSettled
      <4> QED BY <4>1, RecordStays DEF Inv
    <3> QED BY <3>1, <3>2
  <2>2. CASE s # t
    <3>1. owner'[t] = owner[t] /\ position'[t] = position[t] /\ consumer' = consumer
      BY <1>7, <2>2 DEF Assign, Inv, TypeOK
    <3> QED BY <1>5, <3>1
  <2> QED BY <2>1, <2>2
<1>8. ASSUME NEW c \in Consumers, \A q \in Consumers : q # c => consumer'[q] = consumer[q],
             Poll(c) \/ Store(c) \/ DeadLetter(c) \/ Succeed(c) \/ CommitBatch(c)
               \/ Retry(c) \/ Crash(c) \/ Start(c)
      PROVE  /\ consumer'[owner'[t]].pc \notin {"down", "stopped"}
             /\ \A n \in 1..position'[t] : Settled(<<t, n>>)' \/ <<t, n>> \in consumer'[owner'[t]].batch
  <2>1. CASE Poll(c)
    <3>1. PICK upto \in [Parts -> 0..MaxLog] :
            LET batch == {tn \in Parts \X (1..MaxLog) : tn[2] > position[tn[1]] /\ tn[2] <= upto[tn[1]]}
            IN  /\ owner[t] # c => upto[t] = position[t]
                /\ position' = upto /\ owner' = owner
                /\ consumer' = [consumer EXCEPT ![c] =
                     [@ EXCEPT !.pc = "store", !.batch = batch, !.failures = Unparsable(batch)]]
      BY <2>1 DEF Poll
    <3>2. CASE owner[t] = c
      <4> DEFINE batch == {tn \in Parts \X (1..MaxLog) :
                             tn[2] > position[tn[1]] /\ tn[2] <= upto[tn[1]]}
      <4>1. consumer'[c].pc = "store" /\ consumer'[c].batch = batch
        BY <3>1 DEF Inv, TypeOK, ConsumerStates
      <4>2. consumer[c].batch = {}
        BY <2>1 DEF Inv, BatchSound, Poll
      <4>3. ASSUME NEW n \in 1..upto[t] PROVE Settled(<<t, n>>)' \/ <<t, n>> \in batch
        <5>1. upto[t] \in 0..MaxLog /\ MaxLog \in Nat
          BY ConsumerAssumption
        <5>2. CASE n > position[t]
          BY <5>1, <5>2
        <5>3. CASE n <= position[t]
          <6>1. n \in 1..position[t] /\ owner[t] # None
            BY <1>1, <5>1, <5>3, <3>2, ConsumerAssumption
          <6> HIDE DEF batch
          <6> QED BY <1>2, <1>3, <3>2, <4>2, <6>1
        <5> QED BY <1>1, <5>1, <5>2, <5>3
      <4> HIDE DEF batch
      <4> QED BY <3>1, <3>2, <4>1, <4>3
    <3>3. CASE owner[t] # c
      <4>1. owner[t] \in Consumers /\ owner'[t] = owner[t] /\ position'[t] = position[t]
        BY <1>1, <3>1, <3>3
      <4> QED BY <1>5, <1>8, <3>3, <4>1
    <3> QED BY <3>2, <3>3
  <2>2. CASE Store(c) \/ DeadLetter(c) \/ Succeed(c) \/ Retry(c)
    <3>1. position' = position
      BY <2>2 DEF Store, DeadLetter, Succeed, Retry
    <3> DEFINE holds == /\ owner' = owner /\ consumer'[c].pc \notin {"down", "stopped"}
                        /\ consumer'[c].batch = consumer[c].batch
    <3>2. CASE holds
      BY <1>1, <1>4, <1>5, <1>8, <3>1, <3>2
    <3>3. CASE owner' = Freed(c)
      <4>1. owner'[t] = owner[t] /\ owner[t] # c /\ owner[t] \in Consumers
        BY <1>1, <3>3 DEF Freed
      <4> QED BY <1>5, <1>8, <3>1, <4>1
    <3>4. ASSUME NEW kind \in {"transient", "permanent", "dlt"}, Fails(c, kind)
          PROVE  holds \/ owner' = Freed(c)
      BY <3>4, FailsState DEF Inv
    <3>5. \A kind \in {"transient", "permanent"} : Fails(c, kind) => holds \/ owner' = Freed(c)
      BY <3>4
    <3>6. consumer \in [Consumers -> ConsumerStates]
      BY DEF Inv, TypeOK
    <3>7. ASSUME Store(c) PROVE holds \/ owner' = Freed(c)
      <4>1. \/ owner' = owner /\ consumer' = [consumer EXCEPT ![c].pc = "dead"]
            \/ \E kind \in {"transient", "permanent"} : Fails(c, kind)
        BY <3>7 DEF Store
      <4>2. ASSUME owner' = owner, consumer' = [consumer EXCEPT ![c].pc = "dead"] PROVE holds
        BY <3>6, <4>2 DEF ConsumerStates
      <4> HIDE DEF holds
      <4> QED BY <3>5, <4>1, <4>2
    <3>8. ASSUME DeadLetter(c) PROVE holds \/ owner' = Freed(c)
      <4>1. \/ owner' = owner /\ \E tn : consumer' = [consumer EXCEPT ![c].failures = @ \ {tn}]
            \/ Fails(c, "dlt")
        BY <3>8 DEF DeadLetter
      <4>2. ASSUME NEW tn, owner' = owner, consumer' = [consumer EXCEPT ![c].failures = @ \ {tn}]
            PROVE  holds
        BY <3>6, <3>8, <4>2 DEF ConsumerStates, DeadLetter
      <4>3. Fails(c, "dlt") => holds \/ owner' = Freed(c)
        BY <3>4
      <4> HIDE DEF holds
      <4> QED BY <4>1, <4>2, <4>3
    <3>9. ASSUME Succeed(c) PROVE holds \/ owner' = Freed(c)
      BY <3>6, <3>9 DEF Succeed, ConsumerStates
    <3>10. ASSUME Retry(c) PROVE holds \/ owner' = Freed(c)
      BY <3>6, <3>10 DEF Retry, ConsumerStates
    <3> QED BY <2>2, <3>2, <3>3, <3>7, <3>8, <3>9, <3>10
  <2>3. CASE CommitBatch(c)
    <3>1. position' = position /\ owner' = owner /\ consumer'[c].pc = "poll"
      BY <2>3 DEF CommitBatch, Inv, TypeOK, ConsumerStates
    <3>2. CASE owner[t] = c
      <4>1. \A tn \in consumer[c].batch : tn \in Recs /\ Settled(tn)
        BY <2>3 DEF CommitBatch, Inv, BatchSound, Progress
      <4>2. \A n \in 1..position[t] : Settled(<<t, n>>)
        BY <1>3, <3>2, <4>1, ConsumerAssumption
      <4> QED BY <1>2, <3>1, <3>2, <4>2
    <3>3. CASE owner[t] # c
      BY <1>1, <1>5, <1>8, <3>1, <3>3
    <3> QED BY <3>2, <3>3
  <2>4. CASE Crash(c)
    <3>1. owner' = Freed(c) /\ position' = position
      BY <2>4 DEF Crash
    <3>2. owner'[t] = owner[t] /\ owner[t] # c /\ owner[t] \in Consumers
      BY <1>1, <3>1 DEF Freed
    <3> QED BY <1>5, <1>8, <3>1, <3>2
  <2>5. CASE Start(c)
    <3>1. owner' = owner /\ position' = position /\ ~Running(c)
      BY <2>5 DEF Start
    <3>2. owner[t] \in Consumers /\ owner[t] # c
      BY <1>1, <1>3, <3>1 DEF Running
    <3> QED BY <1>5, <1>8, <3>1, <3>2
  <2> QED BY <1>8, <2>1, <2>2, <2>3, <2>4, <2>5
<1> QED BY <1>6, <1>7, <1>8, OneActs DEF Inv
----------------------------------------------------------------------------
(* Types. *)
LEMMA ConsumerTyped ==
  ASSUME Inv, Step
  PROVE  consumer' \in [Consumers -> ConsumerStates] /\ owner' \in [Parts -> Consumers \cup {None}] /\ faults' \in Nat
<1>0. /\ consumer \in [Consumers -> ConsumerStates] /\ owner \in [Parts -> Consumers \cup {None}]
      /\ faults \in Nat
  BY DEF Inv, TypeOK
<1> DEFINE Typed == /\ consumer' \in [Consumers -> ConsumerStates]
                    /\ owner' \in [Parts -> Consumers \cup {None}] /\ faults' \in Nat
<1>1. CASE UNCHANGED <<consumer, owner, faults>>
  BY <1>0, <1>1
<1>2. \A c : Freed(c) \in [Parts -> Consumers \cup {None}]
  BY <1>0 DEF Freed
<1>3. ASSUME NEW c \in Consumers, NEW kind \in {"transient", "permanent", "dlt"}, Fails(c, kind)
      PROVE  Typed
  BY <1>0, <1>2, <1>3, FailsState DEF Inv
<1>4. ASSUME NEW c \in Consumers, NEW next \in ConsumerStates, consumer' = [consumer EXCEPT ![c] = next]
      PROVE  consumer' \in [Consumers -> ConsumerStates]
  BY <1>0, <1>4
<1>5. \A at \in {"down", "poll"} : Fresh(at) \in ConsumerStates
  BY DEF Fresh, ConsumerStates
<1>6. \A kind : Fault(kind) => faults' \in Nat
  BY <1>0 DEF Fault
<1>7. ASSUME NEW c \in Consumers, NEW t \in Parts, Assign(t, c) PROVE Typed
  BY <1>0, <1>6, <1>7 DEF Assign
<1>8. ASSUME NEW c \in Consumers, Poll(c) PROVE Typed
  <2>1. PICK upto \in [Parts -> 0..MaxLog] :
          consumer' = [consumer EXCEPT ![c] =
            [@ EXCEPT !.pc = "store",
                      !.batch = {tn \in Parts \X (1..MaxLog) : tn[2] > position[tn[1]] /\ tn[2] <= upto[tn[1]]},
                      !.failures = Unparsable({tn \in Parts \X (1..MaxLog) :
                                                 tn[2] > position[tn[1]] /\ tn[2] <= upto[tn[1]]})]]
    BY <1>8 DEF Poll
  <2> DEFINE batch == {tn \in Parts \X (1..MaxLog) : tn[2] > position[tn[1]] /\ tn[2] <= upto[tn[1]]}
             next == [consumer[c] EXCEPT !.pc = "store", !.batch = batch, !.failures = Unparsable(batch)]
  <2>2. batch \subseteq Parts \X (Nat \ {0})
    BY ConsumerAssumption
  <2>3. Unparsable(batch) \subseteq batch
    BY DEF Unparsable
  <2>4. consumer' = [consumer EXCEPT ![c] = next]
    BY <2>1
  <2>5. next \in ConsumerStates
    <3> HIDE DEF batch
    <3>1. consumer[c] \in ConsumerStates
      BY <1>0
    <3> QED BY <2>2, <2>3, <3>1 DEF ConsumerStates
  <2>6. owner' = owner /\ faults' = faults
    BY <1>8 DEF Poll
  <2> HIDE DEF next
  <2> QED BY <1>0, <1>4, <2>4, <2>5, <2>6
<1>9. ASSUME NEW c \in Consumers, Store(c) PROVE Typed
  <2>1. \/ /\ consumer' = [consumer EXCEPT ![c].pc = "dead"]
           /\ owner' = owner /\ faults' = faults
        \/ \E kind \in {"transient", "permanent"} : Fails(c, kind)
    BY <1>9 DEF Store
  <2>2. ASSUME consumer' = [consumer EXCEPT ![c].pc = "dead"], owner' = owner, faults' = faults
        PROVE  Typed
    BY <1>0, <2>2 DEF ConsumerStates
  <2> HIDE DEF Typed
  <2> QED BY <1>3, <2>1, <2>2
<1>10. ASSUME NEW c \in Consumers, DeadLetter(c) PROVE Typed
  <2>1. \/ /\ \E tn : consumer' = [consumer EXCEPT ![c].failures = @ \ {tn}]
           /\ owner' = owner /\ faults' = faults
        \/ Fails(c, "dlt")
    BY <1>10 DEF DeadLetter
  <2>2. ASSUME NEW tn, consumer' = [consumer EXCEPT ![c].failures = @ \ {tn}], owner' = owner, faults' = faults
        PROVE  Typed
    <3> DEFINE next == [consumer[c] EXCEPT !.failures = @ \ {tn}]
    <3>1. consumer' = [consumer EXCEPT ![c] = next]
      BY <1>0, <2>2
    <3>2. next \in ConsumerStates
      <4>1. consumer[c] \in ConsumerStates
        BY <1>0
      <4> QED BY <4>1 DEF ConsumerStates
    <3> HIDE DEF next
    <3> QED BY <1>0, <1>4, <2>2, <3>1, <3>2
  <2> HIDE DEF Typed
  <2> QED BY <1>3, <2>1, <2>2
<1>11. ASSUME NEW c \in Consumers, Succeed(c) PROVE Typed
  <2> DEFINE next == [consumer[c] EXCEPT !.pc = "commit", !.error = "none", !.retrying = FALSE,
                                         !.permanent = FALSE]
  <2>1. consumer' = [consumer EXCEPT ![c] = next] /\ owner' = owner /\ faults' = faults
    BY <1>11 DEF Succeed
  <2>2. next \in ConsumerStates
    BY <1>0 DEF ConsumerStates
  <2> HIDE DEF next
  <2> QED BY <1>0, <1>4, <2>1, <2>2
<1>12. ASSUME NEW c \in Consumers, CommitBatch(c) PROVE Typed
  <2>1. faults' \in Nat /\ owner' = owner
    BY <1>0, <1>12, <1>6 DEF CommitBatch
  <2> DEFINE next == [consumer[c] EXCEPT !.pc = "poll", !.batch = {}]
  <2>2. consumer' = [consumer EXCEPT ![c] = next]
    BY <1>12 DEF CommitBatch
  <2>3. next \in ConsumerStates
    BY <1>0 DEF ConsumerStates
  <2> HIDE DEF next
  <2> QED BY <1>0, <1>4, <2>1, <2>2, <2>3
<1>13. ASSUME NEW c \in Consumers, Retry(c) PROVE Typed
  <2> DEFINE next == [consumer[c] EXCEPT !.pc = "store", !.failures = Unparsable(consumer[c].batch)]
  <2>1. consumer' = [consumer EXCEPT ![c] = next] /\ owner' = owner /\ faults' = faults
    BY <1>13 DEF Retry
  <2>2. next \in ConsumerStates
    <3>1. consumer[c] \in ConsumerStates
      BY <1>0
    <3>2. Unparsable(consumer[c].batch) \subseteq consumer[c].batch
      BY DEF Unparsable
    <3> QED BY <3>1, <3>2 DEF ConsumerStates
  <2> HIDE DEF next
  <2> QED BY <1>0, <1>4, <2>1, <2>2
<1>14. ASSUME NEW c \in Consumers, Crash(c) PROVE Typed
  BY <1>0, <1>2, <1>4, <1>5, <1>6, <1>14 DEF Crash
<1>15. ASSUME NEW c \in Consumers, Start(c) PROVE Typed
  BY <1>0, <1>4, <1>5, <1>15 DEF Start
<1> HIDE DEF Typed
<1>16. ASSUME Publication PROVE Typed
  BY <1>0, <1>16 DEF Publication, Typed
<1>17. ASSUME NEW c \in Consumers,
              \/ Poll(c) \/ ListenerStep(c) \/ Crash(c) \/ Start(c)
              \/ \E t \in Parts : Assign(t, c)
       PROVE  Typed
  BY <1>7, <1>8, <1>9, <1>10, <1>11, <1>12, <1>13, <1>14, <1>15, <1>17 DEF ListenerStep
<1>18. ConsumerNext => Typed
  BY <1>17 DEF ConsumerNext
<1>19. Typed
  BY <1>16, <1>18 DEF Step
<1> QED BY <1>19 DEF Typed

LEMMA TypeStep ==
  ASSUME Inv, Step
  PROVE  TypeOK'
<1>1. log' \in [Parts -> Seq([id : Events, full : BOOLEAN])]
  <2>1. UNCHANGED log \/ \E e, full : log' = [log EXCEPT ![PartOf[e]] = Append(@, [id |-> e, full |-> full])]
    BY DEF Step, Publication, Published, ConsumerNext, ListenerStep, Poll, Store, DeadLetter, Succeed,
           CommitBatch, Retry, Crash, Start, Assign
  <2>2. \E f : log' = [t \in Parts |-> f[t]]
    <3>1. log = [t \in Parts |-> log[t]]
      BY DEF Inv, TypeOK
    <3>2. log' = [t \in Parts |-> log'[t]]
      BY <2>1, <3>1 DEF Inv, TypeOK
    <3> QED BY <3>2
  <2>3. \A t \in Parts : log'[t] \in Seq([id : Events, full : BOOLEAN])
    BY LogGrows DEF Inv
  <2> QED BY <2>2, <2>3
<1>2. rows' \in [Events -> Nat]
  BY RowsGrow DEF Inv
<1>3. \A t \in Parts : Len(log[t]) \in Nat /\ Len(log'[t]) \in Nat /\ Len(log[t]) <= Len(log'[t])
  BY LogGrows DEF Inv
<1>4. \A tn \in dlt' : tn \in dlt \/ tn \in Recs
  <2>1. dlt' = dlt \/ \E c \in Consumers : \E tn \in consumer[c].failures : dlt' \in {dlt, dlt \cup {tn}}
    BY DEF Step, Publication, ConsumerNext, ListenerStep, Poll, Store, DeadLetter, Succeed,
           CommitBatch, Retry, Crash, Start, Assign
  <2>2. \A c \in Consumers : consumer[c].failures \subseteq Recs
    BY DEF Inv, BatchSound, Unparsable
  <2> QED BY <2>1, <2>2
<1>5. \A tn \in dlt' : tn[1] \in Parts /\ tn[2] \in 1..Len(log'[tn[1]])
  <2> TAKE tn \in dlt'
  <2>1. tn[1] \in Parts /\ tn[2] \in 1..Len(log[tn[1]])
    BY <1>3, <1>4 DEF Inv, TypeOK, Recs
  <2> QED BY <1>3, <2>1
<1>6. committed' \in [Parts -> Nat] /\ \A t \in Parts : committed'[t] <= Len(log'[t])
  BY <1>3, CommittedStep
<1>7. position' \in [Parts -> Nat] /\ \A t \in Parts : position'[t] <= Len(log[t])
  <2>1. CASE UNCHANGED position
    BY <2>1 DEF Inv, TypeOK
  <2>2. ASSUME NEW c \in Consumers, NEW s \in Parts, Assign(s, c)
        PROVE  position' \in [Parts -> Nat] /\ \A t \in Parts : position'[t] <= Len(log[t])
    BY <2>2 DEF Assign, StartPosition, Inv, TypeOK
  <2>3. ASSUME NEW c \in Consumers, Poll(c)
        PROVE  position' \in [Parts -> Nat] /\ \A t \in Parts : position'[t] <= Len(log[t])
    <3>1. /\ position' \in [Parts -> 0..MaxLog]
          /\ \A t \in Parts : \/ position'[t] \in position[t]..Len(log[t])
                             \/ position'[t] = position[t]
      BY <2>3 DEF Poll
    <3>2. \A t \in Parts : position'[t] <= Len(log[t])
      BY <1>3, <3>1 DEF Inv, TypeOK
    <3> QED BY <3>1, <3>2, ConsumerAssumption
  <2>4. \/ UNCHANGED position \/ \E c \in Consumers, s \in Parts : Assign(s, c)
        \/ \E c \in Consumers : Poll(c)
    BY DEF Step, Publication, ConsumerNext, ListenerStep, Store, DeadLetter, Succeed,
           CommitBatch, Retry, Crash, Start
  <2> QED BY <2>1, <2>2, <2>3, <2>4
<1>8. \A t \in Parts : position'[t] \in Nat /\ position'[t] <= Len(log'[t])
  BY <1>3, <1>7
<1> QED BY <1>1, <1>2, <1>5, <1>6, <1>7, <1>8, ConsumerTyped DEF TypeOK

----------------------------------------------------------------------------
LEMMA InvInitially == Init => Inv
<1> SUFFICES ASSUME Init PROVE Inv
  OBVIOUS
<1>1. \A t \in Parts : Len(log[t]) = 0 /\ log[t] \in Seq([id : Events, full : BOOLEAN])
  BY DEF Init
<1>2. Fresh("down") \in ConsumerStates
  BY DEF Fresh, ConsumerStates
<1>3. TypeOK
  BY <1>1, <1>2 DEF Init, TypeOK
<1>4. \A c \in Consumers : /\ consumer[c].pc = "down" /\ consumer[c].batch = {}
                           /\ consumer[c].failures = {}
  BY DEF Init, Fresh
<1>5. \A c \in Consumers : BatchSound(c) /\ Gapless(c) /\ Topped(c) /\ Progress(c)
  BY <1>4 DEF BatchSound, Gapless, Topped, Progress
<1>6. RowsOnce /\ OwnersRun /\ PolledCovered /\ CommittedSettled
  BY DEF Init, RowsOnce, OwnersRun, PolledCovered, CommittedSettled
<1> QED BY <1>3, <1>5, <1>6 DEF Inv

LEMMA InvKept == Inv /\ Step => Inv'
<1> SUFFICES ASSUME Inv, Step PROVE Inv'
  OBVIOUS
<1>1. TypeOK' /\ CommittedSettled'
  BY TypeStep, CommittedStays
<1>2. RowsOnce'
  BY RowsGrow DEF Inv, RowsOnce
<1>3. OwnersRun' /\ PolledCovered'
  BY OwnershipStep DEF OwnersRun, Running, PolledCovered
<1>4. \A c \in Consumers : (BatchSound(c) /\ Gapless(c) /\ Topped(c) /\ Progress(c))'
  BY PromisesKept DEF Promises
<1> QED BY <1>1, <1>2, <1>3, <1>4 DEF Inv

(* A row is that of an event whose body some partition holds. *)
RowsPublished == \A e \in Events : rows[e] = 1 => \E tn \in Recs : At(tn) = [id |-> e, full |-> TRUE]

LEMMA RowsPublishedKept ==
  ASSUME Inv, RowsPublished, Step
  PROVE  RowsPublished'
<1> SUFFICES ASSUME NEW e \in Events, rows'[e] = 1
             PROVE  \E tn \in Recs' : At(tn)' = [id |-> e, full |-> TRUE]
  BY DEF RowsPublished
<1>1. ASSUME NEW tn \in Recs, At(tn) = [id |-> e, full |-> TRUE]
      PROVE  \E r \in Recs' : At(r)' = [id |-> e, full |-> TRUE]
  <2>1. tn \in Recs' /\ At(tn)' = At(tn)
    BY RecordStays DEF Inv
  <2> QED BY <1>1, <2>1
<1>2. CASE rows[e] = 1
  BY <1>1, <1>2 DEF RowsPublished
<1>3. CASE rows[e] # 1
  <2>1. PICK c \in Consumers : Store(c)
    BY <1>3 DEF Step, Publication, ConsumerNext, ListenerStep, Poll, DeadLetter, Succeed,
                CommitBatch, Retry, Crash, Start, Assign
  <2> DEFINE good == consumer[c].batch \ Unparsable(consumer[c].batch)
  <2>2. \E S \in SUBSET good : rows' = Inserted(S)
    BY <2>1 DEF Store
  <2>3. PICK S \in SUBSET good : rows' = Inserted(S)
    BY <2>2
  <2>4. PICK tn \in S : At(tn).id = e
    BY <1>3, <2>3 DEF Inserted
  <2>5. tn \in Recs /\ At(tn).full
    BY DEF Unparsable, Inv, BatchSound
  <2>6. At(tn) \in [id : Events, full : BOOLEAN]
    <3>1. log[tn[1]] \in Seq([id : Events, full : BOOLEAN]) /\ tn[2] \in Nat \ {0} /\ tn[2] <= Len(log[tn[1]])
      BY <2>5 DEF Recs, Inv, TypeOK
    <3>2. Len(log[tn[1]]) \in Nat
      BY <3>1, LenProperties
    <3>3. tn[2] \in 1..Len(log[tn[1]])
      BY <3>1, <3>2
    <3> QED BY <3>1, <3>3, ElementOfSeq DEF At
  <2>7. At(tn) = [id |-> e, full |-> TRUE]
    BY <2>4, <2>5, <2>6
  <2> QED BY <1>1, <2>5, <2>7
<1> QED BY <1>2, <1>3

LEMMA InvInductive == Inv /\ [Next]_vars => Inv'
BY InvKept, NextIsStep DEF Inv

THEOREM InvCorrect == Spec => []Inv
BY InvInitially, InvInductive, PTL DEF Spec

(* Every variable of the consumer group keeps its type. *)
THEOREM TypeCorrect == Spec => []TypeOK
<1>1. Inv => TypeOK
  BY DEF Inv
<1> QED BY <1>1, InvCorrect, PTL

(* Whoever processed a batch, however often it was retried, lost or        *)
(* overtaken by a new owner: what is committed is in PostgreSQL once, or   *)
(* in the dead-letter topic.                                               *)
THEOREM CommittedSettledHolds == Spec => []CommittedSettled
<1>1. Inv => CommittedSettled
  BY DEF Inv
<1> QED BY <1>1, InvCorrect, PTL
(* A container that stopped says so, unless it was a dead-letter send that *)
(* stopped it, and none that runs reports a permanent error.               *)
THEOREM StopIsReportedHolds == Spec => []StopIsReported
<1> DEFINE Good(s) == /\ s.pc = "stopped" => s.permanent \/ s.error = "dlt"
                      /\ s.permanent => s.pc = "stopped"
<1>1. Init => StopIsReported
  BY DEF Init, Fresh, StopIsReported
<1>2. TypeOK /\ StopIsReported /\ [Next]_vars => StopIsReported'
  <2> SUFFICES ASSUME TypeOK, StopIsReported, [Next]_vars, NEW q \in Consumers
               PROVE  Good(consumer'[q])
    BY DEF StopIsReported
  <2>0. Good(consumer[q]) /\ consumer[q] \in ConsumerStates
    BY DEF StopIsReported, TypeOK
  <2>1. ASSUME consumer'[q] = consumer[q] PROVE Good(consumer'[q])
    BY <2>0, <2>1
  <2>2. ASSUME NEW kind \in {"transient", "permanent", "dlt"}, Fails(q, kind), consumer[q].pc # "stopped"
        PROVE  Good(consumer'[q])
    <3>1. CASE consumer[q].retrying \/ kind = "transient"
      <4> DEFINE next == [consumer[q] EXCEPT !.pc = "wait", !.error = kind, !.retrying = TRUE]
      <4>1. consumer' = [consumer EXCEPT ![q] = next]
        BY <2>2, <3>1 DEF Fails
      <4>2. next.pc = "wait" /\ next.permanent = consumer[q].permanent
        BY <2>0 DEF ConsumerStates
      <4> HIDE DEF next
      <4>3. consumer'[q] = next
        BY <4>1 DEF TypeOK
      <4> QED BY <2>0, <2>2, <4>2, <4>3
    <3>2. CASE ~(consumer[q].retrying \/ kind = "transient")
      <4> DEFINE next == [consumer[q] EXCEPT !.pc = "stopped", !.error = kind,
                                             !.permanent = (kind = "permanent")]
      <4>1. consumer' = [consumer EXCEPT ![q] = next]
        BY <2>2, <3>2 DEF Fails
      <4>2. /\ next.pc = "stopped" /\ next.error = kind
            /\ next.permanent = (kind = "permanent")
        BY <2>0 DEF ConsumerStates
      <4> HIDE DEF next
      <4>3. consumer'[q] = next
        BY <4>1 DEF TypeOK
      <4> QED BY <3>2, <4>2, <4>3
    <3> QED BY <3>1, <3>2
  <2>3. ASSUME Poll(q) \/ Succeed(q) \/ CommitBatch(q) \/ Retry(q) \/ Crash(q) \/ Start(q)
        PROVE  Good(consumer'[q])
    <3>1. consumer'[q].pc # "stopped" /\ ~consumer'[q].permanent
      <4>1. CASE Poll(q)
        <5>1. consumer[q].pc = "poll" /\ \E b, f : consumer' = [consumer EXCEPT ![q] =
                                     [@ EXCEPT !.pc = "store", !.batch = b, !.failures = f]]
          BY <4>1 DEF Poll
        <5>2. consumer'[q].pc = "store" /\ consumer'[q].permanent = consumer[q].permanent
          BY <5>1 DEF TypeOK, ConsumerStates
        <5> QED BY <2>0, <5>1, <5>2
      <4>2. CASE Succeed(q)
        BY <2>0, <4>2 DEF Succeed, TypeOK, ConsumerStates
      <4>3. CASE CommitBatch(q)
        BY <2>0, <4>3 DEF CommitBatch, TypeOK, ConsumerStates
      <4>4. CASE Retry(q)
        BY <2>0, <4>4 DEF Retry, TypeOK, ConsumerStates
      <4>5. CASE Crash(q) \/ Start(q)
        BY <4>5 DEF Crash, Start, Fresh, TypeOK
      <4> QED BY <2>3, <4>1, <4>2, <4>3, <4>4, <4>5
    <3> QED BY <3>1
  <2>4. ASSUME Store(q) PROVE Good(consumer'[q])
    <3>1. CASE consumer' = [consumer EXCEPT ![q].pc = "dead"]
      <4>1. consumer'[q].pc = "dead" /\ consumer'[q].permanent = consumer[q].permanent
        BY <3>1 DEF TypeOK, ConsumerStates
      <4> QED BY <2>0, <2>4, <4>1 DEF Store
    <3>2. consumer[q].pc # "stopped"
      BY <2>4 DEF Store
    <3>3. \/ consumer' = [consumer EXCEPT ![q].pc = "dead"]
          \/ \E kind \in {"transient", "permanent"} : Fails(q, kind)
      BY <2>4 DEF Store
    <3> HIDE DEF Good
    <3> QED BY <2>2, <3>1, <3>2, <3>3
  <2>5. ASSUME DeadLetter(q) PROVE Good(consumer'[q])
    <3>1. ASSUME NEW tn, consumer' = [consumer EXCEPT ![q].failures = @ \ {tn}]
          PROVE  Good(consumer'[q])
      <4>1. consumer'[q].pc = consumer[q].pc /\ consumer'[q].permanent = consumer[q].permanent
            /\ consumer[q].pc = "dead"
        BY <2>5, <3>1 DEF TypeOK, ConsumerStates, DeadLetter
      <4> QED BY <2>0, <4>1
    <3>2. consumer[q].pc # "stopped"
      BY <2>5 DEF DeadLetter
    <3>3. \/ \E tn : consumer' = [consumer EXCEPT ![q].failures = @ \ {tn}]
          \/ Fails(q, "dlt")
      BY <2>5 DEF DeadLetter
    <3> HIDE DEF Good
    <3> QED BY <2>2, <3>1, <3>2, <3>3
  <2>6. UNCHANGED consumer => Good(consumer'[q])
    BY <2>1
  <2>7. (\E c \in Consumers, t \in Parts : Assign(t, c)) => Good(consumer'[q])
    BY <2>6 DEF Assign
  <2> HIDE DEF Good
  <2> QED BY <2>1, <2>3, <2>4, <2>5, <2>6, <2>7, OneActs, NextIsStep
<1> QED BY <1>1, <1>2, TypeCorrect, PTL DEF Spec

----------------------------------------------------------------------------
(* Each step of the group is a step of the sink, or none. *)
LEMMA SinkStep ==
  ASSUME Inv, [Next]_vars
  PROVE  [Sink!Next]_(Sink!sinkVars)
<1>0. Step
  BY NextIsStep DEF Inv
<1>1. ASSUME NEW e \in Events, NEW full \in BOOLEAN, Produce(e, full) PROVE Sink!Publish
  <2>1. PartOf[e] \in Parts /\ [id |-> e, full |-> full] \in Sink!Record
    BY ConsumerAssumption DEF Sink!Record
  <2>2. /\ log' = [log EXCEPT ![PartOf[e]] = Append(@, [id |-> e, full |-> full])]
        /\ UNCHANGED <<rows, dlt, committed>>
    BY <1>1 DEF Produce
  <2> QED BY <2>1, <2>2 DEF Sink!Publish
<1>2. ASSUME NEW S, \A tn \in S : tn \in Recs /\ At(tn).full, rows' = Inserted(S),
             UNCHANGED <<log, dlt, committed>>
      PROVE  Sink!Settle
  <2>1. DOMAIN rows' = Events
    BY <1>2 DEF Inserted
  <2>2. ASSUME NEW e \in Events, rows'[e] # rows[e]
        PROVE  /\ rows[e] = 0 /\ rows'[e] = 1
               /\ \E t \in Parts : \E n \in DOMAIN log[t] : log[t][n] = [id |-> e, full |-> TRUE]
    <3>1. rows[e] = 0 /\ rows'[e] = 1 /\ \E tn \in S : At(tn).id = e
      BY <1>2, <2>2 DEF Inserted
    <3>2. PICK tn \in S : At(tn).id = e
      BY <3>1
    <3>3. /\ tn[1] \in Parts /\ tn[2] \in Nat \ {0} /\ tn[2] <= Len(log[tn[1]])
          /\ log[tn[1]] \in Seq([id : Events, full : BOOLEAN])
      BY <1>2 DEF Recs, Inv, TypeOK
    <3>4. tn[2] \in DOMAIN log[tn[1]] /\ log[tn[1]][tn[2]] \in [id : Events, full : BOOLEAN]
      <4>1. DOMAIN log[tn[1]] = 1..Len(log[tn[1]]) /\ Len(log[tn[1]]) \in Nat
        BY <3>3, LenProperties
      <4>2. tn[2] \in 1..Len(log[tn[1]])
        BY <3>3, <4>1
      <4> QED BY <3>3, <4>1, <4>2, ElementOfSeq
    <3>5. log[tn[1]][tn[2]] = [id |-> e, full |-> TRUE]
      BY <1>2, <3>2, <3>4 DEF At
    <3> QED BY <3>1, <3>3, <3>4, <3>5
  <2> QED BY <1>2, <2>1, <2>2 DEF Sink!Settle
<1>3. ASSUME dlt \subseteq dlt', UNCHANGED <<log, rows, committed>>,
             \A tn \in dlt' \ dlt : tn \in Recs /\ ~At(tn).full
      PROVE  Sink!Settle
  <2>1. \A tn \in dlt' \ dlt : tn[1] \in Parts /\ tn[2] \in DOMAIN log[tn[1]] /\ ~At(tn).full
    <3> TAKE tn \in dlt' \ dlt
    <3>1. tn \in Recs /\ ~At(tn).full
      BY <1>3
    <3>2. /\ tn[1] \in Parts /\ tn[2] \in Nat \ {0} /\ tn[2] <= Len(log[tn[1]])
          /\ log[tn[1]] \in Seq([id : Events, full : BOOLEAN])
      BY <3>1 DEF Recs, Inv, TypeOK
    <3> QED BY <3>1, <3>2, LenProperties
  <2>2. DOMAIN rows' = Events
    BY <1>3 DEF Inv, TypeOK
  <2> QED BY <1>3, <2>1, <2>2 DEF Sink!Settle, Sink!At, At
<1>4. ASSUME NEW c \in Consumers, Store(c) PROVE Sink!Settle
  <2> DEFINE good == consumer[c].batch \ Unparsable(consumer[c].batch)
  <2>1. \E S \in SUBSET good : rows' = Inserted(S)
    BY <1>4 DEF Store
  <2>2. PICK S \in SUBSET good : rows' = Inserted(S)
    BY <2>1
  <2>3. \A tn \in S : tn \in Recs /\ At(tn).full
    BY <2>2 DEF Unparsable, Inv, BatchSound
  <2>4. UNCHANGED <<log, dlt, committed>>
    BY <1>4 DEF Store
  <2> QED BY <1>2, <2>2, <2>3, <2>4
<1>5. ASSUME NEW c \in Consumers, DeadLetter(c) PROVE Sink!Settle
  <2>1. PICK tn \in consumer[c].failures : dlt' \in {dlt, dlt \cup {tn}}
    BY <1>5 DEF DeadLetter
  <2>2. tn \in Recs /\ ~At(tn).full
    BY DEF Inv, BatchSound, Unparsable
  <2>3. UNCHANGED <<log, rows, committed>>
    BY <1>5 DEF DeadLetter
  <2>4. dlt \subseteq dlt' /\ \A r \in dlt' \ dlt : r \in Recs /\ ~At(r).full
    BY <2>1, <2>2
  <2> QED BY <1>3, <2>3, <2>4
<1>6. ASSUME NEW c \in Consumers, CommitBatch(c), committed' # committed PROVE Sink!Commit
  <2>1. UNCHANGED <<log, rows, dlt>>
    BY <1>6 DEF CommitBatch
  <2>2. \A t \in Parts : /\ committed'[t] \in Nat /\ Len(log[t]) \in Nat
                         /\ committed'[t] <= Len(log[t])
                         /\ \A n \in 1..committed'[t] : Settled(<<t, n>>)
    BY <1>0, CommittedStep, LogGrows DEF Inv
  <2>3. \A t \in Parts : /\ committed'[t] \in 0..Len(log[t])
                         /\ \A n \in 1..committed'[t] : Sink!Settled(<<t, n>>)
    BY <2>2 DEF Settled, At, Sink!Settled, Sink!At
  <2>4. DOMAIN committed' = Parts
    BY <1>0, CommittedStep
  <2> QED BY <2>1, <2>3, <2>4 DEF Sink!Commit
<1>7. ASSUME NEW c \in Consumers,
             Poll(c) \/ Succeed(c) \/ Retry(c) \/ Crash(c) \/ Start(c) \/ \E t \in Parts : Assign(t, c)
      PROVE  UNCHANGED Sink!sinkVars
  BY <1>7 DEF Poll, Succeed, Retry, Crash, Start, Assign, Sink!sinkVars
<1>8. ASSUME NEW c \in Consumers, CommitBatch(c), committed' = committed PROVE UNCHANGED Sink!sinkVars
  BY <1>8 DEF CommitBatch, Sink!sinkVars
<1>9. CASE UNCHANGED vars
  BY <1>9 DEF vars, Sink!sinkVars
<1>10. ASSUME ConsumerNext PROVE Sink!Settle \/ Sink!Commit \/ UNCHANGED Sink!sinkVars
  BY <1>4, <1>5, <1>6, <1>7, <1>8, <1>10 DEF ConsumerNext, ListenerStep
<1> QED BY <1>1, <1>9, <1>10 DEF Next, Sink!Next

(* The group, with its retries, crashes, rebalances and failing commits,   *)
(* does what AuditSink allows and nothing else.                            *)
THEOREM SinkImplemented == Spec => ImplementsSink
<1>1. Init => Sink!Init
  BY DEF Init, Sink!Init
<1>2. Inv /\ [Next]_vars => [Sink!Next]_(Sink!sinkVars)
  BY SinkStep
<1> QED BY <1>1, <1>2, InvCorrect, PTL DEF Spec, ImplementsSink, Sink!Spec
=============================================================================
