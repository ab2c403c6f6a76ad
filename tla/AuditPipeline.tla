---------------------------- MODULE AuditPipeline ----------------------------
(***************************************************************************)
(* The audit trail of one leaderboard end to end: the relays move stream   *)
(* entries to a partition of lb-audit-events, the consumers move its       *)
(* records to audit_events.  The relays are those of AuditRelay, which this *)
(* module extends; they and the consumers share only the partition, though *)
(* an application process may run one of each.                             *)
(***************************************************************************)
EXTENDS AuditRelay

CONSTANTS Part,                       \* the partition of the leaderboard
          Consumers, None, MaxPoll,
          MaxTopic                    \* bound: records of the partition

ASSUME PipelineAssumption ==
  /\ MaxPoll \in Nat \ {0} /\ MaxTopic \in Nat
  /\ None \notin Consumers

VARIABLES rows, dlt, committed, owner, position, consumer

relayVars == <<added, body, group, delivered, pel, stale, topic, wire, relay, raced, overflowed>>
consumerVars == <<rows, dlt, committed, owner, position, consumer>>
pipelineVars == <<relayVars, consumerVars, faults>>

(* An event is its stream entry: event_id is the entry's id. *)
Consumer ==
  INSTANCE AuditConsumer
    WITH Parts <- {Part}, Events <- 1..MaxEntries, PartOf <- [n \in 1..MaxEntries |-> Part],
         MaxLog <- MaxTopic, log <- [t \in {Part} |-> topic]

PipelineInit ==
  /\ Init
  /\ Consumer!Init

(* The partition is long enough for every copy the faults allow. *)
RelayNext == Len(topic) < MaxTopic /\ Next /\ UNCHANGED consumerVars
ConsumerNext == UNCHANGED relayVars /\ Consumer!ConsumerNext

PipelineNext == RelayNext \/ ConsumerNext

PipelineSpec == PipelineInit /\ [][PipelineNext]_pipelineVars

PipelineFairSpec == PipelineSpec /\ Fairness /\ Consumer!ConsumerFairness

----------------------------------------------------------------------------
(* A copy of the event is still before the consumers' committed offset. *)
Waiting(n) == \E i \in DOMAIN topic : i > committed[Part] /\ topic[i] = [id |-> n, full |-> TRUE]

(* From XADD to the audit_events row, an event is at every moment owed by  *)
(* the relays, waiting for the consumers, or stored; the only exceptions   *)
(* are entries cut from the stream before their time.  There is one row of *)
(* it however often the relays published it and the consumers read it, and *)
(* none before it was published.                                           *)
NoEventLostEndToEnd ==
  \A n \in 1..MaxEntries :
    /\ n <= added =>
         Owed(n) \/ Waiting(n) \/ rows[n] = 1 \/ n \in raced \cup overflowed
    /\ rows[n] = 0 \/ (rows[n] = 1 /\ Published(n))

(* Every event is stored in the end, unless it was cut from the stream or  *)
(* every consumer has stopped unnoticed.                                   *)
EveryEventStored ==
  \A n \in 1..MaxEntries :
    n <= added ~> rows[n] = 1 \/ n \in raced \cup overflowed \/ Consumer!StoppedUnnoticed
=============================================================================
