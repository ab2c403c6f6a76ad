------------------------------ MODULE AuditSink ------------------------------
(***************************************************************************)
(* What the audit topic's consumers promise together, whoever they are: a  *)
(* record of the topic is settled by one row of audit_events, or by a copy *)
(* in the dead-letter topic when it cannot be parsed, and an offset is     *)
(* committed only over settled records.                                    *)
(***************************************************************************)
EXTENDS Integers, Sequences

CONSTANTS Parts,     \* partitions of lb-audit-events
          Events     \* (leaderboard_id, event_id) pairs

VARIABLES
  log,         \* the records of each partition
  rows,        \* how many rows of audit_events an event has
  dlt,         \* records, as <<partition, offset>>, in the dead-letter topic
  committed    \* records of each partition the group is done with

sinkVars == <<log, rows, dlt, committed>>

(* "full" is false for a record that no number of attempts will parse. *)
Record == [id : Events, full : BOOLEAN]
At(tn) == log[tn[1]][tn[2]]

Settled(tn) == IF At(tn).full THEN rows[At(tn).id] = 1 ELSE tn \in dlt

Init ==
  /\ log = [t \in Parts |-> << >>]
  /\ rows = [e \in Events |-> 0]
  /\ dlt = {}
  /\ committed = [t \in Parts |-> 0]

Publish ==
  /\ \E t \in Parts, r \in Record : log' = [log EXCEPT ![t] = Append(@, r)]
  /\ UNCHANGED <<rows, dlt, committed>>

(* Some records of the log are settled, for good. *)
Settle ==
  /\ \A e \in Events :
       \/ rows'[e] = rows[e]
       \/ /\ rows[e] = 0 /\ rows'[e] = 1
          /\ \E t \in Parts : \E n \in DOMAIN log[t] : log[t][n] = [id |-> e, full |-> TRUE]
  /\ DOMAIN rows' = Events
  /\ dlt \subseteq dlt'
  /\ \A tn \in dlt' \ dlt :
       /\ tn[1] \in Parts /\ tn[2] \in DOMAIN log[tn[1]]
       /\ ~At(tn).full
  /\ UNCHANGED <<log, committed>>

(* Offsets are committed, perhaps backwards, but never over a record that  *)
(* is not settled.                                                         *)
Commit ==
  /\ \A t \in Parts :
       /\ committed'[t] \in 0..Len(log[t])
       /\ \A n \in 1..committed'[t] : Settled(<<t, n>>)
  /\ DOMAIN committed' = Parts
  /\ UNCHANGED <<log, rows, dlt>>

Next == Publish \/ Settle \/ Commit

Spec == Init /\ [][Next]_sinkVars
=============================================================================
