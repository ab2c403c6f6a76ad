------------------------- MODULE AuditPipelineProofs -------------------------
(***************************************************************************)
(* Proofs about AuditRelay and about AuditPipeline, which extends it, for  *)
(* any set of processes, any batch size and any bounds.  The first part is *)
(* about the relays alone: types, that no event is lost except by a cut,   *)
(* and with one relay up at a time only by MAXLEN; and what becomes of the *)
(* order.  The second composes the invariant of the relays and that of the *)
(* consumers into the end-to-end property.                                 *)
(***************************************************************************)
EXTENDS AuditPipeline, FiniteSetTheorems, SequenceTheorems, TLAPS

PCs == {"down", "idle", "own", "claim", "new", "send", "xinfo", "xtrim"}
Wired == [rec : Records, own : BOOLEAN]

(* FirstOf picks members of its set, and no later member before an earlier *)
(* one.                                                                    *)
LEMMA FirstOfSubset ==
  ASSUME NEW S, NEW k, NEW x \in FirstOf(S, k)
  PROVE  x \in S
BY DEF FirstOf

LEMMA FirstOfClosed ==
  ASSUME NEW m \in Nat, NEW S \in SUBSET (1..m), NEW k \in Int,
         NEW x \in FirstOf(S, k), NEW y \in S, y <= x
  PROVE  y \in FirstOf(S, k)
<1> DEFINE Before(z) == {n \in S : n < z}
<1>1. IsFiniteSet(S)
  <2>1. IsFiniteSet(1..m)
    BY FS_Interval
  <2> QED BY <2>1, FS_Subset
<1>2. Before(x) \in SUBSET S /\ IsFiniteSet(Before(x))
  BY <1>1, FS_Subset
<1>3. Before(y) \in SUBSET Before(x)
  <2>0. x \in S
    BY FirstOfSubset
  <2>1. x \in Int /\ y \in Int /\ \A n \in S : n \in Int
    BY <2>0
  <2>2. ASSUME NEW n \in S, n < y PROVE n < x
    BY <2>1, <2>2
  <2> QED BY <2>2
<1>4. Cardinality(Before(y)) <= Cardinality(Before(x))
  BY <1>2, <1>3, FS_Subset
<1>5. Cardinality(Before(x)) \in Nat /\ Cardinality(Before(y)) \in Nat
  BY <1>2, <1>3, FS_Subset, FS_CardinalityType
<1>6. Cardinality(Before(x)) < k
  BY DEF FirstOf
<1>7. Cardinality(Before(y)) < k
  BY <1>4, <1>5, <1>6
<1> QED BY <1>7 DEF FirstOf

LEMMA FirstOfCount ==
  ASSUME NEW m \in Nat, NEW S \in SUBSET (1..m), NEW k
  PROVE  Cardinality(FirstOf(S, k)) \in Nat
<1>1. IsFiniteSet(1..m)
  BY FS_Interval
<1>2. FirstOf(S, k) \in SUBSET (1..m)
  BY FirstOfSubset
<1>3. IsFiniteSet(FirstOf(S, k))
  BY <1>1, <1>2, FS_Subset
<1> QED BY <1>3, FS_CardinalityType

----------------------------------------------------------------------------
(* Type correctness. *)
LEMMA RestingType ==
  ASSUME NEW c \in Nat, NEW at \in PCs
  PROVE  Resting(c, at) \in RelayStates
BY DEF Resting, RelayStates, PCs

LEMMA RestType ==
  ASSUME TypeOK, NEW p \in Procs
  PROVE  Rest(p) \in RelayStates /\ relay[p] \in RelayStates
<1>1. relay[p] \in RelayStates
  BY DEF TypeOK
<1>2. relay[p].cursor \in Nat
  BY <1>1 DEF RelayStates
<1> QED BY <1>1, <1>2, RestingType DEF Rest, PCs

LEMMA PublishingType ==
  ASSUME NEW ids \in SUBSET (Nat \ {0}), NEW next \in {"idle", "claim", "new"},
         NEW room \in Int, NEW cursor \in Nat
  PROVE  Publishing(ids, next, room, cursor) \in RelayStates
<1> DEFINE records == {Rec(n, n \in body) : n \in ids}
<1>1. ASSUME NEW n \in ids PROVE Rec(n, n \in body) \in Records
  BY DEF Rec, Records
<1>2. records \in SUBSET Records
  BY <1>1
<1> QED BY <1>2 DEF Publishing, RelayStates

LEMMA RelayFields ==
  ASSUME TypeOK, NEW p \in Procs
  PROVE  /\ relay[p].pc \in PCs /\ relay[p].next \in {"idle", "claim", "new"}
         /\ relay[p].batch \in SUBSET Records /\ relay[p].unsent \in SUBSET Records
         /\ relay[p].good \in SUBSET (Nat \ {0})
         /\ relay[p].room \in Int /\ relay[p].mark \in Nat /\ relay[p].cursor \in Nat
<1>1. relay[p] \in RelayStates
  BY DEF TypeOK
<1> QED BY <1>1 DEF RelayStates, PCs

LEMMA RelayUpdate ==
  ASSUME TypeOK, NEW p \in Procs, NEW state \in RelayStates,
         relay' = [relay EXCEPT ![p] = state]
  PROVE  relay' \in [Procs -> RelayStates]
BY DEF TypeOK

LEMMA FaultType ==
  ASSUME TypeOK, NEW kind, Fault(kind)
  PROVE  faults' \in Nat
<1>1. faults \in Nat /\ faults' = faults + 1
  BY DEF TypeOK, Fault
<1> QED BY <1>1

LEMMA RepliedType ==
  ASSUME TypeOK, NEW p \in Procs, NEW state \in RelayStates, Replied(p, state)
  PROVE  relay' \in [Procs -> RelayStates] /\ faults' \in Nat
<1>1. Rest(p) \in RelayStates /\ relay \in [Procs -> RelayStates] /\ faults \in Nat
  BY RestType DEF TypeOK
<1> QED BY <1>1 DEF Replied, Fault

LEMMA PendingType ==
  ASSUME TypeOK
  PROVE  Pending \subseteq 1..delivered
BY DEF TypeOK, Pending

LEMMA PendingNumbers ==
  ASSUME TypeOK, NEW n \in Pending
  PROVE  n \in Nat /\ n # 0 /\ n <= delivered
<1>1. PICK q \in Procs : n \in pel[q]
  BY DEF Pending
<1>2. pel[q] \subseteq 1..delivered /\ delivered \in Nat
  BY DEF TypeOK
<1>3. n \in 1..delivered
  BY <1>1, <1>2
<1> QED BY <1>2, <1>3

LEMMA TypeInductive == TypeOK /\ [Next]_vars => TypeOK'
<1> SUFFICES ASSUME TypeOK, [Next]_vars PROVE TypeOK'
  OBVIOUS
<1> USE RelayAssumption
<1>1. CASE Add
  <2>1. added \in Nat /\ added' = added + 1
    BY <1>1 DEF Add, TypeOK
  <2>2. 1..added \subseteq 1..added' /\ 0..added \subseteq 0..added' /\ added' \in Nat
    BY <2>1
  <2>3. /\ body' \subseteq body \cup {added'} /\ overflowed' \subseteq overflowed \cup body
        /\ UNCHANGED <<group, delivered, pel, stale, topic, wire, relay, faults, raced>>
    BY <1>1, <2>1 DEF Add
  <2>4. body \subseteq 1..added /\ overflowed \subseteq 1..added /\ raced \subseteq 1..added
    BY DEF TypeOK
  <2>5. body' \subseteq 1..added' /\ overflowed' \subseteq 1..added' /\ raced' \subseteq 1..added'
    BY <2>1, <2>2, <2>3, <2>4
  <2> QED BY <2>2, <2>3, <2>5 DEF TypeOK
<1>2. ASSUME NEW p \in Procs, Tick(p) PROVE TypeOK'
  <2>1. [relay[p] EXCEPT !.pc = "own"] \in RelayStates
    BY RestType DEF RelayStates
  <2>2. relay' \in [Procs -> RelayStates]
    BY <1>2, <2>1, RestType DEF Tick, TypeOK
  <2>3. group' \in BOOLEAN /\ faults' \in Nat
    BY <1>2, FaultType DEF Tick, TypeOK
  <2> QED BY <1>2, <2>2, <2>3 DEF Tick, TypeOK
<1>3. ASSUME NEW p \in Procs, ReadOwn(p) PROVE TypeOK'
  <2> DEFINE ids == FirstOf(pel[p], BatchSize)
             room == BatchSize - Cardinality(ids)
             next == IF room > 0 THEN "claim" ELSE "new"
             state == IF ids = {}
                      THEN [relay[p] EXCEPT !.pc = "claim", !.room = BatchSize]
                      ELSE Publishing(ids, next, room, relay[p].cursor)
  <2>1. pel[p] \in SUBSET (1..delivered) /\ delivered \in Nat
    BY DEF TypeOK
  <2>2. ids \subseteq 1..delivered /\ room \in Int
    <3>1. ids \subseteq 1..delivered
      BY <2>1, FirstOfSubset
    <3>2. Cardinality(ids) \in Nat
      BY <2>1, FirstOfCount
    <3> HIDE DEF ids
    <3> QED BY <3>1, <3>2
  <2>3. Publishing(ids, next, room, relay[p].cursor) \in RelayStates
    <3>0. relay[p] \in RelayStates
      BY RestType
    <3>1. relay[p].cursor \in Nat /\ next \in {"idle", "claim", "new"}
      BY <3>0 DEF RelayStates
    <3>2. ids \in SUBSET (Nat \ {0})
      BY <2>1, <2>2
    <3> QED BY <2>2, <3>1, <3>2, PublishingType
  <2>4. [relay[p] EXCEPT !.pc = "claim", !.room = BatchSize] \in RelayStates
    <3>1. relay[p] \in RelayStates /\ BatchSize \in Int
      BY RestType
    <3> QED BY <3>1 DEF RelayStates
  <2>5. state \in RelayStates /\ Replied(p, state) /\ stale' = stale \ ids
    BY <1>3, <2>3, <2>4 DEF ReadOwn
  <2>6. relay' \in [Procs -> RelayStates] /\ faults' \in Nat
    BY <2>5, RepliedType
  <2> HIDE DEF ids, state
  <2> QED BY <1>3, <2>5, <2>6 DEF ReadOwn, TypeOK
<1>4. ASSUME NEW p \in Procs, Claim(p) PROVE TypeOK'
  <2> DEFINE ahead == {n \in Pending : n >= relay[p].cursor}
             visit == FirstOf({n \in ahead : n \notin body \/ n \in stale}, relay[p].room)
             moved == visit \cap body
             state(c) == IF moved = {}
                         THEN Resting(c, "new")
                         ELSE Publishing(moved, "new", 0, c)
  <2>1. PICK c \in NextCursor(p, ahead, visit) : Replied(p, state(c))
    BY <1>4 DEF Claim
  <2>2. visit \subseteq Pending /\ Pending \subseteq 1..delivered /\ delivered \in Nat
    <3>1. \A n \in visit : n \in Pending
      BY FirstOfSubset
    <3>2. delivered \in Nat
      BY DEF TypeOK
    <3>3. Pending \subseteq 1..delivered
      BY PendingType
    <3> QED BY <3>1, <3>2, <3>3
  <2>3. c \in Nat
    <3>1. ASSUME NEW S \in SUBSET ahead, NEW n \in FirstOf(S, 1) PROVE n \in Nat
      <4>1. n \in S
        BY FirstOfSubset
      <4>2. n \in Pending
        BY <4>1
      <4> QED BY <4>2, PendingNumbers
    <3>2. {n \in ahead : \A m \in visit : m < n} \in SUBSET ahead
      OBVIOUS
    <3>3. c \in {0} \/ c \in FirstOf({n \in ahead : \A m \in visit : m < n}, 1)
      <4> HIDE DEF ahead, visit
      <4> QED BY <2>1 DEF NextCursor
    <3> HIDE DEF ahead, visit
    <3> QED BY <3>1, <3>2, <3>3
  <2>4. Publishing(moved, "new", 0, c) \in RelayStates
    <3>1. ASSUME NEW n \in moved PROVE n \in Nat \ {0}
      <4>1. n \in Pending
        BY <2>2
      <4> QED BY <4>1, PendingNumbers
    <3> HIDE DEF ahead, visit, moved, state
    <3>2. moved \in SUBSET (Nat \ {0})
      BY <3>1
    <3> QED BY <2>3, <3>2, PublishingType
  <2>5. Resting(c, "new") \in RelayStates
    BY <2>3, RestingType DEF PCs
  <2>6. relay' \in [Procs -> RelayStates] /\ faults' \in Nat
    BY <2>1, <2>4, <2>5, RepliedType
  <2>7. pel' = Claimed(p, visit) /\ stale' = stale \ visit
    BY <1>4 DEF Claim
  <2> HIDE DEF visit, state
  <2>8. pel' \in [Procs -> SUBSET (1..delivered)]
    BY <2>2, <2>7 DEF Claimed, TypeOK
  <2> QED BY <1>4, <2>6, <2>7, <2>8 DEF Claim, TypeOK
<1>5. ASSUME NEW p \in Procs, ReadNew(p) PROVE TypeOK'
  <2> DEFINE fresh == {n \in body : n > delivered}
             ids == FirstOf(fresh, BatchSize)
  <2>0. ids \subseteq fresh /\ body \subseteq 1..added /\ added \in Nat /\ delivered \in 0..added
    <3>1. \A n \in ids : n \in fresh
      BY FirstOfSubset
    <3> HIDE DEF ids, fresh
    <3> QED BY <3>1 DEF TypeOK
  <2>00. relay[p].cursor \in Nat
    BY RelayFields
  <2>1. CASE relay' = [relay EXCEPT ![p] = Rest(p)] /\ UNCHANGED <<delivered, pel, faults>>
    BY <1>5, <2>1, RestType DEF ReadNew, TypeOK
  <2>2. CASE \E last \in ids :
              /\ \A n \in ids : n <= last
              /\ delivered' = last
              /\ pel' = [pel EXCEPT ![p] = @ \cup ids]
              /\ Replied(p, Publishing(ids, "new", 0, relay[p].cursor))
    <3>1. PICK last \in ids :
              /\ \A n \in ids : n <= last
              /\ delivered' = last
              /\ pel' = [pel EXCEPT ![p] = @ \cup ids]
              /\ Replied(p, Publishing(ids, "new", 0, relay[p].cursor))
      BY <2>2
    <3>2. Publishing(ids, "new", 0, relay[p].cursor) \in RelayStates
      <4>1. \A n \in fresh : n \in Nat \ {0}
        BY <2>0
      <4> HIDE DEF fresh
      <4>2. ids \in SUBSET (Nat \ {0})
        BY <2>0, <4>1
      <4> HIDE DEF ids
      <4> QED BY <2>00, <4>2, PublishingType
    <3>3. relay' \in [Procs -> RelayStates] /\ faults' \in Nat
      BY <3>1, <3>2, RepliedType
    <3>4. last \in Nat /\ last > delivered /\ last <= added
      <4>1. last \in fresh
        BY <2>0
      <4> HIDE DEF ids
      <4> QED BY <2>0, <4>1
    <3> HIDE DEF ids
    <3>5. 1..delivered \subseteq 1..last /\ ids \subseteq 1..last /\ last \in 0..added
      BY <2>0, <3>1, <3>4
    <3>6. pel \in [Procs -> SUBSET (1..delivered)] /\ stale \subseteq 1..delivered
      BY DEF TypeOK
    <3>7. pel' \in [Procs -> SUBSET (1..last)] /\ stale \subseteq 1..last
      BY <3>1, <3>5, <3>6
    <3>8. UNCHANGED <<added, body, group, stale, topic, wire, raced, overflowed>>
      BY <1>5 DEF ReadNew
    <3> QED BY <2>0, <3>1, <3>3, <3>5, <3>7, <3>8 DEF TypeOK
  <2> QED BY <1>5, <2>1, <2>2 DEF ReadNew
<1>6. ASSUME NEW p \in Procs, Send(p) PROVE TypeOK'
  <2>1. PICK r \in relay[p].unsent :
          /\ wire' = [wire EXCEPT ![p] = Append(@, [rec |-> r, own |-> TRUE])]
          /\ relay' = [relay EXCEPT ![p].unsent = @ \ {r}]
    BY <1>6 DEF Send
  <2>2. r \in Records /\ [rec |-> r, own |-> TRUE] \in Wired
    BY RestType DEF RelayStates, Wired
  <2>3. Append(wire[p], [rec |-> r, own |-> TRUE]) \in Seq(Wired)
    BY <2>2, AppendProperties DEF TypeOK, Wired
  <2>4. wire' \in [Procs -> Seq(Wired)]
    BY <2>1, <2>3 DEF TypeOK, Wired
  <2>5. relay' \in [Procs -> RelayStates]
    <3>1. [relay[p] EXCEPT !.unsent = @ \ {r}] \in RelayStates
      BY RestType DEF RelayStates
    <3> QED BY <2>1, <3>1, RelayUpdate
  <2> QED BY <1>6, <2>4, <2>5 DEF Send, TypeOK, Wired, stream
<1>7. ASSUME NEW p \in Procs, SendThrows(p) PROVE TypeOK'
  <2> DEFINE orphans == [i \in DOMAIN wire[p] |-> [wire[p][i] EXCEPT !.own = FALSE]]
  <2>1. wire[p] \in Seq(Wired)
    BY DEF TypeOK, Wired
  <2>2. DOMAIN wire[p] = 1..Len(wire[p]) /\ Len(wire[p]) \in Nat
    BY <2>1, LenProperties
  <2>3. ASSUME NEW i \in 1..Len(wire[p]) PROVE [wire[p][i] EXCEPT !.own = FALSE] \in Wired
    <3>1. wire[p][i] \in Wired
      BY <2>1, ElementOfSeq
    <3> QED BY <3>1 DEF Wired
  <2>4. orphans \in Seq(Wired)
    BY <2>2, <2>3, IsASeq
  <2>5. wire' = [wire EXCEPT ![p] = orphans]
    BY <1>7 DEF SendThrows
  <2> HIDE DEF orphans
  <2>6. wire' \in [Procs -> Seq(Wired)]
    BY <2>4, <2>5 DEF TypeOK, Wired
  <2>7. relay' \in [Procs -> RelayStates] /\ faults' \in Nat
    BY <1>7, RestType, RelayUpdate, FaultType DEF SendThrows
  <2> QED BY <1>7, <2>6, <2>7 DEF SendThrows, TypeOK, Wired, stream
<1>8. ASSUME NEW p \in Procs, Land(p) PROVE TypeOK'
  <2> DEFINE sent == Head(wire[p])
  <2>1. wire[p] \in Seq(Wired) /\ wire[p] # << >>
    BY <1>8 DEF Land, TypeOK, Wired
  <2>2. sent \in Wired /\ Tail(wire[p]) \in Seq(Wired)
    BY <2>1, HeadTailProperties
  <2>3. sent.rec \in Records /\ sent.rec.id \in Nat \ {0}
    BY <2>2 DEF Wired, Records
  <2>4. topic' \in Seq(Records)
    BY <1>8, <2>3, AppendProperties DEF Land, TypeOK
  <2>5. wire' \in [Procs -> Seq(Wired)]
    BY <1>8, <2>2 DEF Land, TypeOK, Wired
  <2>6. [relay EXCEPT ![p].good = @ \cup {sent.rec.id}] \in [Procs -> RelayStates]
    <3> HIDE DEF sent
    <3>1. [relay[p] EXCEPT !.good = @ \cup {sent.rec.id}] \in RelayStates
      BY <2>3, RestType DEF RelayStates
    <3> QED BY <3>1 DEF TypeOK
  <2>7. relay' \in [Procs -> RelayStates] /\ faults' \in Nat
    <3>1. relay \in [Procs -> RelayStates] /\ faults \in Nat
      BY DEF TypeOK
    <3> QED BY <1>8, <2>6, <3>1, FaultType DEF Land
  <2> QED BY <1>8, <2>4, <2>5, <2>7 DEF Land, TypeOK, Wired, stream
<1>9. ASSUME NEW p \in Procs, Drop(p) PROVE TypeOK'
  <2>1. wire[p] \in Seq(Wired) /\ wire[p] # << >>
    BY <1>9 DEF Drop, TypeOK, Wired
  <2>2. Tail(wire[p]) \in Seq(Wired)
    BY <2>1, HeadTailProperties
  <2>3. wire' \in [Procs -> Seq(Wired)]
    BY <1>9, <2>2 DEF Drop, TypeOK, Wired
  <2>4. faults' \in Nat
    BY <1>9, FaultType DEF Drop
  <2> QED BY <1>9, <2>3, <2>4 DEF Drop, TypeOK, Wired, stream
<1>10. ASSUME NEW p \in Procs, Ack(p) PROVE TypeOK'
  <2> DEFINE state == [Resting(relay[p].cursor, relay[p].next) EXCEPT !.room = relay[p].room]
  <2>1. state \in RelayStates
    <3>1. Resting(relay[p].cursor, relay[p].next) \in RelayStates /\ relay[p].room \in Int
      BY RelayFields, RestingType DEF PCs
    <3> QED BY <3>1 DEF RelayStates
  <2>2. Replied(p, state)
    BY <1>10 DEF Ack
  <2>3. relay' \in [Procs -> RelayStates] /\ faults' \in Nat
    BY <2>1, <2>2, RepliedType
  <2>4. pel' \in [Procs -> SUBSET (1..delivered)]
    BY <1>10 DEF Ack, TypeOK
  <2> QED BY <1>10, <2>3, <2>4 DEF Ack, TypeOK
<1>11. ASSUME NEW p \in Procs, RedisFails(p) PROVE TypeOK'
  <2>1. relay' \in [Procs -> RelayStates]
    BY <1>11, RestType, RelayUpdate DEF RedisFails
  <2>2. faults' \in Nat
    BY <1>11, FaultType DEF RedisFails, TypeOK
  <2> QED BY <1>11, <2>1, <2>2 DEF RedisFails, TypeOK, stream
<1>12. ASSUME NEW p \in Procs, TrimPending(p) PROVE TypeOK'
  <2>1. relay' \in [Procs -> RelayStates]
    <3>1. [relay[p] EXCEPT !.pc = "xinfo"] \in RelayStates
      BY RestType DEF RelayStates
    <3>2. ASSUME NEW n \in Pending
          PROVE  [relay[p] EXCEPT !.pc = "xtrim", !.mark = n] \in RelayStates
      <4>1. n \in Nat
        BY PendingNumbers
      <4> QED BY <4>1, RestType DEF RelayStates
    <3> QED BY <1>12, <3>1, <3>2, RelayUpdate DEF TrimPending
  <2> QED BY <1>12, <2>1 DEF TrimPending, TypeOK, stream
<1>13. ASSUME NEW p \in Procs, TrimInfo(p) PROVE TypeOK'
  <2>1. relay' \in [Procs -> RelayStates]
    <3>1. delivered \in Nat
      BY DEF TypeOK
    <3>2. [relay[p] EXCEPT !.pc = "xtrim", !.mark = delivered] \in RelayStates
      BY <3>1, RestType DEF RelayStates
    <3> QED BY <1>13, <3>2, RelayUpdate DEF TrimInfo
  <2> QED BY <1>13, <2>1 DEF TrimInfo, TypeOK, stream
<1>14. ASSUME NEW p \in Procs, Trim(p) PROVE TypeOK'
  <2>1. relay' \in [Procs -> RelayStates] /\ faults' \in Nat
    BY <1>14, RestType, RepliedType DEF Trim
  <2> QED BY <1>14, <2>1 DEF Trim, Cut, TypeOK
<1>15. ASSUME NEW p \in Procs, Crash(p) PROVE TypeOK'
  <2>1. Resting(0, "down") \in RelayStates
    BY RestingType DEF PCs
  <2>2. relay' \in [Procs -> RelayStates] /\ faults' \in Nat
    BY <1>15, <2>1, RelayUpdate, FaultType DEF Crash
  <2> QED BY <1>15, <2>2, EmptySeq DEF Crash, TypeOK, stream
<1>16. ASSUME NEW p \in Procs, Start(p) PROVE TypeOK'
  <2>1. [relay[p] EXCEPT !.pc = "idle"] \in RelayStates
    BY RestType DEF RelayStates
  <2>2. relay' \in [Procs -> RelayStates]
    BY <1>16, <2>1, RelayUpdate DEF Start
  <2> QED BY <1>16, <2>2 DEF Start, TypeOK, stream
<1>17. ASSUME NEW n \in Pending, Age(n) PROVE TypeOK'
  BY <1>17, PendingType DEF Age, TypeOK
<1>18. CASE UNCHANGED vars
  BY <1>18 DEF vars, TypeOK
<1> QED BY <1>1, <1>2, <1>3, <1>4, <1>5, <1>6, <1>7, <1>8, <1>9, <1>10, <1>11,
           <1>12, <1>13, <1>14, <1>15, <1>16, <1>17, <1>18
        DEF Next, RelayStep, TrimStep

LEMMA TypeInitially == Init => TypeOK
<1>1. Resting(0, "down") \in RelayStates
  BY RestingType DEF PCs
<1>2. << >> \in Seq(Records) /\ << >> \in Seq([rec : Records, own : BOOLEAN])
  BY EmptySeq
<1>3. {} \in SUBSET (1..0) /\ 0 \in 0..0
  OBVIOUS
<1> SUFFICES ASSUME Init PROVE TypeOK
  OBVIOUS
<1>4. added = 0 /\ body = {} /\ group = FALSE /\ delivered = 0 /\ stale = {}
      /\ topic = << >> /\ faults = 0 /\ raced = {} /\ overflowed = {}
  BY DEF Init
<1>5. pel \in [Procs -> SUBSET (1..delivered)]
  BY <1>3, <1>4 DEF Init
<1>6. wire \in [Procs -> Seq([rec : Records, own : BOOLEAN])]
  BY <1>2 DEF Init
<1>7. relay \in [Procs -> RelayStates]
  BY <1>1 DEF Init
<1>8. 0 \in Nat
  OBVIOUS
<1> QED BY <1>2, <1>3, <1>4, <1>5, <1>6, <1>7, <1>8 DEF TypeOK

(* The state keeps its shape, whatever the processes and faults do. *)
THEOREM TypeCorrect == Spec => []TypeOK
BY TypeInitially, TypeInductive, PTL DEF Spec
----------------------------------------------------------------------------
(* The safety properties.  How each action changes what they are about:    *)
LEMMA PendingOwned ==
  ASSUME NEW n
  PROVE  n \in Pending <=> \E p \in Procs : n \in pel[p]
BY DEF Pending

LEMMA PublishedGrows ==
  ASSUME TypeOK, NEW r \in Records, topic' = Append(topic, r), NEW n
  PROVE  /\ Published(n) => Published(n)'
         /\ r = Rec(n, TRUE) => Published(n)'
<1>1. topic \in Seq(Records)
  BY DEF TypeOK
<1>2. /\ Len(topic) \in Nat /\ Len(topic') = Len(topic) + 1
      /\ DOMAIN topic = 1..Len(topic) /\ DOMAIN topic' = 1..(Len(topic) + 1)
      /\ \A i \in 1..Len(topic) : topic'[i] = topic[i]
      /\ topic'[Len(topic) + 1] = r
  BY <1>1, AppendProperties, LenProperties
<1>3. ASSUME Published(n) PROVE Published(n)'
  <2>1. PICK i \in 1..Len(topic) : topic[i] = Rec(n, TRUE)
    BY <1>2, <1>3 DEF Published
  <2>2. i \in DOMAIN topic' /\ topic'[i] = Rec(n, TRUE)
    BY <1>2, <2>1
  <2> QED BY <2>2 DEF Published, Rec
<1>4. ASSUME r = Rec(n, TRUE) PROVE Published(n)'
  BY <1>2, <1>4 DEF Published, Rec
<1> QED BY <1>3, <1>4

LEMMA LandTopic ==
  ASSUME TypeOK, NEW p \in Procs, Land(p)
  PROVE  /\ wire[p] \in Seq(Wired) /\ wire[p] # << >>
         /\ Head(wire[p]).rec \in Records
         /\ topic' = Append(topic, Head(wire[p]).rec)
<1>1. wire[p] \in Seq(Wired) /\ wire[p] # << >>
  BY DEF Land, TypeOK, Wired
<1>2. Head(wire[p]) \in Wired
  BY <1>1, HeadTailProperties
<1> QED BY <1>1, <1>2 DEF Land, Wired

(* Nothing published is unpublished, and a delivered entry's body does not *)
(* come back.                                                              *)
LEMMA Monotone ==
  ASSUME TypeOK, [Next]_vars
  PROVE  /\ \A n : Published(n) => Published(n)'
         /\ \A n \in Nat : n <= delivered /\ n \in body' => n \in body
         /\ delivered \in Nat /\ delivered' \in Nat /\ delivered <= delivered'
         /\ raced \subseteq raced' /\ overflowed \subseteq overflowed'
<1>1. \A n : Published(n) => Published(n)'
  <2>1. CASE UNCHANGED topic
    BY <2>1 DEF Published
  <2>2. CASE \E p \in Procs : Land(p)
    BY <2>2, LandTopic, PublishedGrows
  <2>3. UNCHANGED topic \/ \E p \in Procs : Land(p)
    BY DEF Next, vars, RelayStep, TrimStep, Add, Tick, ReadOwn, Claim, ReadNew, Send, SendThrows,
           Drop, Ack, RedisFails, TrimPending, TrimInfo, Trim, Crash, Start, Age
  <2> QED BY <2>1, <2>2, <2>3
<1>2. added \in Nat /\ delivered \in 0..added /\ body \subseteq 1..added
  BY DEF TypeOK
<1>3. CASE Add
  <2>1. body' \subseteq body \cup {added + 1} /\ delivered' = delivered /\ raced' = raced
        /\ overflowed \subseteq overflowed'
    BY <1>3 DEF Add
  <2>2. added \in Nat /\ delivered \in Nat /\ delivered <= added
    BY <1>2
  <2>3. \A n \in Nat : n <= delivered /\ n \in body' => n \in body
    BY <2>1, <2>2
  <2> QED BY <1>1, <2>1, <2>2, <2>3
<1>4. CASE \E p \in Procs : ReadNew(p)
  <2>1. PICK p \in Procs : ReadNew(p)
    BY <1>4
  <2> DEFINE fresh == {n \in body : n > delivered}
  <2>2. body' = body /\ raced' = raced /\ overflowed' = overflowed
    BY <2>1 DEF ReadNew
  <2>3. delivered' = delivered \/ delivered' \in FirstOf(fresh, BatchSize)
    BY <2>1 DEF ReadNew
  <2>4. delivered' = delivered \/ delivered' \in fresh
    BY <2>3, FirstOfSubset
  <2>5. delivered' \in Nat /\ delivered <= delivered'
    <3>1. \A n \in fresh : n \in Nat /\ delivered <= n
      BY <1>2
    <3>2. delivered \in Nat
      BY <1>2
    <3> HIDE DEF fresh
    <3> QED BY <2>4, <3>1, <3>2
  <2> QED BY <1>1, <1>2, <2>2, <2>5
<1>5. CASE \E p \in Procs : Trim(p)
  BY <1>1, <1>2, <1>5 DEF Trim, Cut
<1>6. CASE UNCHANGED <<body, delivered, raced, overflowed>>
  BY <1>1, <1>2, <1>6
<1>7. \/ Add \/ \E p \in Procs : ReadNew(p) \/ Trim(p)
      \/ UNCHANGED <<body, delivered, raced, overflowed>>
  BY DEF Next, vars, stream, RelayStep, TrimStep, Tick, ReadOwn, Claim, Send, SendThrows,
         Land, Drop, Ack, RedisFails, TrimPending, TrimInfo, Crash, Start, Age
<1> QED BY <1>3, <1>4, <1>5, <1>6, <1>7

----------------------------------------------------------------------------
(* What a step does to the state t of a process that was in state s when   *)
(* it neither reads a batch, nor learns of a published record, nor takes a *)
(* watermark, nor starts.                                                  *)
Settles(s, t) ==
  /\ t.unsent \subseteq s.unsent /\ t.good \subseteq s.good
  /\ t.pc = "xtrim" => s.pc = "xtrim" /\ t.mark = s.mark
  /\ t.pc = "xinfo" => s.pc = "xinfo"
  /\ t.pc # "down" => s.pc # "down"

Publishes(q) ==
  \E ids \in SUBSET (1..delivered') :
    /\ UNCHANGED body /\ Up(q)
    /\ relay'[q].pc = "send" /\ relay'[q].good = {}
    /\ relay'[q].unsent = {Rec(n, n \in body) : n \in ids}

LEMMA RestSettles ==
  ASSUME TypeOK, NEW p \in Procs, Up(p)
  PROVE  Settles(relay[p], Rest(p))
BY RelayFields DEF Settles, Rest, Resting, Up

LEMMA RestingSettles ==
  ASSUME TypeOK, NEW p \in Procs, Up(p), NEW c, NEW at \in {"idle", "claim", "new", "down"}
  PROVE  Settles(relay[p], Resting(c, at))
BY RelayFields DEF Settles, Resting, Up

LEMMA SameSettles ==
  ASSUME TypeOK, NEW q \in Procs, relay'[q] = relay[q]
  PROVE  Settles(relay[q], relay'[q])
BY DEF Settles

LEMMA UpdateAt ==
  ASSUME TypeOK, NEW p \in Procs, NEW state, relay' = [relay EXCEPT ![p] = state], NEW q \in Procs
  PROVE  relay'[q] = IF q = p THEN state ELSE relay[q]
BY DEF TypeOK

LEMMA RepliedAt ==
  ASSUME TypeOK, NEW p \in Procs, NEW state, Replied(p, state), NEW q \in Procs
  PROVE  \/ q # p /\ relay'[q] = relay[q]
         \/ q = p /\ relay'[q] = state
         \/ q = p /\ relay'[q] = Rest(p)
BY UpdateAt DEF Replied

LEMMA PublishingPublishes ==
  ASSUME NEW q \in Procs, Up(q), UNCHANGED body, NEW ids \in SUBSET (1..delivered'),
         NEW next, NEW room, NEW cursor, relay'[q] = Publishing(ids, next, room, cursor)
  PROVE  Publishes(q)
BY DEF Publishes, Publishing

Reports(q) ==
  /\ Land(q)
  /\ relay'[q] = [relay[q] EXCEPT !.good = @ \cup {Head(wire[q]).rec.id}]

Watermark(q) ==
  \/ TrimPending(q) /\ Pending = {} /\ relay'[q] = [relay[q] EXCEPT !.pc = "xinfo"]
  \/ /\ TrimPending(q)
     /\ \E oldest \in Pending :
          /\ \A n \in Pending : oldest <= n
          /\ relay'[q] = [relay[q] EXCEPT !.pc = "xtrim", !.mark = oldest]
  \/ TrimInfo(q) /\ relay'[q] = [relay[q] EXCEPT !.pc = "xtrim", !.mark = delivered]

Starts(q) == Start(q) /\ relay'[q] = [relay[q] EXCEPT !.pc = "idle"]

Moves(q) ==
  Settles(relay[q], relay'[q]) \/ Publishes(q) \/ Reports(q) \/ Watermark(q) \/ Starts(q)

LEMMA RelayMoves ==
  ASSUME TypeOK, [Next]_vars, NEW q \in Procs
  PROVE  Moves(q)
<1> USE DEF Moves
<1>1. CASE UNCHANGED relay
  BY <1>1, SameSettles
<1>2. ASSUME NEW p \in Procs, Tick(p) PROVE Moves(q)
  <2>1. relay'[q] = IF q = p THEN [relay[p] EXCEPT !.pc = "own"] ELSE relay[q]
    BY <1>2, UpdateAt DEF Tick
  <2>2. Settles(relay[p], [relay[p] EXCEPT !.pc = "own"])
    BY <1>2, RestType DEF Tick, Settles, RelayStates
  <2> QED BY <2>1, <2>2, SameSettles
<1>3. ASSUME NEW p \in Procs, ReadOwn(p) PROVE Moves(q)
  <2> DEFINE ids == FirstOf(pel[p], BatchSize)
             room == BatchSize - Cardinality(ids)
             next == IF room > 0 THEN "claim" ELSE "new"
             empty == [relay[p] EXCEPT !.pc = "claim", !.room = BatchSize]
             full == Publishing(ids, next, room, relay[p].cursor)
  <2>1. Replied(p, IF ids = {} THEN empty ELSE full) /\ Up(p) /\ UNCHANGED <<body, delivered>>
    BY <1>3 DEF ReadOwn, Up
  <2>2. ids \in SUBSET (1..delivered')
    <3>1. \A n \in ids : n \in pel[p]
      BY FirstOfSubset
    <3>2. pel[p] \in SUBSET (1..delivered')
      BY <2>1 DEF TypeOK
    <3> QED BY <3>1, <3>2
  <2>3. Settles(relay[p], empty)
    BY <2>1, RestType DEF Settles, RelayStates, Up
  <2> HIDE DEF ids, room, next, empty
  <2>4. CASE q # p
    BY <2>1, <2>4, RepliedAt, SameSettles
  <2>5. CASE q = p
    BY <2>1, <2>2, <2>3, <2>5, RepliedAt, RestSettles, PublishingPublishes
  <2> QED BY <2>4, <2>5
<1>4. ASSUME NEW p \in Procs, Claim(p) PROVE Moves(q)
  <2> DEFINE ahead == {n \in Pending : n >= relay[p].cursor}
             visit == FirstOf({n \in ahead : n \notin body \/ n \in stale}, relay[p].room)
             moved == visit \cap body
  <2>1. PICK c : Replied(p, IF moved = {} THEN Resting(c, "new")
                            ELSE Publishing(moved, "new", 0, c))
    BY <1>4 DEF Claim
  <2>2. Up(p) /\ UNCHANGED <<body, delivered>>
    BY <1>4 DEF Claim, Up
  <2>3. moved \in SUBSET (1..delivered')
    <3>1. \A n \in visit : n \in Pending
      BY FirstOfSubset
    <3>2. Pending \subseteq 1..delivered'
      BY <2>2, PendingType
    <3> QED BY <3>1, <3>2
  <2>4. Settles(relay[p], Resting(c, "new"))
    BY <2>2, RestingSettles
  <2> HIDE DEF moved
  <2>5. CASE q # p
    BY <2>1, <2>5, RepliedAt, SameSettles
  <2>6. CASE q = p
    BY <2>1, <2>2, <2>3, <2>4, <2>6, RepliedAt, RestSettles, PublishingPublishes
  <2> QED BY <2>5, <2>6
<1>5. ASSUME NEW p \in Procs, ReadNew(p) PROVE Moves(q)
  <2> DEFINE fresh == {n \in body : n > delivered}
             ids == FirstOf(fresh, BatchSize)
             batch == Publishing(ids, "new", 0, relay[p].cursor)
  <2>1. Up(p) /\ UNCHANGED body
    BY <1>5 DEF ReadNew, Up
  <2>2. CASE relay' = [relay EXCEPT ![p] = Rest(p)]
    BY <2>1, <2>2, UpdateAt, RestSettles, SameSettles
  <2>3. CASE \E last \in ids :
               /\ \A n \in ids : n <= last
               /\ delivered' = last /\ Replied(p, batch)
    <3>1. \A n \in ids : n <= delivered'
      BY <2>3
    <3>2. Replied(p, batch)
      BY <2>3
    <3>3. \A n \in ids : n \in fresh
      BY FirstOfSubset
    <3>4. added \in Nat /\ delivered' \in Nat /\ \A n \in fresh : n \in 1..added
      BY Monotone DEF TypeOK
    <3> HIDE DEF ids, fresh
    <3>5. ids \in SUBSET (1..delivered')
      BY <3>1, <3>3, <3>4
    <3>6. CASE q # p
      BY <3>2, <3>6, RepliedAt, SameSettles
    <3>7. CASE q = p
      BY <2>1, <3>2, <3>5, <3>7, RepliedAt, RestSettles, PublishingPublishes
    <3> QED BY <3>6, <3>7
  <2> QED BY <1>5, <2>2, <2>3 DEF ReadNew
<1>6. ASSUME NEW p \in Procs, Send(p) PROVE Moves(q)
  <2>1. PICK r : relay' = [relay EXCEPT ![p].unsent = @ \ {r}]
    BY <1>6 DEF Send
  <2>2. relay'[q] = IF q = p THEN [relay[p] EXCEPT !.unsent = @ \ {r}] ELSE relay[q]
    BY <2>1 DEF TypeOK
  <2>3. Settles(relay[p], [relay[p] EXCEPT !.unsent = @ \ {r}])
    BY <1>6, RestType DEF Send, Settles, RelayStates
  <2> QED BY <2>2, <2>3, SameSettles
<1>7. ASSUME NEW p \in Procs, relay' = [relay EXCEPT ![p] = Rest(p)], Up(p) PROVE Moves(q)
  BY <1>7, UpdateAt, RestSettles, SameSettles
<1>8. ASSUME NEW p \in Procs, Land(p) PROVE Moves(q)
  <2>1. \/ relay' = relay
        \/ relay' = [relay EXCEPT ![p].good = @ \cup {Head(wire[p]).rec.id}]
    BY <1>8 DEF Land
  <2>2. \/ relay'[q] = relay[q]
        \/ q = p /\ relay'[q] = [relay[p] EXCEPT !.good = @ \cup {Head(wire[p]).rec.id}]
    BY <2>1 DEF TypeOK
  <2> QED BY <1>8, <2>2, SameSettles DEF Reports
<1>9. ASSUME NEW p \in Procs, Ack(p) PROVE Moves(q)
  <2> DEFINE state == [Resting(relay[p].cursor, relay[p].next) EXCEPT !.room = relay[p].room]
  <2>1. Replied(p, state) /\ Up(p) /\ relay[p].next \in {"idle", "claim", "new"}
    BY <1>9, RelayFields DEF Ack, Flushed, Up
  <2>2. Settles(relay[p], state)
    BY <2>1, RelayFields DEF Settles, Resting, Up
  <2> HIDE DEF state
  <2> QED BY <2>1, <2>2, RepliedAt, RestSettles, SameSettles
<1>10. ASSUME NEW p \in Procs, TrimPending(p) PROVE Moves(q)
  <2>1. CASE q = p
    BY <1>10, <2>1, UpdateAt DEF TrimPending, Watermark, TypeOK
  <2>2. CASE q # p
    BY <1>10, <2>2, SameSettles DEF TrimPending, TypeOK
  <2> QED BY <2>1, <2>2
<1>11. ASSUME NEW p \in Procs, TrimInfo(p) PROVE Moves(q)
  BY <1>11, SameSettles DEF TrimInfo, Watermark, TypeOK
<1>12. ASSUME NEW p \in Procs, Trim(p) PROVE Moves(q)
  <2>1. Replied(p, Rest(p)) /\ Up(p)
    BY <1>12 DEF Trim, Up
  <2> QED BY <2>1, RepliedAt, RestSettles, SameSettles
<1>13. ASSUME NEW p \in Procs, Crash(p) PROVE Moves(q)
  BY <1>13, UpdateAt, RestingSettles, SameSettles DEF Crash
<1>14. ASSUME NEW p \in Procs, Start(p) PROVE Moves(q)
  BY <1>14, SameSettles DEF Start, Starts, TypeOK
<1>15. ASSUME NEW p \in Procs, SendThrows(p) \/ RedisFails(p) PROVE Moves(q)
  BY <1>15, <1>7 DEF SendThrows, RedisFails, Flushed, Up
<1> QED BY <1>1, <1>2, <1>3, <1>4, <1>5, <1>6, <1>8, <1>9, <1>10, <1>11, <1>12, <1>13,
           <1>14, <1>15 DEF Next, RelayStep, TrimStep, vars, Add, Drop, Age

----------------------------------------------------------------------------
LEMMA StillFaithful ==
  ASSUME TypeOK, [Next]_vars, NEW r \in Records, Faithful(r)
  PROVE  Faithful(r)'
<1>1. r.id \in Nat /\ r.id <= delivered /\ (r.full \/ r.id \notin body)
  BY DEF Faithful, Records
<1>2. r.id <= delivered'
  BY <1>1, Monotone
<1>3. r.full \/ r.id \notin body'
  BY <1>1, Monotone
<1> QED BY <1>2, <1>3 DEF Faithful

LEMMA UnsentFaithful ==
  ASSUME TypeOK, RecordsFaithful, [Next]_vars, NEW q \in Procs, NEW r \in relay'[q].unsent
  PROVE  Faithful(r)'
<1>1. ASSUME r \in relay[q].unsent PROVE Faithful(r)'
  <2>1. r \in Records /\ Faithful(r)
    BY <1>1, RelayFields DEF RecordsFaithful
  <2> QED BY <2>1, StillFaithful
<1>2. CASE Publishes(q)
  <2>1. PICK n \in 1..delivered' : r = Rec(n, n \in body) /\ body' = body
    BY <1>2 DEF Publishes
  <2>2. r.id = n /\ r.full = (n \in body)
    BY <2>1 DEF Rec
  <2>3. r.id <= delivered'
    BY <2>1, <2>2, Monotone
  <2>4. r.full \/ r.id \notin body'
    BY <2>1, <2>2
  <2> QED BY <2>3, <2>4 DEF Faithful
<1>3. CASE Settles(relay[q], relay'[q])
  BY <1>1, <1>3 DEF Settles
<1>4. CASE Reports(q) \/ Watermark(q) \/ Starts(q)
  <2>1. relay'[q].unsent = relay[q].unsent
    BY <1>4, RestType DEF Reports, Watermark, Starts, RelayStates
  <2> QED BY <1>1, <2>1
<1> QED BY <1>2, <1>3, <1>4, RelayMoves DEF Moves

(* A record on the wire was there before, or has just been sent. *)
LEMMA WireMoves ==
  ASSUME TypeOK, [Next]_vars, NEW q \in Procs, NEW i \in DOMAIN wire'[q]
  PROVE  \/ \E j \in DOMAIN wire[q] : wire'[q][i].rec = wire[q][j].rec
         \/ wire'[q][i].rec \in relay[q].unsent
<1> DEFINE Goal == \/ \E j \in DOMAIN wire[q] : wire'[q][i].rec = wire[q][j].rec
                   \/ wire'[q][i].rec \in relay[q].unsent
<1>1. wire[q] \in Seq(Wired) /\ wire \in [Procs -> Seq(Wired)]
  BY DEF TypeOK, Wired
<1>2. Len(wire[q]) \in Nat /\ DOMAIN wire[q] = 1..Len(wire[q])
  BY <1>1, LenProperties
<1>3. CASE wire'[q] = wire[q]
  BY <1>3
<1>4. CASE \E r \in relay[q].unsent : wire'[q] = Append(wire[q], [rec |-> r, own |-> TRUE])
  <2>1. PICK r \in relay[q].unsent : wire'[q] = Append(wire[q], [rec |-> r, own |-> TRUE])
    BY <1>4
  <2>2. [rec |-> r, own |-> TRUE] \in Wired
    BY RelayFields DEF Wired
  <2>3. /\ DOMAIN wire'[q] = 1..(Len(wire[q]) + 1)
        /\ \A j \in 1..Len(wire[q]) : wire'[q][j] = wire[q][j]
        /\ wire'[q][Len(wire[q]) + 1] = [rec |-> r, own |-> TRUE]
    BY <1>1, <2>1, <2>2, AppendProperties, LenProperties
  <2>4. i \in 1..Len(wire[q]) \/ i = Len(wire[q]) + 1
    BY <1>2, <2>3
  <2> QED BY <1>2, <2>3, <2>4
<1>5. CASE wire'[q] = Tail(wire[q]) /\ wire[q] # << >>
  <2>1. /\ Len(wire'[q]) = Len(wire[q]) - 1 /\ wire'[q] \in Seq(Wired)
        /\ \A j \in 1..Len(wire'[q]) : wire'[q][j] = wire[q][j + 1]
    BY <1>1, <1>5, HeadTailProperties
  <2>2. i \in 1..Len(wire'[q]) /\ i + 1 \in 1..Len(wire[q])
    BY <1>2, <2>1, LenProperties
  <2> QED BY <1>2, <2>1, <2>2
<1>6. CASE wire'[q] = [j \in DOMAIN wire[q] |-> [wire[q][j] EXCEPT !.own = FALSE]]
  <2>1. i \in 1..Len(wire[q]) /\ wire'[q][i] = [wire[q][i] EXCEPT !.own = FALSE]
    BY <1>2, <1>6
  <2>2. wire[q][i] \in Wired
    BY <1>1, <2>1, ElementOfSeq
  <2>3. wire'[q][i].rec = wire[q][i].rec
    BY <2>1, <2>2 DEF Wired
  <2> QED BY <1>2, <2>1, <2>3
<1>7. CASE wire'[q] = << >>
  BY <1>7
<1>8. ASSUME NEW p \in Procs,
             Send(p) \/ SendThrows(p) \/ Land(p) \/ Drop(p) \/ Crash(p)
      PROVE  Goal
  <2> HIDE DEF Goal
  <2>1. CASE p # q
    <3>1. wire'[q] = wire[q]
      BY <1>1, <1>8, <2>1 DEF Send, SendThrows, Land, Drop, Crash
    <3> QED BY <1>3, <3>1 DEF Goal
  <2>2. CASE p = q
    <3>1. CASE Send(p)
      BY <1>1, <1>4, <2>2, <3>1 DEF Send, Goal
    <3>2. CASE SendThrows(p)
      BY <1>1, <1>6, <2>2, <3>2 DEF SendThrows, Goal
    <3>3. CASE Land(p) \/ Drop(p)
      BY <1>1, <1>5, <2>2, <3>3 DEF Land, Drop, Goal
    <3>4. CASE Crash(p)
      BY <1>1, <1>7, <2>2, <3>4 DEF Crash, Goal
    <3> QED BY <1>8, <3>1, <3>2, <3>3, <3>4
  <2> QED BY <2>1, <2>2
<1>9. \/ UNCHANGED wire
      \/ \E p \in Procs : Send(p) \/ SendThrows(p) \/ Land(p) \/ Drop(p) \/ Crash(p)
  BY DEF Next, vars, RelayStep, TrimStep, Add, Tick, ReadOwn, Claim, ReadNew,
         Ack, RedisFails, TrimPending, TrimInfo, Trim, Start, Age
<1> QED BY <1>3, <1>8, <1>9

LEMMA RecordsInductive ==
  ASSUME TypeOK, RecordsFaithful, [Next]_vars
  PROVE  RecordsFaithful'
<1>1. ASSUME NEW q \in Procs, NEW i \in DOMAIN wire'[q], NEW r, r = wire'[q][i].rec
      PROVE  Faithful(r)'
  <2>1. CASE r \in relay[q].unsent
    <3>1. r \in Records /\ Faithful(r)
      BY <2>1, RelayFields DEF RecordsFaithful
    <3> QED BY <3>1, StillFaithful
  <2>2. CASE \E j \in DOMAIN wire[q] : r = wire[q][j].rec
    <3>1. PICK j \in DOMAIN wire[q] : r = wire[q][j].rec
      BY <2>2
    <3>2. wire[q] \in Seq(Wired)
      BY DEF TypeOK, Wired
    <3>3. wire[q][j] \in Wired
      BY <3>2, LenProperties, ElementOfSeq
    <3>4. r \in Records /\ Faithful(r)
      BY <3>1, <3>3 DEF Wired, RecordsFaithful
    <3> QED BY <3>4, StillFaithful
  <2> QED BY <1>1, <2>1, <2>2, WireMoves
<1>2. \A q \in Procs : \A r \in relay'[q].unsent : Faithful(r)'
  BY UnsentFaithful
<1>3. \A q \in Procs : \A i \in DOMAIN wire'[q] :
        LET r == wire'[q][i].rec IN r.id <= delivered' /\ (r.full \/ r.id \notin body')
  BY <1>1 DEF Faithful
<1> QED BY <1>2, <1>3 DEF RecordsFaithful, Faithful

LEMMA GoodInductive ==
  ASSUME TypeOK, RecordsFaithful, GoodIsDone, [Next]_vars
  PROVE  GoodIsDone'
<1> SUFFICES ASSUME NEW q \in Procs, NEW n \in relay'[q].good
             PROVE  n <= delivered' /\ (Published(n)' \/ n \notin body')
  BY DEF GoodIsDone
<1>1. CASE n \in relay[q].good
  <2>1. n \in Nat /\ n <= delivered /\ (Published(n) \/ n \notin body)
    BY <1>1, RelayFields DEF GoodIsDone
  <2>2. n <= delivered'
    BY <2>1, Monotone
  <2> QED BY <2>1, <2>2, Monotone
<1>2. CASE Reports(q)
  <2> DEFINE r == Head(wire[q]).rec
  <2>1. /\ wire[q] \in Seq(Wired) /\ wire[q] # << >>
        /\ r \in Records /\ topic' = Append(topic, r) /\ UNCHANGED <<delivered, body>>
    BY <1>2, LandTopic DEF Reports, Land, stream
  <2>2. n \in relay[q].good \/ n = r.id
    BY <1>2, RestType DEF Reports, RelayStates
  <2>3. CASE n = r.id
    <3>1. Head(wire[q]) = wire[q][1] /\ 1 \in DOMAIN wire[q]
      BY <2>1, HeadTailProperties, LenProperties, EmptySeq
    <3>2. Faithful(r)
      BY <3>1 DEF RecordsFaithful
    <3> HIDE DEF r
    <3>3. CASE r.full
      <4>1. r = Rec(n, TRUE)
        BY <2>1, <2>3, <3>3 DEF Rec, Records
      <4>2. Published(n)'
        BY <2>1, <4>1, PublishedGrows
      <4> QED BY <2>1, <2>3, <3>2, <4>2 DEF Faithful
    <3>4. CASE ~r.full
      BY <2>1, <2>3, <3>2, <3>4 DEF Faithful
    <3> QED BY <3>3, <3>4
  <2> QED BY <1>1, <2>2, <2>3
<1>3. CASE Settles(relay[q], relay'[q])
  BY <1>1, <1>3 DEF Settles
<1>4. CASE Publishes(q)
  BY <1>4 DEF Publishes
<1>5. CASE Watermark(q) \/ Starts(q)
  <2>1. relay'[q].good = relay[q].good
    BY <1>5, RestType DEF Watermark, Starts, RelayStates
  <2> QED BY <1>1, <2>1
<1> QED BY <1>2, <1>3, <1>4, <1>5, RelayMoves DEF Moves

LEMMA MarkInductive ==
  ASSUME TypeOK, MarkSeen, [Next]_vars
  PROVE  MarkSeen'
<1> SUFFICES ASSUME NEW q \in Procs, relay'[q].pc = "xtrim"
             PROVE  relay'[q].mark <= delivered'
  BY DEF MarkSeen
<1>0. relay[q] \in RelayStates /\ relay[q].mark \in Nat
  BY RestType, RelayFields
<1>1. CASE relay[q].pc = "xtrim" /\ relay'[q].mark = relay[q].mark
  <2>1. relay[q].mark <= delivered
    BY <1>1 DEF MarkSeen
  <2> QED BY <1>0, <1>1, <2>1, Monotone
<1>2. CASE Settles(relay[q], relay'[q])
  BY <1>1, <1>2 DEF Settles
<1>3. CASE Publishes(q) \/ Starts(q)
  BY <1>0, <1>3 DEF Publishes, Starts, RelayStates
<1>4. CASE Reports(q)
  BY <1>0, <1>1, <1>4 DEF Reports, RelayStates
<1>5. CASE Watermark(q)
  <2>1. relay'[q].mark \in Pending \/ relay'[q].mark = delivered
    BY <1>0, <1>5 DEF Watermark, RelayStates
  <2>2. delivered \in Nat
    BY Monotone
  <2>3. \A n \in Pending : n \in Nat /\ n <= delivered
    BY PendingNumbers
  <2>4. delivered <= delivered
    BY <2>2
  <2>5. relay'[q].mark \in Nat /\ relay'[q].mark <= delivered
    BY <2>1, <2>2, <2>3, <2>4
  <2> QED BY <2>2, <2>5, Monotone
<1> QED BY <1>2, <1>3, <1>4, <1>5, RelayMoves DEF Moves

(* How the pending entries change: a claim drops those without a body and  *)
(* takes the others over, a read adds every entry up to the last one it    *)
(* returns, an acknowledgement removes what is done.                       *)
Claims(p) ==
  \E visit \in SUBSET Pending :
    /\ Claim(p) /\ pel' = Claimed(p, visit)
    /\ UNCHANGED <<added, body, delivered, raced, overflowed, topic>>

Reads(p) ==
  \E ids \in SUBSET body, last \in body :
    /\ ReadNew(p)
    /\ \A n \in ids : n > delivered
    /\ \A n \in body : n > delivered /\ n <= last => n \in ids
    /\ last > delivered /\ delivered' = last
    /\ pel' = [pel EXCEPT ![p] = @ \cup ids]
    /\ UNCHANGED <<added, body, raced, overflowed, topic>>

Acks(p) ==
  /\ Ack(p) /\ pel' = [q \in Procs |-> pel[q] \ relay[p].good]
  /\ UNCHANGED <<added, body, delivered, raced, overflowed, topic>>

LEMMA ClaimClaims ==
  ASSUME TypeOK, NEW p \in Procs, Claim(p)
  PROVE  Claims(p)
<1> DEFINE ahead == {n \in Pending : n >= relay[p].cursor}
           visit == FirstOf({n \in ahead : n \notin body \/ n \in stale}, relay[p].room)
<1>1. \A n \in visit : n \in Pending
  BY FirstOfSubset
<1>2. pel' = Claimed(p, visit) /\ UNCHANGED <<added, body, delivered, raced, overflowed, topic>>
  BY DEF Claim
<1> HIDE DEF visit
<1> QED BY <1>1, <1>2 DEF Claims

LEMMA ReadNewReads ==
  ASSUME TypeOK, NEW p \in Procs, ReadNew(p)
  PROVE  Reads(p) \/ UNCHANGED <<added, body, delivered, pel, raced, overflowed, topic>>
<1> DEFINE fresh == {n \in body : n > delivered}
           ids == FirstOf(fresh, BatchSize)
<1>0. UNCHANGED <<added, body, raced, overflowed, topic>>
  BY DEF ReadNew
<1>1. CASE UNCHANGED <<delivered, pel>>
  BY <1>0, <1>1
<1>2. CASE \E last \in ids : /\ \A n \in ids : n <= last
                             /\ delivered' = last
                             /\ pel' = [pel EXCEPT ![p] = @ \cup ids]
  <2>1. PICK last \in ids : /\ \A n \in ids : n <= last
                            /\ delivered' = last
                            /\ pel' = [pel EXCEPT ![p] = @ \cup ids]
    BY <1>2
  <2>2. \A n \in ids : n \in body /\ n > delivered
    <3>1. \A n \in ids : n \in fresh
      BY FirstOfSubset
    <3> QED BY <3>1
  <2>3. added \in Nat /\ fresh \in SUBSET (1..added) /\ BatchSize \in Int
    <3>1. added \in Nat /\ body \subseteq 1..added
      BY DEF TypeOK
    <3>2. BatchSize \in Int
      BY RelayAssumption
    <3> QED BY <3>1, <3>2
  <2>4. ASSUME NEW n \in body, n > delivered, n <= last PROVE n \in ids
    <3>1. n \in fresh
      BY <2>4
    <3> HIDE DEF fresh
    <3> QED BY <2>1, <2>3, <2>4, <3>1, FirstOfClosed
  <2> HIDE DEF ids
  <2> QED BY <1>0, <2>1, <2>2, <2>4 DEF Reads
<1> QED BY <1>1, <1>2 DEF ReadNew

LEMMA AckAcks ==
  ASSUME NEW p \in Procs, Ack(p)
  PROVE  Acks(p)
BY DEF Ack, Acks, Acknowledged

LEMMA PelMoves ==
  ASSUME TypeOK, [Next]_vars
  PROVE  UNCHANGED pel \/ \E p \in Procs : Claims(p) \/ Reads(p) \/ Acks(p)
<1>1. UNCHANGED pel \/ \E p \in Procs : Claim(p) \/ ReadNew(p) \/ Ack(p)
  BY DEF Next, vars, stream, RelayStep, TrimStep, Add, Tick, ReadOwn, Send, SendThrows, Land, Drop,
         RedisFails, TrimPending, TrimInfo, Trim, Crash, Start, Age
<1> QED BY <1>1, ClaimClaims, ReadNewReads, AckAcks

LEMMA OwnerInductive ==
  ASSUME TypeOK, OneOwner, [Next]_vars
  PROVE  OneOwner'
<1>0. pel \in [Procs -> SUBSET (1..delivered)] /\ delivered \in Nat
  BY Monotone DEF TypeOK
<1>1. CASE UNCHANGED pel
  BY <1>1 DEF OneOwner
<1>2. ASSUME NEW p \in Procs, Claims(p) PROVE OneOwner'
  <2>1. PICK visit \in SUBSET Pending : pel' = Claimed(p, visit)
    BY <1>2 DEF Claims
  <2> QED BY <2>1 DEF Claimed, OneOwner
<1>3. ASSUME NEW p \in Procs, Reads(p) PROVE OneOwner'
  <2>1. PICK ids \in SUBSET body :
          (\A n \in ids : n > delivered) /\ pel' = [pel EXCEPT ![p] = @ \cup ids]
    BY <1>3 DEF Reads
  <2>2. \A q \in Procs : pel[q] \cap ids = {}
    BY <1>0, <2>1
  <2>3. \A q \in Procs : pel'[q] = IF q = p THEN pel[p] \cup ids ELSE pel[q]
    BY <1>0, <2>1
  <2> QED BY <2>2, <2>3 DEF OneOwner
<1>4. ASSUME NEW p \in Procs, Acks(p) PROVE OneOwner'
  BY <1>4 DEF Acks, OneOwner
<1> QED BY <1>1, <1>2, <1>3, <1>4, PelMoves

(* A claim gives up a pending entry only when its body is gone, an         *)
(* acknowledgement only when somebody saw it published.                    *)
LEMMA ClaimsAt ==
  ASSUME NEW p \in Procs, Claims(p), NEW n
  PROVE  /\ n \in Pending' => n \in Pending
         /\ n \in Pending /\ n \notin Pending' => n \notin body
<1>1. PICK visit \in SUBSET Pending : pel' = Claimed(p, visit)
  BY DEF Claims
<1> QED BY <1>1 DEF Claimed, Pending

LEMMA AcksAt ==
  ASSUME NEW p \in Procs, Acks(p), NEW n
  PROVE  /\ n \in Pending' => n \in Pending
         /\ n \in Pending /\ n \notin Pending' => n \in relay[p].good
BY DEF Acks, Pending

LEMMA ReadsAt ==
  ASSUME TypeOK, NEW p \in Procs, NEW ids, pel' = [pel EXCEPT ![p] = @ \cup ids], NEW n
  PROVE  n \in Pending' <=> n \in Pending \/ n \in ids
<1>1. \A q \in Procs : pel'[q] = IF q = p THEN pel[p] \cup ids ELSE pel[q]
  BY DEF TypeOK
<1> QED BY <1>1 DEF Pending

LEMMA AccountedInductive ==
  ASSUME TypeOK, GoodIsDone, Accounted, MarkSeen, [Next]_vars
  PROVE  Accounted'
<1> DEFINE Fate(n) ==
      /\ n > delivered => n \in body \cup overflowed
      /\ n \in Pending => n \in body \cup raced \cup overflowed
      /\ n <= delivered /\ n \notin Pending => Published(n) \/ n \in raced \cup overflowed
<1> SUFFICES ASSUME NEW n \in 1..added' PROVE Fate(n)'
  BY DEF Accounted
<1>0. /\ added \in Nat /\ n \in Nat \ {0} /\ delivered \in Nat /\ delivered <= added
      /\ body \subseteq 1..added /\ Pending \subseteq 1..delivered
      /\ Published(n) => Published(n)'
  <2>1. added \in Nat /\ delivered \in 0..added /\ body \subseteq 1..added
    BY DEF TypeOK
  <2> QED BY <2>1, PendingType, Monotone
<1>1. CASE Add
  <2>1. PICK oldest \in 1..(added + 1) :
          /\ body' = {m \in body \cup {added + 1} : m >= oldest}
          /\ overflowed' = overflowed \cup
                {m \in body : m < oldest /\ (m > delivered \/ m \in Pending)}
    BY <1>1 DEF Add
  <2>2. added' = added + 1 /\ UNCHANGED <<delivered, pel, raced>> /\ Pending' = Pending
    BY <1>1 DEF Add, Pending
  <2>3. CASE n = added + 1
    <3>1. n \in body' /\ n > delivered' /\ n \notin Pending'
      BY <1>0, <2>1, <2>2, <2>3
    <3> QED BY <1>0, <2>2, <3>1
  <2>4. CASE n \in 1..added
    <3>1. Fate(n)
      BY <2>4 DEF Accounted
    <3>2. n \in body => n \in body' \/ n < oldest
      BY <1>0, <2>1
    <3>3. overflowed \subseteq overflowed'
      BY <2>1
    <3>4. n \in body /\ n < oldest /\ (n > delivered \/ n \in Pending) => n \in overflowed'
      BY <2>1
    <3> QED BY <1>0, <2>2, <3>1, <3>2, <3>3, <3>4
  <2> QED BY <1>0, <2>2, <2>3, <2>4
<1>2. ASSUME added' = added PROVE Fate(n)
  BY <1>2 DEF Accounted
<1>3. ASSUME NEW p \in Procs, Claims(p) PROVE Fate(n)'
  <2>1. UNCHANGED <<added, body, delivered, raced, overflowed>>
    BY <1>3 DEF Claims
  <2> QED BY <1>0, <1>2, <1>3, <2>1, ClaimsAt
<1>4. ASSUME NEW p \in Procs, Reads(p) PROVE Fate(n)'
  <2>1. PICK ids \in SUBSET body, last \in body :
          /\ \A m \in body : m > delivered /\ m <= last => m \in ids
          /\ last > delivered /\ delivered' = last
          /\ pel' = [pel EXCEPT ![p] = @ \cup ids]
          /\ UNCHANGED <<added, body, raced, overflowed>>
    BY <1>4 DEF Reads
  <2>2. n \in Pending' <=> n \in Pending \/ n \in ids
    BY <2>1, ReadsAt
  <2>3. last \in Nat /\ Fate(n)
    BY <1>0, <1>2, <2>1
  <2>4. n > delivered' => n > delivered
    BY <1>0, <2>1, <2>3
  <2>5. n <= delivered' /\ n \notin Pending' => n \notin Pending /\ (n <= delivered \/ n \in overflowed)
    BY <1>0, <2>1, <2>2, <2>3
  <2> QED BY <1>0, <2>1, <2>2, <2>3, <2>4, <2>5
<1>5. ASSUME NEW p \in Procs, Acks(p) PROVE Fate(n)'
  <2>1. UNCHANGED <<added, body, delivered, raced, overflowed>>
    BY <1>5 DEF Acks
  <2>2. n \in relay[p].good => Published(n) \/ n \notin body
    BY DEF GoodIsDone
  <2> QED BY <1>0, <1>2, <1>5, <2>1, <2>2, AcksAt
<1>6. ASSUME NEW p \in Procs, Trim(p) PROVE Fate(n)'
  <2>1. /\ body' = body \ Cut(p) /\ raced' = raced \cup (Cut(p) \cap Pending)
        /\ UNCHANGED <<added, delivered, pel, overflowed>> /\ Pending' = Pending
    BY <1>6 DEF Trim, Pending
  <2>2. n \in Cut(p) => n <= delivered
    <3>1. relay[p].mark \in Nat /\ relay[p].mark <= delivered
      BY <1>6, RelayFields DEF Trim, MarkSeen
    <3> QED BY <1>0, <3>1 DEF Cut
  <2> QED BY <1>0, <1>2, <2>1, <2>2
<1>7. CASE UNCHANGED <<added, body, delivered, pel, raced, overflowed>>
  <2>1. Pending' = Pending
    BY <1>7 DEF Pending
  <2> QED BY <1>0, <1>2, <1>7, <2>1
<1>8. \/ Add
      \/ \E p \in Procs : Claim(p) \/ ReadNew(p) \/ Ack(p) \/ Trim(p)
      \/ UNCHANGED <<added, body, delivered, pel, raced, overflowed>>
  BY DEF Next, vars, stream, RelayStep, TrimStep, Tick, ReadOwn, Send, SendThrows, Land, Drop,
         RedisFails, TrimPending, TrimInfo, Crash, Start, Age
<1> QED BY <1>1, <1>3, <1>4, <1>5, <1>6, <1>7, <1>8, ClaimClaims, ReadNewReads, AckAcks

(* While one relay's trim tick holds a watermark, no other relay reads. *)
LEMMA PendingShrinks ==
  ASSUME TypeOK, TrimAlone, ~Overlap, [Next]_vars,
         NEW p \in Procs, relay[p].pc \in {"xinfo", "xtrim"}
  PROVE  \A n : n \in Pending' => n \in Pending
<1>1. CASE UNCHANGED pel
  BY <1>1 DEF Pending
<1>2. ASSUME NEW q \in Procs, Reads(q) PROVE FALSE
  <2>1. relay[q].pc = "new"
    BY <1>2 DEF Reads, ReadNew
  <2>2. q = p
    BY <2>1 DEF TrimAlone, Up
  <2> QED BY <2>1, <2>2
<1> QED BY <1>1, <1>2, PelMoves, ClaimsAt, AcksAt

LEMMA TrimAloneInductive ==
  ASSUME TypeOK, TrimAlone, [Next]_vars
  PROVE  TrimAlone'
<1> SUFFICES ASSUME ~Overlap
             PROVE  /\ \A p, q \in Procs : Up(p)' /\ Up(q)' => p = q
                    /\ \A p \in Procs : relay'[p].pc = "xinfo" => Pending' = {}
                    /\ \A p \in Procs : relay'[p].pc = "xtrim" =>
                         \A n \in Pending' : relay'[p].mark <= n
  BY DEF TrimAlone
<1>1. ASSUME NEW p \in Procs, NEW q \in Procs, Up(p)', Up(q)' PROVE p = q
  <2>1. CASE \E s \in Procs : Start(s)
    <3>1. PICK s \in Procs : Start(s)
      BY <2>1
    <3>2. \A t \in Procs : t # s => relay'[t] = relay[t] /\ ~Up(t)
      BY <3>1 DEF Start, TypeOK
    <3>3. p = s /\ q = s
      BY <1>1, <3>2 DEF Up
    <3> QED BY <3>3
  <2>2. CASE ~\E s \in Procs : Start(s)
    <3>1. ASSUME NEW t \in Procs, Up(t)' PROVE Up(t)
      BY <2>2, <3>1, RelayMoves, RestType
         DEF Moves, Settles, Publishes, Reports, Watermark, Starts, TrimPending, TrimInfo, Up, RelayStates
    <3> QED BY <1>1, <3>1 DEF TrimAlone
  <2> QED BY <2>1, <2>2
<1>2. ASSUME NEW p \in Procs, Watermark(p)
      PROVE  Pending' = Pending
  BY <1>2 DEF Watermark, TrimPending, TrimInfo, Pending, stream
<1>3. ASSUME NEW p \in Procs, relay'[p].pc = "xinfo" PROVE Pending' = {}
  <2>1. CASE relay[p].pc = "xinfo"
    <3>1. Pending = {}
      BY <2>1 DEF TrimAlone
    <3> QED BY <2>1, <3>1, PendingShrinks
  <2>2. CASE Watermark(p)
    <3>1. Pending = {}
      BY <1>3, <2>2, RestType DEF Watermark, RelayStates
    <3> QED BY <1>2, <2>2, <3>1
  <2>3. relay[p].pc = "xinfo" \/ Watermark(p)
    BY <1>3, RelayMoves, RestType DEF Moves, Settles, Publishes, Reports, Starts, RelayStates
  <2> QED BY <2>1, <2>2, <2>3
<1>4. ASSUME NEW p \in Procs, relay'[p].pc = "xtrim", NEW n \in Pending'
      PROVE  relay'[p].mark <= n
  <2>1. CASE relay[p].pc = "xtrim" /\ relay'[p].mark = relay[p].mark
    <3>1. n \in Pending
      BY <2>1, PendingShrinks
    <3> QED BY <2>1, <3>1 DEF TrimAlone
  <2>2. CASE Watermark(p)
    <3>1. n \in Pending /\ relay[p] \in RelayStates
      BY <1>2, <2>2, RestType
    <3>2. CASE TrimInfo(p)
      <4>1. Pending = {}
        BY <3>2 DEF TrimInfo, TrimAlone
      <4> QED BY <3>1, <4>1
    <3>3. CASE relay'[p] = [relay[p] EXCEPT !.pc = "xinfo"]
      <4>1. relay'[p].pc = "xinfo"
        BY <3>1, <3>3 DEF RelayStates
      <4> QED BY <1>4, <4>1
    <3>4. ASSUME NEW oldest \in Pending, \A m \in Pending : oldest <= m,
                 relay'[p] = [relay[p] EXCEPT !.pc = "xtrim", !.mark = oldest]
          PROVE  relay'[p].mark <= n
      <4>1. relay'[p].mark = oldest
        BY <3>1, <3>4 DEF RelayStates
      <4> QED BY <3>1, <3>4, <4>1
    <3> QED BY <2>2, <3>2, <3>3, <3>4 DEF Watermark
  <2>3. (relay[p].pc = "xtrim" /\ relay'[p].mark = relay[p].mark) \/ Watermark(p)
    BY <1>4, RelayMoves, RestType DEF Moves, Settles, Publishes, Reports, Starts, RelayStates
  <2> QED BY <2>1, <2>2, <2>3
<1> QED BY <1>1, <1>3, <1>4

LEMMA NoRacedCutInductive ==
  ASSUME TypeOK, TrimAlone, NoRacedCut, [Next]_vars
  PROVE  NoRacedCut'
<1> SUFFICES ASSUME ~Overlap PROVE raced' = {}
  BY DEF NoRacedCut
<1>1. raced = {}
  BY DEF NoRacedCut
<1>2. ASSUME NEW p \in Procs, Trim(p) PROVE raced' = {}
  <2>1. relay[p].mark \in Nat /\ \A n \in Pending : relay[p].mark <= n
    BY <1>2, RelayFields DEF Trim, TrimAlone
  <2>2. \A n \in Pending : n \in Nat
    BY PendingNumbers
  <2>3. Cut(p) \cap Pending = {}
    BY <2>1, <2>2 DEF Cut
  <2> QED BY <1>1, <1>2, <2>3 DEF Trim
<1>3. UNCHANGED raced \/ \E p \in Procs : Trim(p)
  BY DEF Next, vars, stream, RelayStep, TrimStep, Add, Tick, ReadOwn, Claim, ReadNew, Send,
         SendThrows, Land, Drop, Ack, RedisFails, TrimPending, TrimInfo, Crash, Start, Age
<1> QED BY <1>1, <1>2, <1>3

----------------------------------------------------------------------------
LEMMA InvInductive == Inv /\ [Next]_vars => Inv'
BY TypeInductive, RecordsInductive, GoodInductive, AccountedInductive, MarkInductive,
   OwnerInductive, TrimAloneInductive, NoRacedCutInductive DEF Inv

LEMMA InvInitially == Init => Inv
<1> SUFFICES ASSUME Init PROVE Inv
  OBVIOUS
<1>1. TypeOK
  BY TypeInitially
<1>2. \A p \in Procs : relay[p] = Resting(0, "down") /\ wire[p] = << >> /\ pel[p] = {}
  BY DEF Init
<1>3. added = 0 /\ raced = {} /\ Pending = {}
  BY <1>2 DEF Init, Pending
<1>4. RecordsFaithful /\ GoodIsDone /\ MarkSeen
  BY <1>2 DEF RecordsFaithful, GoodIsDone, MarkSeen, Resting
<1>5. Accounted
  <2>1. 1..added = {}
    BY <1>3
  <2> QED BY <2>1 DEF Accounted
<1>6. OneOwner /\ TrimAlone /\ NoRacedCut
  BY <1>2, <1>3 DEF OneOwner, TrimAlone, NoRacedCut, Up, Resting
<1> QED BY <1>1, <1>4, <1>5, <1>6 DEF Inv

(* What the invariant says does not depend on the faults of others. *)
LEMMA OthersFaults ==
  ASSUME Inv, faults' \in Nat,
         UNCHANGED <<stream, topic, wire, relay, raced, overflowed>>
  PROVE  Inv'
<1>1. UNCHANGED <<added, body, group, delivered, pel, stale>>
  BY DEF stream
<1>2. Pending' = Pending /\ \A n : Published(n)' = Published(n)
  BY <1>1 DEF Pending, Published
<1>3. TypeOK'
  BY <1>1 DEF Inv, TypeOK
<1>4. RecordsFaithful' /\ GoodIsDone'
  BY <1>1, <1>2 DEF Inv, RecordsFaithful, Faithful, GoodIsDone
<1>5. Accounted' /\ MarkSeen' /\ OneOwner' /\ NoRacedCut'
  BY <1>1, <1>2 DEF Inv, Accounted, MarkSeen, OneOwner, NoRacedCut
<1>6. TrimAlone'
  BY <1>1, <1>2 DEF Inv, TrimAlone, Up
<1> QED BY <1>3, <1>4, <1>5, <1>6 DEF Inv

(* The inductive invariant holds in every state. *)
THEOREM InvCorrect == Spec => []Inv
BY InvInitially, InvInductive, PTL DEF Spec

LEMMA InvImpliesLossOnlyByCut == Inv => LossOnlyByCut
<1> SUFFICES ASSUME Inv, NEW n \in 1..added
             PROVE  Owed(n) \/ Published(n) \/ n \in raced \cup overflowed
  BY DEF LossOnlyByCut
<1>1. added \in Nat /\ delivered \in Nat
  BY DEF Inv, TypeOK
<1>2. n > delivered \/ n <= delivered
  BY <1>1
<1> QED BY <1>2 DEF Inv, Accounted, Owed

(* However many relays run at once and whatever fails, an event that was   *)
(* added is still owed to Kafka or was published, unless MAXLEN or a trim  *)
(* tick cut it.                                                            *)
THEOREM LossOnlyByCutHolds == Spec => []LossOnlyByCut
BY InvCorrect, InvImpliesLossOnlyByCut, PTL

(* With one relay up at a time the trim tick never cuts a pending entry.   *)
THEOREM NoRacedCutHolds == Spec => []NoRacedCut
<1>1. Inv => NoRacedCut
  BY DEF Inv
<1> QED BY <1>1, InvCorrect, PTL

(* With one relay up at a time, no event is lost as long as MAXLEN has not *)
(* cut an entry that was not done.                                         *)
THEOREM NoEventLostAlone == Spec => [](~Overlap /\ overflowed = {} => NoEventLost)
<1>1. Inv => (~Overlap /\ overflowed = {} => NoEventLost)
  BY InvImpliesLossOnlyByCut DEF Inv, NoRacedCut, LossOnlyByCut, NoEventLost
<1> QED BY <1>1, InvCorrect, PTL

(* A pending entry has one owner. *)
THEOREM OneOwnerHolds == Spec => []OneOwner
<1>1. Inv => OneOwner
  BY DEF Inv
<1> QED BY <1>1, InvCorrect, PTL

(* No step takes an entry out of the pending lists before Kafka has it     *)
(* with its body, or its body is gone.                                     *)
THEOREM AckOnlyPublishedHolds == Spec => AckOnlyPublished
<1> DEFINE Step == \A n \in Pending : n \notin Pending' => Published(n) \/ n \notin body
<1>1. ASSUME Inv, [Next]_vars PROVE Step
  <2>1. TypeOK /\ GoodIsDone
    BY <1>1 DEF Inv
  <2>2. CASE UNCHANGED pel
    BY <2>2 DEF Pending
  <2>3. ASSUME NEW p \in Procs, Claims(p) PROVE Step
    BY <2>3, ClaimsAt
  <2>4. ASSUME NEW p \in Procs, Acks(p) PROVE Step
    BY <2>1, <2>4, AcksAt DEF GoodIsDone
  <2>5. ASSUME NEW p \in Procs, Reads(p) PROVE Step
    <3>1. PICK ids : pel' = [pel EXCEPT ![p] = @ \cup ids]
      BY <2>5 DEF Reads
    <3> QED BY <2>1, <3>1, ReadsAt
  <2> QED BY <1>1, <2>1, <2>2, <2>3, <2>4, <2>5, PelMoves
<1>2. Inv /\ [Next]_vars => [Step]_vars
  BY <1>1
<1> QED BY <1>2, InvCorrect, PTL DEF Spec, AckOnlyPublished
----------------------------------------------------------------------------
(* Order.  While one relay runs and nothing fails, an entry that precedes  *)
(* one on the topic, in a producer's buffer or in a batch was cut, or is   *)
(* ahead of it there; and whatever was delivered was cut or is on its way. *)
Gone(n) == n \in overflowed \/ \E j \in DOMAIN topic : topic[j].id = n
Buffered(p, n, i) == \E j \in 1..i : wire[p][j].rec.id = n
Unsent(p, n) == \E r \in relay[p].unsent : r.id = n
OnItsWay(p, n) == Buffered(p, n, Len(wire[p])) \/ Unsent(p, n)

BufferInOrder(p) ==
  \A i \in 1..Len(wire[p]) : \A n \in 1..wire[p][i].rec.id : Gone(n) \/ Buffered(p, n, i)
BatchInOrder(p) == \A r \in relay[p].unsent : \A n \in 1..r.id : Gone(n) \/ OnItsWay(p, n)
SendsAllOfIt(p) == relay[p].pc # "send" => wire[p] = << >> /\ relay[p].unsent = {}
InOrder ==
  /\ FirstCopiesInOrder
  /\ \A p \in Procs : SendsAllOfIt(p) /\ BufferInOrder(p) /\ BatchInOrder(p)
  /\ \A n \in 1..delivered : Gone(n) \/ \E p \in Procs : OnItsWay(p, n)
Orderly == faults = 0 /\ ~Overlap => InOrder

(* What a step without a fault may do to all that: nothing, or start a     *)
(* batch that holds all that is newly delivered, or send, or land.         *)
Keeps ==
  /\ UNCHANGED <<topic, wire, delivered>>
  /\ \A q \in Procs :
       /\ relay'[q].unsent = relay[q].unsent
       /\ relay'[q].pc # "send" => wire[q] = << >> /\ relay[q].unsent = {}

Takes(p) ==
  /\ relay[p].pc \notin {"send", "down"}
  /\ UNCHANGED <<topic, wire>>
  /\ \E ids \in SUBSET (1..delivered') :
       /\ \A n \in 1..delivered' : n <= delivered \/ n \in ids \/ n \in overflowed
       /\ \E state \in RelayStates :
            /\ relay' = [relay EXCEPT ![p] = state]
            /\ state.pc = "send"
            /\ state.unsent = {Rec(n, n \in body) : n \in ids}

LEMMA NoFault ==
  ASSUME TypeOK, faults' = 0, NEW kind
  PROVE  ~Fault(kind)
<1>1. faults \in Nat
  BY DEF TypeOK
<1> QED BY <1>1 DEF Fault

LEMMA StillNoFault ==
  ASSUME TypeOK, [Next]_vars, faults' = 0
  PROVE  faults = 0
<1>1. UNCHANGED faults \/ \E kind : Fault(kind)
  BY DEF Next, vars, RelayStep, TrimStep, Add, Tick, ReadOwn, Claim, ReadNew, Send, SendThrows,
         Land, Drop, Ack, RedisFails, TrimPending, TrimInfo, Trim, Crash, Start, Age, Replied
<1> QED BY <1>1, NoFault

LEMMA RepliedWithoutFault ==
  ASSUME TypeOK, faults' = 0, NEW p, NEW state, Replied(p, state)
  PROVE  relay' = [relay EXCEPT ![p] = state]
BY NoFault DEF Replied

LEMMA RestKeeps ==
  ASSUME TypeOK, InOrder, NEW p \in Procs, NEW state, relay' = [relay EXCEPT ![p] = state],
         state.unsent = {}, UNCHANGED <<topic, wire, delivered>>,
         wire[p] = << >>, relay[p].unsent = {}
  PROVE  Keeps
<1>1. ASSUME NEW q \in Procs
      PROVE  /\ relay'[q].unsent = relay[q].unsent
             /\ relay'[q].pc # "send" => wire[q] = << >> /\ relay[q].unsent = {}
  <2>1. CASE q = p
    <3>1. relay'[p] = state
      BY DEF TypeOK
    <3> QED BY <2>1, <3>1
  <2>2. CASE q # p
    <3>1. relay'[q] = relay[q]
      BY <2>2, UpdateAt
    <3> QED BY <3>1 DEF InOrder, SendsAllOfIt
  <2> QED BY <2>1, <2>2
<1> QED BY <1>1 DEF Keeps

LEMMA PublishingTakes ==
  ASSUME TypeOK, NEW p \in Procs, relay[p].pc \notin {"send", "down"}, UNCHANGED <<topic, wire>>,
         NEW ids \in SUBSET (1..delivered'), delivered' \in Nat,
         \A n \in 1..delivered' : n <= delivered \/ n \in ids \/ n \in overflowed,
         NEW next \in {"idle", "claim", "new"}, NEW room \in Int, NEW cursor \in Nat,
         relay' = [relay EXCEPT ![p] = Publishing(ids, next, room, cursor)]
  PROVE  Takes(p)
<1> DEFINE state == Publishing(ids, next, room, cursor)
<1>1. ids \in SUBSET (Nat \ {0})
  OBVIOUS
<1>2. state \in RelayStates
  BY <1>1, PublishingType
<1>3. state.pc = "send" /\ state.unsent = {Rec(n, n \in body) : n \in ids}
  BY DEF Publishing
<1>4. relay' = [relay EXCEPT ![p] = state]
  OBVIOUS
<1> HIDE DEF state
<1> QED BY <1>2, <1>3, <1>4 DEF Takes

LEMMA SameKeeps ==
  ASSUME TypeOK, InOrder, UNCHANGED <<topic, wire, delivered, relay>>
  PROVE  Keeps
BY DEF Keeps, InOrder, SendsAllOfIt

LEMMA OrderMoves ==
  ASSUME Inv, InOrder, [Next]_vars, faults' = 0
  PROVE  Keeps \/ \E p \in Procs : Takes(p) \/ Send(p) \/ Land(p)
<1> DEFINE Goal == Keeps \/ \E p \in Procs : Takes(p) \/ Send(p) \/ Land(p)
<1>0. TypeOK /\ added \in Nat /\ delivered \in Nat
  BY Monotone DEF Inv, TypeOK
<1>1. ASSUME Add \/ (\E n \in Pending : Age(n)) \/ UNCHANGED vars PROVE Keeps
  BY <1>0, <1>1, SameKeeps DEF Add, Age, vars
<1>2. ASSUME NEW p \in Procs, NEW state, relay' = [relay EXCEPT ![p] = state],
             state.unsent = {}, UNCHANGED <<topic, wire, delivered>>,
             relay[p].pc # "send" \/ Flushed(p)
      PROVE  Keeps
  <2>1. wire[p] = << >> /\ relay[p].unsent = {}
    BY <1>2 DEF InOrder, SendsAllOfIt, Flushed
  <2> QED BY <1>0, <1>2, <2>1, RestKeeps
<1>3. ASSUME NEW p \in Procs, relay[p].pc # "send" PROVE relay[p].unsent = {} /\ relay[p] \in RelayStates
  BY <1>0, <1>3, RestType DEF InOrder, SendsAllOfIt
<1>4. ASSUME NEW p \in Procs, Tick(p) PROVE Keeps
  <2> DEFINE state == [relay[p] EXCEPT !.pc = "own"]
  <2>1. relay[p].pc # "send"
    BY <1>4 DEF Tick
  <2>2. state.unsent = {}
    BY <1>3, <2>1 DEF RelayStates
  <2>3. relay' = [relay EXCEPT ![p] = state] /\ UNCHANGED <<topic, wire, delivered>>
    BY <1>4 DEF Tick
  <2> HIDE DEF state
  <2> QED BY <1>2, <2>1, <2>2, <2>3
<1>5. ASSUME NEW p \in Procs, ReadOwn(p) PROVE Goal
  <2> DEFINE ids == FirstOf(pel[p], BatchSize)
             room == BatchSize - Cardinality(ids)
             next == IF room > 0 THEN "claim" ELSE "new"
             empty == [relay[p] EXCEPT !.pc = "claim", !.room = BatchSize]
             full == Publishing(ids, next, room, relay[p].cursor)
  <2>1. /\ relay[p].pc = "own" /\ Replied(p, IF ids = {} THEN empty ELSE full)
        /\ UNCHANGED <<topic, wire, delivered>>
    BY <1>5 DEF ReadOwn
  <2>2. relay' = [relay EXCEPT ![p] = IF ids = {} THEN empty ELSE full]
    BY <1>0, <2>1, RepliedWithoutFault
  <2>3. empty.unsent = {}
    BY <1>3, <2>1 DEF RelayStates
  <2>4. pel[p] \in SUBSET (1..delivered)
    BY <1>0 DEF TypeOK
  <2>5. ids \in SUBSET (1..delivered)
    <3>1. \A n \in ids : n \in pel[p]
      BY FirstOfSubset
    <3> QED BY <2>4, <3>1
  <2>6. room \in Int /\ relay[p].cursor \in Nat
    <3>1. Cardinality(ids) \in Nat
      BY <1>0, <2>4, FirstOfCount
    <3>2. BatchSize \in Nat
      BY RelayAssumption
    <3>3. relay[p].cursor \in Nat
      BY <1>0, RelayFields
    <3> HIDE DEF ids
    <3> QED BY <3>1, <3>2, <3>3
  <2>7. next \in {"idle", "claim", "new"}
    OBVIOUS
  <2>8. CASE ids = {}
    <3>1. relay' = [relay EXCEPT ![p] = empty]
      BY <2>2, <2>8
    <3> HIDE DEF empty
    <3> QED BY <1>2, <2>1, <2>3, <3>1
  <2>9. CASE ids # {}
    <3>1. relay' = [relay EXCEPT ![p] = full]
      BY <2>2, <2>9
    <3>2. ids \in SUBSET (1..delivered') /\ delivered' \in Nat
          /\ \A n \in 1..delivered' : n <= delivered
      BY <1>0, <2>1, <2>5
    <3> HIDE DEF ids, room, next
    <3>3. Takes(p)
      BY <1>0, <2>1, <2>6, <2>7, <3>1, <3>2, PublishingTakes
    <3> QED BY <3>3
  <2> QED BY <2>8, <2>9
<1>6. ASSUME NEW p \in Procs, Claim(p) PROVE Goal
  <2> DEFINE ahead == {n \in Pending : n >= relay[p].cursor}
             visit == FirstOf({n \in ahead : n \notin body \/ n \in stale}, relay[p].room)
             moved == visit \cap body
  <2>1. PICK c \in NextCursor(p, ahead, visit) :
          Replied(p, IF moved = {} THEN Resting(c, "new") ELSE Publishing(moved, "new", 0, c))
    BY <1>6 DEF Claim
  <2>2. relay[p].pc = "claim" /\ UNCHANGED <<topic, wire, delivered>>
    BY <1>6 DEF Claim
  <2>3. relay' = [relay EXCEPT ![p] = IF moved = {} THEN Resting(c, "new")
                                      ELSE Publishing(moved, "new", 0, c)]
    BY <1>0, <2>1, RepliedWithoutFault
  <2>4. moved \in SUBSET (1..delivered)
    <3>1. \A n \in visit : n \in Pending
      BY FirstOfSubset
    <3>2. Pending \subseteq 1..delivered
      BY <1>0, PendingType
    <3> QED BY <3>1, <3>2
  <2>5. c \in Nat
    <3>1. c = 0 \/ c \in FirstOf({n \in ahead : \A m \in visit : m < n}, 1)
      BY <2>1 DEF NextCursor
    <3>2. c = 0 \/ c \in ahead
      BY <3>1, FirstOfSubset
    <3>3. c = 0 \/ c \in Pending
      BY <3>2
    <3> QED BY <1>0, <3>3, PendingNumbers
  <2> HIDE DEF moved
  <2>6. CASE moved = {}
    <3>1. relay' = [relay EXCEPT ![p] = Resting(c, "new")]
      BY <2>3, <2>6
    <3>2. Resting(c, "new").unsent = {}
      BY DEF Resting
    <3> QED BY <1>2, <2>2, <3>1, <3>2
  <2>7. CASE moved # {}
    <3>1. relay' = [relay EXCEPT ![p] = Publishing(moved, "new", 0, c)]
      BY <2>3, <2>7
    <3>2. moved \in SUBSET (1..delivered') /\ delivered' \in Nat
          /\ \A n \in 1..delivered' : n <= delivered
      BY <1>0, <2>2, <2>4
    <3>3. relay[p].pc \notin {"send", "down"} /\ "new" \in {"idle", "claim", "new"} /\ 0 \in Int
      BY <2>2
    <3>4. \A n \in 1..delivered' : n <= delivered \/ n \in moved \/ n \in overflowed
      BY <3>2
    <3>5. Takes(p)
      BY <1>0, <2>2, <2>5, <3>1, <3>2, <3>3, <3>4, PublishingTakes
    <3> QED BY <3>5
  <2> QED BY <2>6, <2>7
<1>7. ASSUME NEW p \in Procs, ReadNew(p) PROVE Goal
  <2> DEFINE ids == FirstOf({n \in body : n > delivered}, BatchSize)
  <2>1. relay[p].pc = "new" /\ UNCHANGED <<topic, wire, body>>
    BY <1>7 DEF ReadNew
  <2>2. CASE relay' = [relay EXCEPT ![p] = Rest(p)] /\ UNCHANGED delivered
    <3>1. Rest(p).unsent = {}
      BY DEF Rest, Resting
    <3> QED BY <1>2, <2>1, <2>2, <3>1
  <2>3. CASE \E last \in ids :
               /\ \A n \in ids : n <= last
               /\ delivered' = last /\ Replied(p, Publishing(ids, "new", 0, relay[p].cursor))
    <3>1. relay' = [relay EXCEPT ![p] = Publishing(ids, "new", 0, relay[p].cursor)]
      BY <1>0, <2>3, RepliedWithoutFault
    <3>2. delivered' \in ids /\ \A n \in ids : n <= delivered'
      BY <2>3
    <3>3. body \in SUBSET (1..added)
      BY <1>0 DEF TypeOK
    <3>4. \A n \in ids : n \in body /\ n > delivered
      <4>1. \A n \in ids : n \in {k \in body : k > delivered}
        BY FirstOfSubset
      <4> QED BY <4>1
    <3>5. delivered' \in 1..added /\ delivered < delivered'
      BY <3>2, <3>3, <3>4
    <3>6. ASSUME NEW n \in 1..delivered', n > delivered, n \in body PROVE n \in ids
      <4> DEFINE fresh == {k \in body : k > delivered}
      <4>0. fresh \in SUBSET (1..added)
        BY <3>3
      <4>1. n \in fresh
        BY <3>6
      <4>4. n <= delivered'
        BY <1>0, <3>5
      <4>2. BatchSize \in Int /\ delivered' \in FirstOf(fresh, BatchSize)
        BY <3>2, RelayAssumption
      <4> HIDE DEF fresh
      <4>3. n \in FirstOf(fresh, BatchSize)
        BY <1>0, <4>0, <4>1, <4>2, <4>4, FirstOfClosed
      <4> QED BY <4>3 DEF fresh
    <3>7. ids \in SUBSET (1..delivered')
      <4>1. \A n \in ids : n \in 1..added /\ n <= delivered'
        BY <3>2, <3>3, <3>4
      <4> HIDE DEF ids
      <4> QED BY <1>0, <3>5, <4>1
    <3>8. ASSUME NEW n \in 1..delivered' PROVE n <= delivered \/ n \in ids \/ n \in overflowed
      <4>1. n \in 1..added
        BY <1>0, <3>5
      <4>2. n > delivered => n \in body \cup overflowed
        BY <4>1 DEF Inv, Accounted
      <4>3. n <= delivered \/ n > delivered
        BY <1>0, <4>1
      <4> HIDE DEF ids
      <4> QED BY <3>6, <4>2, <4>3
    <3>9. relay[p].pc \notin {"send", "down"} /\ "new" \in {"idle", "claim", "new"} /\ 0 \in Int
      BY <2>1
    <3>10. relay[p].cursor \in Nat /\ delivered' \in Nat
      BY <1>0, <3>5, RelayFields
    <3> HIDE DEF ids
    <3>11. Takes(p)
      BY <1>0, <2>1, <3>1, <3>7, <3>8, <3>9, <3>10, PublishingTakes
    <3> QED BY <3>11
  <2> QED BY <1>7, <2>2, <2>3 DEF ReadNew
<1>8. ASSUME NEW p \in Procs, Ack(p) PROVE Keeps
  <2> DEFINE state == [Resting(relay[p].cursor, relay[p].next) EXCEPT !.room = relay[p].room]
  <2>1. Flushed(p) /\ Replied(p, state) /\ UNCHANGED <<topic, wire, delivered>>
    BY <1>8 DEF Ack
  <2>2. relay' = [relay EXCEPT ![p] = state]
    BY <1>0, <2>1, RepliedWithoutFault
  <2>3. state.unsent = {}
    BY DEF Resting
  <2> HIDE DEF state
  <2> QED BY <1>2, <2>1, <2>2, <2>3
<1>9. ASSUME NEW p \in Procs, SendThrows(p) \/ Drop(p) \/ Crash(p) PROVE FALSE
  BY <1>0, <1>9, NoFault DEF SendThrows, Drop, Crash
<1>10. ASSUME NEW p \in Procs, RedisFails(p) PROVE Keeps
  <2>1. /\ relay' = [relay EXCEPT ![p] = Rest(p)] /\ UNCHANGED <<topic, wire, delivered>>
        /\ relay[p].pc # "send" \/ Flushed(p)
    BY <1>10 DEF RedisFails, stream
  <2>2. Rest(p).unsent = {}
    BY DEF Rest, Resting
  <2> QED BY <1>2, <2>1, <2>2
<1>11. ASSUME NEW p \in Procs, NEW pc, NEW mark, relay[p].pc # "send",
              relay' = [relay EXCEPT ![p] = [relay[p] EXCEPT !.pc = pc, !.mark = mark]],
              UNCHANGED <<topic, wire, delivered>>
       PROVE  Keeps
  <2> DEFINE state == [relay[p] EXCEPT !.pc = pc, !.mark = mark]
  <2>1. state.unsent = {}
    BY <1>3, <1>11 DEF RelayStates
  <2>2. relay' = [relay EXCEPT ![p] = state]
    BY <1>11
  <2> HIDE DEF state
  <2> QED BY <1>2, <1>11, <2>1, <2>2
<1>12. ASSUME NEW p \in Procs, NEW pc, relay[p].pc # "send",
              relay' = [relay EXCEPT ![p] = [relay[p] EXCEPT !.pc = pc]],
              UNCHANGED <<topic, wire, delivered>>
       PROVE  Keeps
  <2> DEFINE state == [relay[p] EXCEPT !.pc = pc]
  <2>1. state.unsent = {}
    BY <1>3, <1>12 DEF RelayStates
  <2>2. relay' = [relay EXCEPT ![p] = state]
    BY <1>12
  <2> HIDE DEF state
  <2> QED BY <1>2, <1>12, <2>1, <2>2
<1>13. ASSUME NEW p \in Procs, TrimPending(p) PROVE Keeps
  BY <1>11, <1>12, <1>13 DEF TrimPending, stream
<1>14. ASSUME NEW p \in Procs, TrimInfo(p) PROVE Keeps
  BY <1>11, <1>14 DEF TrimInfo, stream
<1>15. ASSUME NEW p \in Procs, Trim(p) PROVE Keeps
  <2>1. Replied(p, Rest(p)) /\ relay[p].pc # "send" /\ UNCHANGED <<topic, wire, delivered>>
    BY <1>15 DEF Trim
  <2>2. relay' = [relay EXCEPT ![p] = Rest(p)]
    BY <1>0, <2>1, RepliedWithoutFault
  <2>3. Rest(p).unsent = {}
    BY DEF Rest, Resting
  <2> QED BY <1>2, <2>1, <2>2, <2>3
<1>16. ASSUME NEW p \in Procs, Start(p) PROVE Keeps
  BY <1>12, <1>16 DEF Start, Up, stream
<1> HIDE DEF Goal
<1>17. ASSUME NEW p \in Procs, Send(p) \/ Land(p) PROVE Goal
  BY <1>17 DEF Goal
<1>18. Keeps => Goal
  BY DEF Goal
<1>19. Goal
  BY <1>1, <1>4, <1>5, <1>6, <1>7, <1>8, <1>9, <1>10, <1>13, <1>14, <1>15, <1>16, <1>17, <1>18
     DEF Next, RelayStep, TrimStep
<1> QED BY <1>19 DEF Goal

LEMMA GoneStays ==
  ASSUME TypeOK, [Next]_vars, NEW n, Gone(n)
  PROVE  Gone(n)'
<1>1. CASE n \in overflowed
  BY <1>1, Monotone DEF Gone
<1>2. CASE \E j \in DOMAIN topic : topic[j].id = n
  <2>1. CASE UNCHANGED topic
    BY <1>2, <2>1 DEF Gone
  <2>2. ASSUME NEW p \in Procs, Land(p) PROVE Gone(n)'
    <3>1. Head(wire[p]).rec \in Records /\ topic' = Append(topic, Head(wire[p]).rec)
      BY <2>2, LandTopic
    <3>2. topic \in Seq(Records) /\ Len(topic) \in Nat /\ DOMAIN topic = 1..Len(topic)
      BY LenProperties DEF TypeOK
    <3>3. DOMAIN topic' = 1..(Len(topic) + 1) /\ \A j \in 1..Len(topic) : topic'[j] = topic[j]
      BY <3>1, <3>2, AppendProperties, LenProperties
    <3>4. PICK j \in 1..Len(topic) : topic[j].id = n
      BY <1>2, <3>2
    <3>5. j \in DOMAIN topic' /\ topic'[j].id = n
      BY <3>2, <3>3, <3>4
    <3> QED BY <3>5 DEF Gone
  <2>3. UNCHANGED topic \/ \E p \in Procs : Land(p)
    BY DEF Next, vars, RelayStep, TrimStep, Add, Tick, ReadOwn, Claim, ReadNew, Send, SendThrows,
           Drop, Ack, RedisFails, TrimPending, TrimInfo, Trim, Crash, Start, Age
  <2> QED BY <2>1, <2>2, <2>3
<1> QED BY <1>1, <1>2 DEF Gone

LEMMA CopiesKept ==
  ASSUME TypeOK, FirstCopiesInOrder, [Next]_vars, UNCHANGED topic
  PROVE  FirstCopiesInOrder'
BY Monotone DEF FirstCopiesInOrder

LEMMA KeepsOrder ==
  ASSUME TypeOK, InOrder, [Next]_vars, Keeps
  PROVE  InOrder'
<1>1. /\ topic' = topic /\ wire' = wire /\ delivered' = delivered
      /\ \A q \in Procs : relay'[q].unsent = relay[q].unsent
  BY DEF Keeps
<1>2. FirstCopiesInOrder'
  BY <1>1, CopiesKept DEF InOrder
<1>3. ASSUME NEW p \in Procs, NEW n, NEW i
      PROVE  (Buffered(p, n, i) => Buffered(p, n, i)') /\ (OnItsWay(p, n) => OnItsWay(p, n)')
  BY <1>1 DEF OnItsWay, Buffered, Unsent
<1>4. ASSUME NEW p \in Procs PROVE SendsAllOfIt(p)'
  BY <1>1 DEF Keeps, SendsAllOfIt
<1>5. ASSUME NEW p \in Procs PROVE BufferInOrder(p)'
  <2>1. BufferInOrder(p)
    BY DEF InOrder
  <2>2. ASSUME NEW i \in 1..Len(wire[p]), NEW n \in 1..wire[p][i].rec.id
        PROVE  Gone(n)' \/ Buffered(p, n, i)'
    BY <1>3, <2>1, GoneStays DEF BufferInOrder
  <2> QED BY <1>1, <2>2 DEF BufferInOrder
<1>6. ASSUME NEW p \in Procs PROVE BatchInOrder(p)'
  <2>1. BatchInOrder(p)
    BY DEF InOrder
  <2>2. ASSUME NEW r \in relay[p].unsent, NEW n \in 1..r.id
        PROVE  Gone(n)' \/ OnItsWay(p, n)'
    BY <1>3, <2>1, GoneStays DEF BatchInOrder
  <2> QED BY <1>1, <2>2 DEF BatchInOrder
<1>7. ASSUME NEW n \in 1..delivered PROVE Gone(n)' \/ \E p \in Procs : OnItsWay(p, n)'
  BY <1>3, GoneStays DEF InOrder
<1> QED BY <1>1, <1>2, <1>4, <1>5, <1>6, <1>7 DEF InOrder

(* Nothing is on its way when the one process that is up reads: all that   *)
(* was delivered has reached the topic, or was cut.                        *)
LEMMA TakesOrder ==
  ASSUME Inv, InOrder, ~Overlap, [Next]_vars, NEW p \in Procs, Takes(p)
  PROVE  InOrder'
<1>0. TypeOK /\ delivered \in Nat /\ delivered' \in Nat
  BY Monotone DEF Inv
<1>1. PICK ids \in SUBSET (1..delivered') :
        /\ \A n \in 1..delivered' : n <= delivered \/ n \in ids \/ n \in overflowed
        /\ \E state \in RelayStates :
             /\ relay' = [relay EXCEPT ![p] = state]
             /\ state.pc = "send"
             /\ state.unsent = {Rec(n, n \in body) : n \in ids}
  BY DEF Takes
<1>2. /\ relay'[p].pc = "send" /\ relay'[p].unsent = {Rec(n, n \in body) : n \in ids}
      /\ \A q \in Procs : q # p => relay'[q] = relay[q]
  BY <1>0, <1>1 DEF TypeOK
<1>3. topic' = topic /\ wire' = wire /\ relay[p].pc \notin {"send", "down"}
  BY DEF Takes
<1>4. ASSUME NEW q \in Procs PROVE wire[q] = << >> /\ relay[q].unsent = {}
  <2>1. q # p => relay[q].pc = "down"
    BY <1>3 DEF Inv, TrimAlone, Up
  <2> QED BY <1>3, <2>1 DEF InOrder, SendsAllOfIt
<1>5. ASSUME NEW n \in 1..delivered PROVE Gone(n)'
  <2>1. ~\E q \in Procs : OnItsWay(q, n)
    <3>1. ASSUME NEW q \in Procs PROVE ~OnItsWay(q, n)
      <4>1. Len(wire[q]) = 0 /\ 1..0 = {}
        BY <1>4
      <4> QED BY <1>4, <4>1 DEF OnItsWay, Buffered, Unsent
    <3> QED BY <3>1
  <2> QED BY <1>0, <2>1, GoneStays DEF InOrder
<1>6. ASSUME NEW n \in 1..delivered' PROVE Gone(n)' \/ Unsent(p, n)'
  <2>1. CASE n <= delivered
    <3>1. n \in 1..delivered
      BY <1>0, <2>1
    <3> QED BY <1>5, <3>1
  <2>2. CASE n \in ids
    <3>1. Rec(n, n \in body) \in relay'[p].unsent /\ Rec(n, n \in body).id = n
      BY <1>2, <2>2 DEF Rec
    <3> QED BY <3>1 DEF Unsent
  <2>3. CASE n \in overflowed
    BY <1>0, <2>3, Monotone DEF Gone
  <2> QED BY <1>1, <2>1, <2>2, <2>3
<1>7. FirstCopiesInOrder'
  BY <1>0, <1>3, CopiesKept DEF InOrder
<1>8. ASSUME NEW q \in Procs PROVE SendsAllOfIt(q)' /\ BufferInOrder(q)'
  <2>1. wire'[q] = << >> /\ Len(wire'[q]) = 0 /\ 1..0 = {}
    BY <1>3, <1>4
  <2>2. q = p \/ relay'[q].unsent = {}
    BY <1>2, <1>4
  <2> QED BY <1>2, <2>1, <2>2 DEF SendsAllOfIt, BufferInOrder
<1>9. ASSUME NEW q \in Procs PROVE BatchInOrder(q)'
  <2>1. CASE q # p
    BY <1>2, <1>4, <2>1 DEF BatchInOrder
  <2>2. CASE q = p
    <3>1. ASSUME NEW r \in relay'[p].unsent, NEW n \in 1..r.id PROVE n \in 1..delivered'
      <4>1. r.id \in ids
        BY <1>2, <3>1 DEF Rec
      <4>2. r.id \in 1..delivered'
        BY <4>1
      <4> QED BY <1>0, <3>1, <4>2
    <3>2. \A r \in relay'[p].unsent : \A n \in 1..r.id : Gone(n)' \/ Unsent(p, n)'
      BY <1>6, <3>1
    <3> QED BY <2>2, <3>2 DEF BatchInOrder, OnItsWay
  <2> QED BY <2>1, <2>2
<1>10. \A n \in 1..delivered' : Gone(n)' \/ \E q \in Procs : OnItsWay(q, n)'
  BY <1>6 DEF OnItsWay
<1> QED BY <1>7, <1>8, <1>9, <1>10 DEF InOrder

(* The first unsent record joins the end of the buffer. *)
LEMMA SendOrder ==
  ASSUME Inv, InOrder, [Next]_vars, NEW p \in Procs, Send(p)
  PROVE  InOrder'
<1>0. TypeOK
  BY DEF Inv
<1>1. PICK r \in relay[p].unsent :
        /\ \A s \in relay[p].unsent : r.id <= s.id
        /\ wire' = [wire EXCEPT ![p] = Append(@, [rec |-> r, own |-> TRUE])]
        /\ relay' = [relay EXCEPT ![p].unsent = @ \ {r}]
  BY DEF Send
<1>2. /\ relay[p].pc = "send" /\ topic' = topic /\ delivered' = delivered
      /\ relay[p] \in RelayStates /\ relay[p].unsent \in SUBSET Records
  BY <1>0, RestType, RelayFields DEF Send, stream
<1>3. /\ relay'[p].pc = "send" /\ relay'[p].unsent = relay[p].unsent \ {r}
      /\ \A q \in Procs : q # p => relay'[q] = relay[q] /\ wire'[q] = wire[q]
  BY <1>0, <1>1, <1>2 DEF TypeOK, RelayStates
<1> DEFINE last == Len(wire[p])
<1>4. /\ last \in Nat /\ Len(wire'[p]) = last + 1
      /\ \A i \in 1..last : wire'[p][i] = wire[p][i]
      /\ wire'[p][last + 1].rec = r
  <2>1. wire[p] \in Seq(Wired) /\ wire'[p] = Append(wire[p], [rec |-> r, own |-> TRUE])
    BY <1>0, <1>1 DEF TypeOK, Wired
  <2>2. [rec |-> r, own |-> TRUE] \in Wired
    BY <1>2 DEF Wired
  <2> QED BY <2>1, <2>2, AppendProperties, LenProperties
<1>5. r.id \in Nat /\ \A s \in relay[p].unsent : s.id \in Nat
  BY <1>2 DEF Records
<1> HIDE DEF last
<1>6. ASSUME NEW n, NEW i \in 0..last, Buffered(p, n, i)
      PROVE  \E j \in 1..i : wire'[p][j].rec.id = n
  <2>1. PICK j \in 1..i : wire[p][j].rec.id = n
    BY <1>6 DEF Buffered
  <2>2. j \in 1..last
    BY <1>4, <1>6, <2>1
  <2> QED BY <1>4, <2>1, <2>2
<1>7. ASSUME NEW n, OnItsWay(p, n) PROVE OnItsWay(p, n)'
  <2>1. CASE Buffered(p, n, last)
    <3>1. PICK j \in 1..last : wire'[p][j].rec.id = n
      BY <1>4, <1>6, <2>1
    <3>2. j \in 1..(last + 1)
      BY <1>4, <3>1
    <3> QED BY <1>4, <3>1, <3>2 DEF OnItsWay, Buffered
  <2>2. CASE Unsent(p, n)
    <3>1. PICK s \in relay[p].unsent : s.id = n
      BY <2>2 DEF Unsent
    <3>2. CASE s = r
      <4>1. last + 1 \in 1..(last + 1)
        BY <1>4
      <4> QED BY <1>4, <3>1, <3>2, <4>1 DEF OnItsWay, Buffered
    <3>3. CASE s # r
      <4>1. s \in relay'[p].unsent
        BY <1>3, <3>1, <3>3
      <4> QED BY <3>1, <4>1 DEF OnItsWay, Unsent
    <3> QED BY <3>2, <3>3
  <2> QED BY <1>7, <2>1, <2>2 DEF OnItsWay, last
<1>8. ASSUME NEW q \in Procs, NEW n, OnItsWay(q, n) PROVE OnItsWay(q, n)'
  <2>1. CASE q = p
    BY <1>7, <1>8, <2>1
  <2>2. CASE q # p
    BY <1>3, <1>8, <2>2 DEF OnItsWay, Buffered, Unsent
  <2> QED BY <2>1, <2>2
<1>9. FirstCopiesInOrder'
  BY <1>0, <1>2, CopiesKept DEF InOrder
<1>10. ASSUME NEW q \in Procs PROVE SendsAllOfIt(q)'
  BY <1>3 DEF InOrder, SendsAllOfIt
<1>11. ASSUME NEW i \in 1..(last + 1), NEW n \in 1..wire'[p][i].rec.id
       PROVE  Gone(n)' \/ \E j \in 1..i : wire'[p][j].rec.id = n
  <2>1. CASE i \in 1..last
    <3>1. BufferInOrder(p) /\ wire'[p][i] = wire[p][i]
      BY <1>4, <2>1 DEF InOrder
    <3>2. Gone(n) \/ Buffered(p, n, i)
      BY <1>11, <2>1, <3>1 DEF BufferInOrder, last
    <3>3. i \in 0..last
      BY <1>4, <2>1
    <3> QED BY <1>0, <1>6, <3>2, <3>3, GoneStays
  <2>2. CASE i = last + 1
    <3>1. n \in 1..r.id
      BY <1>4, <1>11, <2>2
    <3>2. Gone(n) \/ OnItsWay(p, n)
      BY <3>1 DEF InOrder, BatchInOrder
    <3>3. CASE Buffered(p, n, last)
      <4>1. last \in 0..last
        BY <1>4
      <4>2. PICK j \in 1..last : wire'[p][j].rec.id = n
        BY <1>6, <3>3, <4>1
      <4>3. j \in 1..i
        BY <1>4, <2>2, <4>2
      <4> QED BY <4>2, <4>3
    <3>4. CASE Unsent(p, n)
      <4>1. PICK s \in relay[p].unsent : s.id = n
        BY <3>4 DEF Unsent
      <4>2. r.id <= s.id
        BY <1>1
      <4>3. n = r.id
        BY <1>5, <3>1, <4>1, <4>2
      <4>4. i \in 1..i /\ wire'[p][i].rec.id = n
        BY <1>4, <2>2, <4>3
      <4> QED BY <4>4
    <3> QED BY <1>0, <3>2, <3>3, <3>4, GoneStays DEF OnItsWay, last
  <2>3. i \in 1..last \/ i = last + 1
    BY <1>4, <1>11
  <2> QED BY <2>1, <2>2, <2>3
<1>12. ASSUME NEW q \in Procs PROVE BufferInOrder(q)'
  <2>1. CASE q = p
    BY <1>4, <1>11, <2>1 DEF BufferInOrder, Buffered
  <2>2. CASE q # p
    <3>1. BufferInOrder(q) /\ wire'[q] = wire[q]
      BY <1>3, <2>2 DEF InOrder
    <3>2. ASSUME NEW i \in 1..Len(wire[q]), NEW n \in 1..wire[q][i].rec.id
          PROVE  Gone(n)' \/ Buffered(q, n, i)'
      BY <1>0, <3>1, GoneStays DEF BufferInOrder, Buffered
    <3> QED BY <3>1, <3>2 DEF BufferInOrder
  <2> QED BY <2>1, <2>2
<1>13. ASSUME NEW q \in Procs PROVE BatchInOrder(q)'
  <2>1. relay'[q].unsent \subseteq relay[q].unsent
    BY <1>3
  <2>2. ASSUME NEW s \in relay[q].unsent, NEW n \in 1..s.id PROVE Gone(n)' \/ OnItsWay(q, n)'
    BY <1>0, <1>8, GoneStays DEF InOrder, BatchInOrder
  <2> QED BY <2>1, <2>2 DEF BatchInOrder
<1>14. ASSUME NEW n \in 1..delivered PROVE Gone(n)' \/ \E q \in Procs : OnItsWay(q, n)'
  BY <1>0, <1>8, GoneStays DEF InOrder
<1> QED BY <1>2, <1>9, <1>10, <1>12, <1>13, <1>14 DEF InOrder

(* The head of the buffer becomes the end of the topic. *)
LEMMA LandOrder ==
  ASSUME Inv, InOrder, [Next]_vars, NEW p \in Procs, Land(p)
  PROVE  InOrder'
<1>0. TypeOK
  BY DEF Inv
<1> DEFINE head == Head(wire[p]).rec
           last == Len(topic)
           rest == Len(wire'[p])
<1>1. /\ wire[p] \in Seq(Wired) /\ wire[p] # << >> /\ head \in Records
      /\ topic' = Append(topic, head) /\ delivered' = delivered
  BY <1>0, LandTopic DEF Land, stream
<1>2. /\ last \in Nat /\ DOMAIN topic' = 1..(last + 1) /\ DOMAIN topic = 1..last
      /\ topic'[last + 1] = head /\ \A i \in 1..last : topic'[i] = topic[i]
  <2>1. topic \in Seq(Records)
    BY <1>0 DEF TypeOK
  <2> HIDE DEF head
  <2> QED BY <1>1, <2>1, AppendProperties, LenProperties
<1>3. /\ rest \in Nat /\ Len(wire[p]) = rest + 1
      /\ wire[p][1].rec = head
      /\ \A i \in 1..rest : wire'[p][i] = wire[p][i + 1]
  <2>1. wire'[p] = Tail(wire[p])
    BY <1>0 DEF Land, TypeOK
  <2>2. Head(wire[p]) = wire[p][1]
    BY <1>1, HeadTailProperties
  <2>3. /\ Tail(wire[p]) \in Seq(Wired) /\ Len(Tail(wire[p])) = Len(wire[p]) - 1
        /\ \A i \in 1..Len(Tail(wire[p])) : Tail(wire[p])[i] = wire[p][i + 1]
    BY <1>1, HeadTailProperties
  <2>4. Len(wire[p]) \in Nat /\ rest \in Nat
    BY <1>1, <2>1, <2>3, LenProperties
  <2> QED BY <2>1, <2>2, <2>3, <2>4
<1>4. \A q \in Procs : q # p => wire'[q] = wire[q]
  BY <1>0 DEF Land, TypeOK
<1>5. ASSUME NEW q \in Procs
      PROVE  relay'[q].unsent = relay[q].unsent /\ relay'[q].pc = relay[q].pc
  <2>1. relay' = relay \/ relay' = [relay EXCEPT ![p].good = @ \cup {head.id}]
    BY DEF Land
  <2>2. relay[p] \in RelayStates
    BY <1>0, RestType
  <2>3. CASE q # p
    BY <1>0, <2>1, <2>3 DEF TypeOK
  <2>4. CASE q = p
    <3>1. relay'[p] = relay[p] \/ relay'[p] = [relay[p] EXCEPT !.good = @ \cup {head.id}]
      BY <1>0, <2>1 DEF TypeOK
    <3> HIDE DEF head
    <3> QED BY <2>2, <2>4, <3>1 DEF RelayStates
  <2> QED BY <2>3, <2>4
<1>6. head.id \in Nat /\ \A n : n = head.id => Gone(n)'
  <2>1. last + 1 \in DOMAIN topic' /\ topic'[last + 1].id = head.id
    <3>1. last + 1 \in 1..(last + 1)
      BY <1>2
    <3> QED BY <1>2, <3>1
  <2>2. head.id \in Nat
    BY <1>1 DEF Records
  <2> HIDE DEF head
  <2> QED BY <2>1, <2>2 DEF Gone
<1> HIDE DEF head, last, rest
<1>7. ASSUME NEW i \in 1..(rest + 1), NEW n, Buffered(p, n, i)
      PROVE  n = head.id \/ \E j \in 1..(i - 1) : wire'[p][j].rec.id = n
  <2>1. PICK j \in 1..i : wire[p][j].rec.id = n
    BY <1>7 DEF Buffered
  <2>2. CASE j = 1
    BY <1>3, <2>1, <2>2
  <2>3. CASE j # 1
    <3>1. j - 1 \in 1..(i - 1) /\ j - 1 \in 1..rest /\ (j - 1) + 1 = j
      BY <1>3, <2>1, <2>3
    <3>2. wire'[p][j - 1] = wire[p][j]
      BY <1>3, <3>1
    <3> QED BY <2>1, <3>1, <3>2
  <2> QED BY <2>2, <2>3
<1>8. ASSUME NEW q \in Procs, NEW n, OnItsWay(q, n) PROVE Gone(n)' \/ OnItsWay(q, n)'
  <2>1. CASE q # p
    BY <1>4, <1>5, <1>8, <2>1 DEF OnItsWay, Buffered, Unsent
  <2>2. CASE q = p
    <3>1. CASE Unsent(p, n)
      BY <1>5, <2>2, <3>1 DEF OnItsWay, Unsent
    <3>2. CASE Buffered(p, n, rest + 1)
      <4>1. rest + 1 \in 1..(rest + 1) /\ (rest + 1) - 1 = rest
        BY <1>3
      <4>2. n = head.id \/ \E j \in 1..rest : wire'[p][j].rec.id = n
        BY <1>7, <3>2, <4>1
      <4> QED BY <1>6, <2>2, <4>2 DEF OnItsWay, Buffered, rest
    <3> QED BY <1>3, <1>8, <2>2, <3>1, <3>2 DEF OnItsWay
  <2> QED BY <2>1, <2>2
<1>9. FirstCopiesInOrder'
  <2>1. ASSUME NEW i \in 1..(last + 1), NEW n \in 1..topic'[i].id
        PROVE  n \in overflowed' \/ \E j \in 1..i : topic'[j].id = n
    <3>1. CASE i \in 1..last
      <4>1. n \in 1..topic[i].id /\ \A j \in 1..i : j \in 1..last
        BY <1>2, <2>1, <3>1
      <4>2. n \in overflowed \/ \E j \in 1..i : topic[j].id = n
        BY <1>2, <3>1, <4>1 DEF InOrder, FirstCopiesInOrder
      <4> QED BY <1>0, <1>2, <4>1, <4>2, Monotone
    <3>2. CASE i = last + 1
      <4>1. n \in 1..wire[p][1].rec.id /\ 1 \in 1..Len(wire[p])
        BY <1>2, <1>3, <2>1, <3>2
      <4>2. Gone(n) \/ Buffered(p, n, 1)
        BY <4>1 DEF InOrder, BufferInOrder
      <4>3. CASE Buffered(p, n, 1)
        <5>1. n = head.id
          <6>1. \A j \in 1..1 : j = 1
            OBVIOUS
          <6> QED BY <1>3, <4>3, <6>1 DEF Buffered
        <5>2. i \in 1..i /\ topic'[i].id = n
          BY <1>2, <3>2, <5>1
        <5> QED BY <5>2
      <4>4. CASE Gone(n)
        <5>1. CASE n \in overflowed
          BY <1>0, <5>1, Monotone
        <5>2. CASE \E j \in 1..last : topic[j].id = n
          <6>1. PICK j \in 1..last : topic[j].id = n
            BY <5>2
          <6>2. j \in 1..i /\ topic'[j].id = n
            BY <1>2, <3>2, <6>1
          <6> QED BY <6>2
        <5> QED BY <1>2, <4>4, <5>1, <5>2 DEF Gone
      <4> QED BY <4>2, <4>3, <4>4
    <3>3. i \in 1..last \/ i = last + 1
      BY <1>2, <2>1
    <3> QED BY <3>1, <3>2, <3>3
  <2> QED BY <1>2, <2>1 DEF FirstCopiesInOrder
<1>10. ASSUME NEW q \in Procs PROVE SendsAllOfIt(q)'
  <2>1. relay[q].pc = "send" \/ wire[q] = << >>
    BY DEF InOrder, SendsAllOfIt
  <2>2. q = p => relay[q].pc = "send"
    BY <1>1, <2>1
  <2> QED BY <1>4, <1>5, <2>2 DEF InOrder, SendsAllOfIt
<1>11. ASSUME NEW q \in Procs PROVE BufferInOrder(q)'
  <2>1. CASE q # p
    <3>1. BufferInOrder(q) /\ wire'[q] = wire[q]
      BY <1>4, <2>1 DEF InOrder
    <3>2. ASSUME NEW i \in 1..Len(wire[q]), NEW n \in 1..wire[q][i].rec.id
          PROVE  Gone(n)' \/ Buffered(q, n, i)'
      BY <1>0, <3>1, GoneStays DEF BufferInOrder, Buffered
    <3> QED BY <3>1, <3>2 DEF BufferInOrder
  <2>2. CASE q = p
    <3>1. ASSUME NEW i \in 1..rest, NEW n \in 1..wire'[p][i].rec.id
          PROVE  Gone(n)' \/ \E j \in 1..i : wire'[p][j].rec.id = n
      <4>1. /\ i + 1 \in 1..Len(wire[p]) /\ i + 1 \in 1..(rest + 1) /\ (i + 1) - 1 = i
            /\ n \in 1..wire[p][i + 1].rec.id
        BY <1>3, <3>1
      <4>2. Gone(n) \/ Buffered(p, n, i + 1)
        BY <4>1 DEF InOrder, BufferInOrder
      <4>3. CASE Buffered(p, n, i + 1)
        BY <1>6, <1>7, <4>1, <4>3
      <4> QED BY <1>0, <4>2, <4>3, GoneStays
    <3> QED BY <2>2, <3>1 DEF BufferInOrder, Buffered, rest
  <2> QED BY <2>1, <2>2
<1>12. ASSUME NEW q \in Procs PROVE BatchInOrder(q)'
  <2>1. ASSUME NEW s \in relay[q].unsent, NEW n \in 1..s.id PROVE Gone(n)' \/ OnItsWay(q, n)'
    BY <1>0, <1>8, GoneStays DEF InOrder, BatchInOrder
  <2> QED BY <1>5, <2>1 DEF BatchInOrder
<1>13. ASSUME NEW n \in 1..delivered PROVE Gone(n)' \/ \E q \in Procs : OnItsWay(q, n)'
  BY <1>0, <1>8, GoneStays DEF InOrder
<1> QED BY <1>1, <1>9, <1>10, <1>11, <1>12, <1>13 DEF InOrder

LEMMA OrderlyInductive == Inv /\ Orderly /\ [Next]_vars => Orderly'
<1> SUFFICES ASSUME Inv, Orderly, [Next]_vars, faults' = 0, ~Overlap PROVE InOrder'
  BY DEF Orderly
<1>1. TypeOK
  BY DEF Inv
<1>2. InOrder
  BY <1>1, StillNoFault DEF Orderly
<1>3. Keeps \/ \E p \in Procs : Takes(p) \/ Send(p) \/ Land(p)
  BY <1>2, OrderMoves
<1> QED BY <1>1, <1>2, <1>3, KeepsOrder, TakesOrder, SendOrder, LandOrder

LEMMA OrderlyInitially == Init => Orderly
<1> SUFFICES ASSUME Init PROVE InOrder
  BY DEF Orderly
<1>1. topic = << >> /\ delivered = 0 /\ DOMAIN topic = {} /\ 1..0 = {}
  BY DEF Init
<1>2. \A p \in Procs : wire[p] = << >> /\ Len(wire[p]) = 0 /\ relay[p].unsent = {}
  BY DEF Init, Resting
<1> QED BY <1>1, <1>2 DEF InOrder, FirstCopiesInOrder, SendsAllOfIt, BufferInOrder, BatchInOrder

(* Only delivered entries are on the topic. *)
TopicDelivered == \A i \in DOMAIN topic : topic[i].id <= delivered

LEMMA TopicInductive == Inv /\ TopicDelivered /\ [Next]_vars => TopicDelivered'
<1> SUFFICES ASSUME Inv, TopicDelivered, [Next]_vars PROVE TopicDelivered'
  OBVIOUS
<1>1. TypeOK /\ topic \in Seq(Records) /\ delivered \in Nat /\ delivered' \in Nat /\ delivered <= delivered'
  BY Monotone DEF Inv, TypeOK
<1>2. ASSUME NEW r \in Records, r.id <= delivered PROVE r.id <= delivered'
  BY <1>1, <1>2 DEF Records
<1>3. Len(topic) \in Nat /\ DOMAIN topic = 1..Len(topic) /\ \A i \in 1..Len(topic) : topic[i] \in Records
  BY <1>1, LenProperties, ElementOfSeq
<1>4. CASE UNCHANGED topic
  BY <1>2, <1>3, <1>4 DEF TopicDelivered
<1>5. ASSUME NEW p \in Procs, Land(p) PROVE TopicDelivered'
  <2> DEFINE head == Head(wire[p]).rec
  <2>1. wire[p] \in Seq(Wired) /\ wire[p] # << >> /\ head \in Records /\ topic' = Append(topic, head)
    BY <1>1, <1>5, LandTopic
  <2>2. Head(wire[p]) = wire[p][1] /\ 1 \in DOMAIN wire[p]
    BY <2>1, HeadTailProperties, LenProperties, EmptySeq
  <2>3. head.id <= delivered
    BY <2>2 DEF Inv, RecordsFaithful, Faithful
  <2> HIDE DEF head
  <2>4. /\ DOMAIN topic' = 1..(Len(topic) + 1) /\ topic'[Len(topic) + 1] = head
        /\ \A i \in 1..Len(topic) : topic'[i] = topic[i]
    BY <1>1, <2>1, AppendProperties, LenProperties
  <2>5. ASSUME NEW i \in 1..(Len(topic) + 1) PROVE topic'[i].id <= delivered'
    <3>1. CASE i \in 1..Len(topic)
      BY <1>2, <1>3, <2>4, <3>1 DEF TopicDelivered
    <3>2. CASE i = Len(topic) + 1
      BY <1>2, <2>1, <2>3, <2>4, <3>2
    <3> QED BY <1>3, <3>1, <3>2
  <2> QED BY <2>4, <2>5 DEF TopicDelivered
<1>6. UNCHANGED topic \/ \E p \in Procs : Land(p)
  BY DEF Next, vars, RelayStep, TrimStep, Add, Tick, ReadOwn, Claim, ReadNew, Send, SendThrows,
         Drop, Ack, RedisFails, TrimPending, TrimInfo, Trim, Crash, Start, Age
<1> QED BY <1>4, <1>5, <1>6

(* One relay without faults keeps the order of the stream, whatever its    *)
(* batch size and MAXLEN; and with any number of relays, whatever fails, an *)
(* entry that was overtaken is published, pending or was cut.              *)
THEOREM OvertakenOnlyByFaultsHolds == Spec => []OvertakenOnlyByFaults
<1>1. Init => Inv /\ Orderly /\ TopicDelivered
  BY InvInitially, OrderlyInitially DEF TopicDelivered, Init
<1>2. Inv /\ Orderly /\ TopicDelivered /\ [Next]_vars => Inv' /\ Orderly' /\ TopicDelivered'
  BY InvInductive, OrderlyInductive, TopicInductive
<1>3. Inv /\ Orderly /\ TopicDelivered => OvertakenOnlyByFaults
  <2> SUFFICES ASSUME Inv, Orderly, TopicDelivered PROVE OvertakenOnlyByFaults
    OBVIOUS
  <2>1. faults = 0 /\ ~Overlap => FirstCopiesInOrder
    BY DEF Orderly, InOrder
  <2>2. ASSUME NEW i \in DOMAIN topic, NEW n \in 1..topic[i].id
        PROVE  Published(n) \/ n \in Pending \/ n \in raced \cup overflowed
    <3>1. added \in Nat /\ delivered \in 0..added /\ topic[i].id \in Nat
      <4>1. topic \in Seq(Records)
        BY DEF Inv, TypeOK
      <4>2. topic[i] \in Records
        BY <2>2, <4>1, LenProperties, ElementOfSeq
      <4> QED BY <4>2 DEF Inv, TypeOK, Records
    <3>2. topic[i].id <= delivered
      BY <2>2 DEF TopicDelivered
    <3>3. n \in 1..added /\ n <= delivered
      BY <2>2, <3>1, <3>2
    <3> QED BY <3>3 DEF Inv, Accounted
  <2> QED BY <2>1, <2>2 DEF OvertakenOnlyByFaults
<1> QED BY <1>1, <1>2, <1>3, PTL DEF Spec

(* One relay at a time never trims what is not published: an entry whose   *)
(* body leaves the stream was published, unless MAXLEN took it.            *)
THEOREM CutOnlyPublishedAlone ==
  Spec => [][~Overlap => \A n \in body : n \notin body' => Published(n) \/ n \in overflowed']_vars
<1> DEFINE Step == ~Overlap => \A n \in body : n \notin body' => Published(n) \/ n \in overflowed'
<1>1. ASSUME Inv, [Next]_vars PROVE Step
  <2> SUFFICES ASSUME ~Overlap, NEW n \in body, n \notin body'
               PROVE  Published(n) \/ n \in overflowed'
    OBVIOUS
  <2>1. /\ TypeOK /\ n \in 1..added /\ added \in Nat /\ delivered \in Nat
        /\ raced = {} /\ overflowed \subseteq overflowed'
    BY <1>1, Monotone DEF Inv, NoRacedCut, TypeOK
  <2>2. ASSUME n <= delivered, n \notin Pending PROVE Published(n) \/ n \in overflowed'
    BY <1>1, <2>1, <2>2 DEF Inv, Accounted
  <2>3. CASE Add
    <3>1. PICK oldest \in 1..(added + 1) :
            /\ body' = {k \in body \cup {added + 1} : k >= oldest}
            /\ overflowed' = overflowed \cup
                 {k \in body : k < oldest /\ (k > delivered \/ k \in Pending)}
      BY <2>3 DEF Add
    <3>2. n < oldest
      BY <2>1, <3>1
    <3>3. n <= delivered \/ n > delivered
      BY <2>1
    <3> QED BY <2>2, <3>1, <3>2, <3>3
  <2>4. ASSUME NEW p \in Procs, Trim(p) PROVE Published(n) \/ n \in overflowed'
    <3>1. relay[p].pc = "xtrim" /\ n < relay[p].mark /\ relay[p].mark \in Nat
      BY <2>1, <2>4, RelayFields DEF Trim, Cut
    <3>2. relay[p].mark <= delivered /\ \A k \in Pending : relay[p].mark <= k
      BY <1>1, <3>1 DEF Inv, MarkSeen, TrimAlone
    <3>3. n <= delivered
      BY <2>1, <3>1, <3>2
    <3>4. n \notin Pending
      BY <2>1, <3>1, <3>2
    <3> QED BY <2>2, <3>3, <3>4
  <2>5. Add \/ \E p \in Procs : Trim(p)
    BY <1>1 DEF Next, vars, stream, RelayStep, TrimStep, Tick, ReadOwn, Claim, ReadNew, Send, SendThrows,
           Land, Drop, Ack, RedisFails, TrimPending, TrimInfo, Crash, Start, Age
  <2> QED BY <2>3, <2>4, <2>5
<1>2. Inv /\ [Next]_vars => [Step]_vars
  BY <1>1
<1> QED BY <1>2, InvCorrect, PTL DEF Spec
----------------------------------------------------------------------------
(* The pipeline: the relays' invariant, the consumers', and what relates   *)
(* the rows to the partition.                                              *)
CP ==
  INSTANCE AuditConsumerProofs
    WITH Parts <- {Part}, Events <- 1..MaxEntries, PartOf <- [n \in 1..MaxEntries |-> Part],
         MaxLog <- MaxTopic, log <- [t \in {Part} |-> topic]

PipelineInv ==
  /\ Inv /\ CP!Inv /\ CP!RowsPublished
  /\ added <= MaxEntries

----------------------------------------------------------------------------
(* The consumers are those that CP's theorems are about. *)
LEMMA ConsumerAssumed == CP!ConsumerAssumption
BY PipelineAssumption, RelayAssumption DEF CP!ConsumerAssumption

LEMMA SameInit == PipelineInit => Init /\ CP!Init
BY DEF PipelineInit, Consumer!Init, Consumer!Fresh, CP!Init, CP!Fresh

LEMMA SameConsumer == Consumer!ConsumerNext => CP!ConsumerNext
<1> SUFFICES ASSUME NEW c \in Consumers
             PROVE  \/ Consumer!Poll(c) \/ Consumer!ListenerStep(c) \/ Consumer!Crash(c) \/ Consumer!Start(c)
                    \/ \E t \in {Part} : Consumer!Assign(t, c)
                    => \/ CP!Poll(c) \/ CP!ListenerStep(c) \/ CP!Crash(c) \/ CP!Start(c)
                       \/ \E t \in {Part} : CP!Assign(t, c)
  BY DEF Consumer!ConsumerNext, CP!ConsumerNext
<1>1. Consumer!Poll(c) => CP!Poll(c)
  BY DEF Consumer!Cardinality, CP!Cardinality, Consumer!Poll, CP!Poll, Consumer!Unparsable, CP!Unparsable, Consumer!At, CP!At
<1>2. Consumer!Store(c) => CP!Store(c)
  BY DEF Consumer!Store, CP!Store, Consumer!Unparsable, CP!Unparsable, Consumer!At, CP!At,
         Consumer!Inserted, CP!Inserted, Consumer!Fails, CP!Fails, Consumer!Fault, CP!Fault,
         Consumer!Freed, CP!Freed
<1>3. Consumer!DeadLetter(c) => CP!DeadLetter(c)
  BY DEF Consumer!DeadLetter, CP!DeadLetter, Consumer!Fails, CP!Fails, Consumer!Fault, CP!Fault,
         Consumer!Freed, CP!Freed
<1>4. Consumer!Succeed(c) => CP!Succeed(c)
  BY DEF Consumer!Succeed, CP!Succeed
<1>5. Consumer!CommitBatch(c) => CP!CommitBatch(c)
  BY DEF Consumer!CommitBatch, CP!CommitBatch, Consumer!CommitTo, CP!CommitTo,
         Consumer!OffsetsOf, CP!OffsetsOf, Consumer!Fault, CP!Fault
<1>6. Consumer!Retry(c) => CP!Retry(c)
  BY DEF Consumer!Retry, CP!Retry, Consumer!Unparsable, CP!Unparsable, Consumer!At, CP!At
<1>7. Consumer!Crash(c) => CP!Crash(c)
  BY DEF Consumer!Crash, CP!Crash, Consumer!Fault, CP!Fault, Consumer!Fresh, CP!Fresh,
         Consumer!Freed, CP!Freed
<1>8. Consumer!Start(c) => CP!Start(c)
  BY DEF Consumer!Start, CP!Start, Consumer!Running, CP!Running, Consumer!Fresh, CP!Fresh
<1>9. ASSUME NEW t PROVE Consumer!Assign(t, c) => CP!Assign(t, c)
  BY DEF Consumer!Assign, CP!Assign, Consumer!StartPosition, CP!StartPosition, Consumer!Fault,
         CP!Fault
<1> QED BY <1>1, <1>2, <1>3, <1>4, <1>5, <1>6, <1>7, <1>8, <1>9 DEF Consumer!ListenerStep, CP!ListenerStep

----------------------------------------------------------------------------
(* A step of the relays is, to the consumers, somebody publishing.         *)
LEMMA LandsKnownEvent ==
  ASSUME PipelineInv, NEW p \in Procs, Land(p)
  PROVE  /\ Head(wire[p]).rec.id \in 1..MaxEntries
         /\ Head(wire[p]).rec.full \in BOOLEAN
         /\ topic' = Append(topic, [id |-> Head(wire[p]).rec.id, full |-> Head(wire[p]).rec.full])
<1>1. TypeOK /\ RecordsFaithful
  BY DEF PipelineInv, Inv
<1>2. /\ wire[p] \in Seq(Wired) /\ wire[p] # << >>
      /\ Head(wire[p]).rec \in Records
      /\ topic' = Append(topic, Head(wire[p]).rec)
  BY <1>1, LandTopic
<1>3. 1 \in DOMAIN wire[p] /\ Head(wire[p]) = wire[p][1]
  BY <1>2, HeadTailProperties, LenProperties, EmptySeq
<1>4. Head(wire[p]).rec.id <= delivered
  BY <1>1, <1>3 DEF RecordsFaithful, Faithful
<1>5. /\ Head(wire[p]).rec.id \in Nat \ {0} /\ Head(wire[p]).rec.full \in BOOLEAN
      /\ Head(wire[p]).rec = [id |-> Head(wire[p]).rec.id, full |-> Head(wire[p]).rec.full]
  BY <1>2 DEF Records
<1>6. delivered \in Nat /\ added \in Nat /\ delivered <= added /\ added <= MaxEntries
  BY <1>1 DEF TypeOK, PipelineInv
<1> QED BY <1>2, <1>4, <1>5, <1>6, RelayAssumption

LEMMA RelayPublishes ==
  ASSUME PipelineInv, RelayNext, faults' \in Nat
  PROVE  CP!Publication
<1>1. Next /\ UNCHANGED consumerVars
  BY DEF RelayNext
<1>2. CASE UNCHANGED topic
  BY <1>1, <1>2 DEF CP!Publication, consumerVars
<1>3. ASSUME NEW p \in Procs, Land(p) PROVE CP!Publication
  <2> DEFINE e == Head(wire[p]).rec.id
             full == Head(wire[p]).rec.full
  <2>1. /\ e \in 1..MaxEntries /\ full \in BOOLEAN
        /\ topic' = Append(topic, [id |-> e, full |-> full])
    BY <1>3, LandsKnownEvent
  <2> HIDE DEF e, full
  <2>2. CP!Published(e, full)
    BY <2>1 DEF CP!Published
  <2> QED BY <1>1, <2>1, <2>2 DEF CP!Publication, consumerVars
<1>4. UNCHANGED topic \/ \E p \in Procs : Land(p)
  BY <1>1 DEF Next, RelayStep, TrimStep, Add, Tick, ReadOwn, Claim, ReadNew,
              Send, SendThrows, Ack, RedisFails, TrimPending, TrimInfo, Trim,
              Drop, Crash, Start, Age
<1> QED BY <1>2, <1>3, <1>4

LEMMA PipelineInvInitially == PipelineInit => PipelineInv
<1> SUFFICES ASSUME PipelineInit PROVE PipelineInv
  OBVIOUS
<1>1. Init /\ CP!Init
  BY SameInit
<1>2. Inv
  BY <1>1, InvInitially
<1>3. CP!Inv
  BY <1>1, ConsumerAssumed, CP!InvInitially
<1>4. CP!RowsPublished
  BY <1>1 DEF CP!Init, CP!RowsPublished
<1>5. added <= MaxEntries
  BY <1>1, RelayAssumption DEF Init
<1> QED BY <1>2, <1>3, <1>4, <1>5 DEF PipelineInv

LEMMA PipelineInvInductive == PipelineInv /\ [PipelineNext]_pipelineVars => PipelineInv'
<1> SUFFICES ASSUME PipelineInv, [PipelineNext]_pipelineVars PROVE PipelineInv'
  OBVIOUS
<1>1. ASSUME CP!Step PROVE CP!Inv' /\ CP!RowsPublished'
  <2>1. CP!Inv'
    BY <1>1, ConsumerAssumed, CP!InvKept DEF PipelineInv
  <2>2. CP!RowsPublished'
    BY <1>1, ConsumerAssumed, CP!RowsPublishedKept DEF PipelineInv
  <2> QED BY <2>1, <2>2
<1>2. CASE RelayNext
  <2>1. Next
    BY <1>2 DEF RelayNext
  <2>2. Inv'
    BY <2>1, InvInductive DEF PipelineInv
  <2>3. faults' \in Nat
    BY <2>2 DEF Inv, TypeOK
  <2>4. CP!Step
    BY <1>2, <2>3, RelayPublishes DEF CP!Step
  <2>5. added' <= MaxEntries
    <3>1. added' = added \/ (added < MaxEntries /\ added' = added + 1)
      BY <2>1 DEF Next, RelayStep, TrimStep, Add, Tick, ReadOwn, Claim,
                  ReadNew, Send, SendThrows, Ack, RedisFails, TrimPending,
                  TrimInfo, Trim, Land, Drop, Crash, Start, Age, stream
    <3>2. added \in Nat /\ added <= MaxEntries
      BY DEF PipelineInv, Inv, TypeOK
    <3> QED BY <3>1, <3>2, RelayAssumption
  <2> QED BY <1>1, <2>2, <2>4, <2>5 DEF PipelineInv
<1>3. CASE ConsumerNext
  <2>1. CP!ConsumerNext /\ UNCHANGED relayVars
    BY <1>3, SameConsumer DEF ConsumerNext
  <2>2. CP!Inv' /\ CP!RowsPublished'
    BY <1>1, <2>1 DEF CP!Step
  <2>3. faults' \in Nat
    BY <2>2 DEF CP!Inv, CP!TypeOK
  <2>4. Inv'
    BY <2>1, <2>3, OthersFaults DEF PipelineInv, relayVars, stream
  <2> QED BY <2>1, <2>2, <2>4 DEF PipelineInv, relayVars
<1>4. CASE UNCHANGED pipelineVars
  <2>1. UNCHANGED relayVars /\ UNCHANGED consumerVars /\ UNCHANGED faults
    BY <1>4 DEF pipelineVars
  <2>2. faults' \in Nat
    BY <2>1 DEF PipelineInv, Inv, TypeOK
  <2>3. Inv'
    BY <2>1, <2>2, OthersFaults DEF PipelineInv, relayVars, stream
  <2>4. CP!Step
    BY <2>1, <2>2 DEF CP!Step, CP!Publication, relayVars, consumerVars
  <2> QED BY <1>1, <2>1, <2>3, <2>4 DEF PipelineInv, relayVars
<1> QED BY <1>2, <1>3, <1>4 DEF PipelineNext

THEOREM PipelineInvCorrect == PipelineSpec => []PipelineInv
BY PipelineInvInitially, PipelineInvInductive, PTL DEF PipelineSpec

(* From XADD to the audit_events row, through the crashes, failed sends,   *)
(* lost replies and rebalances of any number of relays and consumers, an   *)
(* event is owed by a relay, waiting for a consumer or stored, unless it   *)
(* was cut from the stream; it is stored once, and not before it was       *)
(* published.                                                              *)
THEOREM NoEventLostEndToEndHolds == PipelineSpec => []NoEventLostEndToEnd
<1>1. ASSUME PipelineInv PROVE NoEventLostEndToEnd
  <2> SUFFICES ASSUME NEW n \in 1..MaxEntries
               PROVE  /\ n <= added =>
                           Owed(n) \/ Waiting(n) \/ rows[n] = 1 \/ n \in raced \cup overflowed
                      /\ rows[n] = 0 \/ (rows[n] = 1 /\ Published(n))
    BY DEF NoEventLostEndToEnd
  <2>0. topic \in Seq(Records) /\ added \in Nat
    BY <1>1 DEF PipelineInv, Inv, TypeOK
  <2>1. ASSUME n <= added
        PROVE  Owed(n) \/ Waiting(n) \/ rows[n] = 1 \/ n \in raced \cup overflowed
    <3>1. LossOnlyByCut /\ n \in 1..added
      BY <1>1, <2>0, <2>1, InvImpliesLossOnlyByCut DEF PipelineInv
    <3>2. Owed(n) \/ Published(n) \/ n \in raced \cup overflowed
      BY <3>1 DEF LossOnlyByCut
    <3>3. ASSUME NEW i \in DOMAIN topic, topic[i] = [id |-> n, full |-> TRUE]
          PROVE  Waiting(n) \/ rows[n] = 1
      <4>1. CASE i > committed[Part]
        BY <3>3, <4>1 DEF Waiting
      <4>2. CASE ~(i > committed[Part])
        <5>1. CP!CommittedSettled /\ committed[Part] \in Nat
          BY <1>1 DEF PipelineInv, CP!Inv, CP!TypeOK
        <5>2. i \in 1..committed[Part]
          BY <2>0, <4>2, <5>1, LenProperties
        <5>3. CP!Settled(<<Part, i>>)
          BY <5>1, <5>2 DEF CP!CommittedSettled
        <5> QED BY <3>3, <5>3 DEF CP!Settled, CP!At
      <4> QED BY <4>1, <4>2
    <3> QED BY <3>2, <3>3 DEF Published, Rec
  <2>2. rows[n] \in {0, 1}
    BY <1>1 DEF PipelineInv, CP!Inv, CP!RowsOnce
  <2>3. ASSUME rows[n] = 1 PROVE Published(n)
    <3>1. PICK tn \in CP!Recs : CP!At(tn) = [id |-> n, full |-> TRUE]
      BY <1>1, <2>3 DEF PipelineInv, CP!RowsPublished
    <3>2. tn[1] = Part /\ tn[2] \in Nat \ {0} /\ tn[2] <= Len(topic)
      BY <3>1 DEF CP!Recs
    <3>3. tn[2] \in DOMAIN topic
      BY <2>0, <3>2, LenProperties
    <3>4. topic[tn[2]] = [id |-> n, full |-> TRUE]
      BY <3>1, <3>2 DEF CP!At
    <3> QED BY <3>3, <3>4 DEF Published, Rec
  <2> QED BY <2>1, <2>2, <2>3
<1> QED BY <1>1, PipelineInvCorrect, PTL
=============================================================================
