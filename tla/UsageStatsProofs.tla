--------------------------- MODULE UsageStatsProofs ---------------------------
(***************************************************************************)
(* The safety proofs of UsageStats, for any number of threads, requests    *)
(* and faults.                                                             *)
(***************************************************************************)
EXTENDS UsageStats, FiniteSetTheorems, TLAPS

Maps == {"none", "current", "old", "orphan"}
Recordings == [request : Requests, types : {<<"HOUR", "DAY">>, <<"DAY">>}, map : Maps]
Known == {p \in Pairs : at[p[2]] # NotYet}

(* A request is in the hands of one thread, and the thread's map is not    *)
(* that of a flush that is over.                                           *)
RecorderOK ==
  /\ recorder \in [Threads -> Recordings \cup {NoRecord}]
  /\ \A t \in Threads : recorder[t] # NoRecord => at[recorder[t].request] # NotYet
  /\ \A t, u \in Threads :
       recorder[t] # NoRecord /\ recorder[u] # NoRecord /\ recorder[t].request = recorder[u].request
         => t = u
  /\ \A t \in Threads : recorder[t].map = "old" => flush.pc # "resting"

FlushShape ==
  \/ flush = Resting
  \/ flush = [pc |-> "check", map |-> flush.map, walked |-> {}]
  \/ flush = [pc |-> "walk", map |-> flush.map, all |-> flush.all, walked |-> flush.walked]
  \/ flush = [pc |-> "increment", map |-> flush.map, all |-> flush.all,
              walked |-> flush.walked, entry |-> flush.entry]

(* The flush is at an entry it has walked, and what the walk may not come  *)
(* to was added too late.                                                  *)
FlushOK ==
  /\ FlushShape
  /\ flush.pc = "increment" =>
       flush.entry \subseteq flush.map /\ \A p \in flush.entry : Bucket(p) \in flush.walked
  /\ flush.pc \in {"walk", "increment"} =>
       \A p \in flush.map : Bucket(p) \in flush.all \/ p \in raced

(* A pair is in one place at most, and in one unless it raced or died.     *)
Somewhere(p) == p \in ToMerge \/ p \in pending \/ p \in Walking \/ stored[p] = 1
Fate(p) ==
  /\ stored[p] = 0 \/ stored[p] = 1
  /\ p \in ToMerge => p \notin pending /\ p \notin Walking /\ stored[p] = 0
  /\ p \in pending => p \notin Walking /\ stored[p] = 0
  /\ p \in Walking => stored[p] = 0
  /\ at[p[2]] # NotYet => Somewhere(p) \/ p \in raced \/ p \in died
  /\ at[p[2]] = NotYet => stored[p] = 0

Inv ==
  /\ at \in [Requests -> Times \cup {NotYet}]
  /\ stored \in [Pairs -> Nat] /\ faults \in Nat
  /\ RecorderOK /\ FlushOK
  /\ pending \cup flush.map \subseteq Known
  /\ \A p \in Pairs \ doubtful : Fate(p)

----------------------------------------------------------------------------
(* What a thread has still to add.                                         *)
Holds(s) == {<<s.types[k], s.request>> : k \in DOMAIN s.types}

LEMMA ToMergeIs ==
  ASSUME NEW p
  PROVE  /\ p \in ToMerge <=> \E t \in Threads : p \in Holds(recorder[t])
         /\ p \in ToMerge' <=> \E t \in Threads : p \in Holds(recorder'[t])
BY DEF ToMerge, Holds

LEMMA HoldsIs ==
  /\ Holds(NoRecord) = {}
  /\ \A s \in Recordings :
       /\ s.types = <<"HOUR", "DAY">> => Holds(s) = {<<"HOUR", s.request>>, <<"DAY", s.request>>}
       /\ s.types = <<"DAY">> => Holds(s) = {<<"DAY", s.request>>}
       /\ s # NoRecord
<1>1. Holds(NoRecord) = {}
  BY DEF Holds, NoRecord
<1>2. ASSUME NEW s \in Recordings, s.types = <<"HOUR", "DAY">>
      PROVE  Holds(s) = {<<"HOUR", s.request>>, <<"DAY", s.request>>}
  <2>1. DOMAIN s.types = {1, 2} /\ s.types[1] = "HOUR" /\ s.types[2] = "DAY"
    BY <1>2
  <2> QED BY <2>1 DEF Holds
<1>3. ASSUME NEW s \in Recordings, s.types = <<"DAY">>
      PROVE  Holds(s) = {<<"DAY", s.request>>}
  <2>1. DOMAIN s.types = {1} /\ s.types[1] = "DAY"
    BY <1>3
  <2> QED BY <2>1 DEF Holds
<1>4. ASSUME NEW s \in Recordings PROVE s # NoRecord
  <2>1. s.types # << >> /\ NoRecord.types = << >>
    BY DEF Recordings, NoRecord
  <2> QED BY <2>1
<1> QED BY <1>1, <1>2, <1>3, <1>4

LEMMA HoldsKnown ==
  ASSUME RecorderOK, NEW t \in Threads, NEW p \in Holds(recorder[t])
  PROVE  /\ recorder[t] \in Recordings /\ p \in Pairs
         /\ p[2] = recorder[t].request /\ at[p[2]] # NotYet
<1>1. recorder[t] \in Recordings
  BY HoldsIs DEF RecorderOK
<1>2. recorder[t].request \in Requests
      /\ recorder[t].types \in {<<"HOUR", "DAY">>, <<"DAY">>}
  BY <1>1 DEF Recordings
<1>3. p = <<"HOUR", recorder[t].request>> \/ p = <<"DAY", recorder[t].request>>
  BY <1>1, <1>2, HoldsIs
<1> QED BY <1>1, <1>2, <1>3, HoldsIs DEF RecorderOK, Pairs, Types

(* A known pair keeps its bucket. *)
LEMMA BucketStays ==
  ASSUME NEW p, at'[p[2]] = at[p[2]]
  PROVE  Bucket(p)' = Bucket(p)
BY DEF Bucket

LEMMA WalkingIs ==
  ASSUME NEW p
  PROVE  /\ p \in Walking <=> \/ p \in flush.map /\ Bucket(p) \notin flush.walked
                              \/ flush.pc = "increment" /\ p \in flush.entry
         /\ p \in Walking' <=> \/ p \in flush'.map /\ Bucket(p)' \notin flush'.walked
                               \/ flush'.pc = "increment" /\ p \in flush'.entry
BY DEF Walking
----------------------------------------------------------------------------
LEMMA FateKept ==
  ASSUME NEW p, Fate(p), at'[p[2]] = at[p[2]],
         p \in ToMerge' <=> p \in ToMerge, p \in pending' <=> p \in pending,
         p \in Walking' <=> p \in Walking, stored'[p] = stored[p],
         raced \subseteq raced', died \subseteq died'
  PROVE  Fate(p)'
BY DEF Fate, Somewhere

LEMMA OneHolder ==
  ASSUME RecorderOK, NEW t \in Threads, NEW u \in Threads, NEW p,
         p \in Holds(recorder[t]), p \in Holds(recorder[u])
  PROVE  t = u
<1>1. /\ recorder[t] # NoRecord /\ recorder[u] # NoRecord
      /\ recorder[t].request = recorder[u].request
  BY HoldsKnown, HoldsIs
<1> QED BY <1>1 DEF RecorderOK

LEMMA RecorderAt ==
  ASSUME RecorderOK, NEW t \in Threads, NEW s, recorder' = [recorder EXCEPT ![t] = s], NEW u \in Threads
  PROVE  recorder'[u] = IF u = t THEN s ELSE recorder[u]
BY DEF RecorderOK

(* A thread that goes on with the same request. *)
LEMMA RecorderGoesOn ==
  ASSUME RecorderOK, NEW t \in Threads, NEW s \in Recordings \cup {NoRecord},
         recorder' = [recorder EXCEPT ![t] = s], recorder[t] # NoRecord,
         s = NoRecord \/ s.request = recorder[t].request,
         s.map # "old", UNCHANGED at, flush'.pc = flush.pc
  PROVE  RecorderOK'
<1>1. recorder' \in [Threads -> Recordings \cup {NoRecord}]
  BY DEF RecorderOK
<1>2. ASSUME NEW u \in Threads, recorder'[u] # NoRecord
      PROVE  recorder[u] # NoRecord /\ recorder'[u].request = recorder[u].request
  BY <1>2, RecorderAt
<1>3. ASSUME NEW u \in Threads, recorder'[u].map = "old" PROVE recorder[u].map = "old"
  BY <1>3, RecorderAt
<1>4. \A u \in Threads : recorder'[u] # NoRecord => at'[recorder'[u].request] # NotYet
  BY <1>2 DEF RecorderOK
<1>5. \A u, v \in Threads :
        recorder'[u] # NoRecord /\ recorder'[v] # NoRecord /\ recorder'[u].request = recorder'[v].request
          => u = v
  BY <1>2 DEF RecorderOK
<1>6. \A u \in Threads : recorder'[u].map = "old" => flush'.pc # "resting"
  BY <1>3 DEF RecorderOK
<1> QED BY <1>1, <1>4, <1>5, <1>6 DEF RecorderOK

(* Threads whose map became something else. *)
LEMMA BecomeKeeps ==
  ASSUME RecorderOK, NEW from \in {"current", "old"}, NEW to \in {"old", "orphan"}, Become(from, to)
  PROVE  /\ recorder' \in [Threads -> Recordings \cup {NoRecord}]
         /\ \A t \in Threads :
              /\ Holds(recorder'[t]) = Holds(recorder[t])
              /\ recorder'[t] # NoRecord <=> recorder[t] # NoRecord
              /\ recorder'[t] # NoRecord => recorder'[t].request = recorder[t].request
              /\ recorder'[t].map = IF recorder[t].map = from THEN to ELSE recorder[t].map
<1> DEFINE Keeps(s, n) ==
             /\ n \in Recordings \cup {NoRecord}
             /\ Holds(n) = Holds(s) /\ (n # NoRecord <=> s # NoRecord)
             /\ n # NoRecord => n.request = s.request
             /\ n.map = IF s.map = from THEN to ELSE s.map
<1>1. ASSUME NEW s \in Recordings \cup {NoRecord}
      PROVE  Keeps(s, IF s.map = from THEN [s EXCEPT !.map = to] ELSE s)
  <2>1. CASE s.map # from
    BY <2>1
  <2>2. CASE s.map = from
    <3>1. s \in Recordings
      BY <2>2 DEF NoRecord
    <3> DEFINE n == [s EXCEPT !.map = to]
    <3>2. n \in Recordings /\ n.request = s.request /\ n.types = s.types /\ n.map = to
      BY <3>1 DEF Recordings, Maps
    <3> HIDE DEF n
    <3>3. Holds(n) = Holds(s)
      BY <3>2 DEF Holds
    <3>4. Keeps(s, n)
      BY <2>2, <3>1, <3>2, <3>3, HoldsIs
    <3> QED BY <2>2, <3>4 DEF n
  <2> QED BY <2>1, <2>2
<1>2. \A t \in Threads :
        /\ recorder[t] \in Recordings \cup {NoRecord}
        /\ recorder'[t] = IF recorder[t].map = from THEN [recorder[t] EXCEPT !.map = to] ELSE recorder[t]
  BY DEF Become, RecorderOK
<1>3. \A t \in Threads : Keeps(recorder[t], recorder'[t])
  BY <1>1, <1>2
<1>4. recorder' = [t \in Threads |-> recorder'[t]]
  BY DEF Become
<1> HIDE DEF Keeps
<1>5. \A t \in Threads : recorder'[t] \in Recordings \cup {NoRecord}
  BY <1>3 DEF Keeps
<1>6. recorder' \in [Threads -> Recordings \cup {NoRecord}]
  BY <1>4, <1>5
<1> QED BY <1>3, <1>6 DEF Keeps

----------------------------------------------------------------------------
LEMMA RecordStep ==
  ASSUME Inv, NEW t \in Threads, NEW s \in Times, Record(t, s)
  PROVE  Inv'
<1>1. PICK r \in Requests :
        /\ at[r] = NotYet
        /\ at' = [at EXCEPT ![r] = s]
        /\ recorder' = [recorder EXCEPT ![t] = [request |-> r, types |-> BucketTypes, map |-> "none"]]
  BY DEF Record
<1> DEFINE new == [request |-> r, types |-> BucketTypes, map |-> "none"]
<1>2. /\ new \in Recordings /\ new.types = <<"HOUR", "DAY">> /\ new.request = r /\ new.map = "none"
  BY DEF Recordings, BucketTypes, Maps
<1> HIDE DEF new
<1>3. recorder' = [recorder EXCEPT ![t] = new] /\ recorder[t] = NoRecord
      /\ UNCHANGED <<pending, flush, stored, faults, raced, doubtful, died>>
  BY <1>1 DEF Record, new
<1>4. at' \in [Requests -> Times \cup {NotYet}] /\ at'[r] = s /\ s # NotYet
      /\ \A q \in Requests : q # r => at'[q] = at[q]
  BY <1>1, UsageAssumption DEF Inv
<1>5. RecorderOK
  BY DEF Inv
<1>6. \A u \in Threads : recorder'[u] = IF u = t THEN new ELSE recorder[u]
  BY <1>3, <1>5, RecorderAt
<1>7. RecorderOK'
  <2>1. recorder' \in [Threads -> Recordings \cup {NoRecord}]
    BY <1>2, <1>3, <1>5 DEF RecorderOK
  <2>2. \A u \in Threads : u # t /\ recorder[u] # NoRecord =>
          recorder[u].request \in Requests /\ recorder[u].request # r
    BY <1>1, <1>5 DEF RecorderOK, Recordings
  <2>3. \A u \in Threads : recorder'[u] # NoRecord => at'[recorder'[u].request] # NotYet
    BY <1>2, <1>4, <1>5, <1>6, <2>2 DEF RecorderOK
  <2>4. \A u, v \in Threads :
          recorder'[u] # NoRecord /\ recorder'[v] # NoRecord /\ recorder'[u].request = recorder'[v].request
            => u = v
    BY <1>2, <1>5, <1>6, <2>2 DEF RecorderOK
  <2>5. \A u \in Threads : recorder'[u].map = "old" => flush'.pc # "resting"
    BY <1>2, <1>3, <1>5, <1>6 DEF RecorderOK
  <2> QED BY <2>1, <2>3, <2>4, <2>5 DEF RecorderOK
<1>8. \A p \in Known : p[2] # r /\ p \in Pairs /\ at'[p[2]] = at[p[2]] /\ Bucket(p)' = Bucket(p) /\ p \in Known'
  <2> TAKE p \in Known
  <2>1. p[2] \in Requests /\ p[2] # r /\ p \in Pairs
    BY <1>1 DEF Known, Pairs
  <2>2. at'[p[2]] = at[p[2]]
    BY <1>4, <2>1
  <2> QED BY <2>1, <2>2, BucketStays DEF Known
<1>9. pending \subseteq Known /\ flush.map \subseteq Known
      /\ (flush.pc = "increment" => flush.entry \subseteq Known)
  BY DEF Inv, FlushOK
<1>10. FlushOK'
  <2>1. FlushShape'
    BY <1>3 DEF Inv, FlushOK, FlushShape, Resting
  <2> QED BY <1>3, <1>8, <1>9, <2>1 DEF Inv, FlushOK
<1>11. ASSUME NEW p \in Pairs PROVE p \in Walking' <=> p \in Walking
  BY <1>3, <1>8, <1>9, WalkingIs
<1>12. ASSUME NEW p \in Pairs PROVE p \in ToMerge' <=> p \in ToMerge \/ p[2] = r
  <2>1. p[2] = r <=> p \in Holds(new)
    BY <1>2, HoldsIs DEF Pairs, Types
  <2>2. \A u \in Threads : p \in Holds(recorder'[u]) <=> p \in Holds(recorder[u]) \/ (u = t /\ p[2] = r)
    BY <1>3, <1>6, <2>1, HoldsIs
  <2> QED BY <2>2, ToMergeIs
<1>13. ASSUME NEW p \in Pairs \ doubtful PROVE Fate(p)'
  <2>1. Fate(p) /\ p[2] \in Requests
    BY DEF Inv, Pairs
  <2>2. CASE p[2] = r
    <3>1. p \notin Known
      BY <1>1, <2>2 DEF Known
    <3>2. p \in ToMerge' /\ p \notin pending' /\ p \notin Walking' /\ stored'[p] = 0
      BY <1>1, <1>3, <1>9, <1>11, <1>12, <2>1, <2>2, <3>1, WalkingIs DEF Fate
    <3> QED BY <1>4, <2>2, <3>2 DEF Fate, Somewhere
  <2>3. CASE p[2] # r
    BY <1>3, <1>4, <1>11, <1>12, <2>1, <2>3, FateKept
  <2> QED BY <2>2, <2>3
<1>14. \A p \in Pairs \ doubtful' : Fate(p)'
  BY <1>3, <1>13
<1>15. (pending \cup flush.map \subseteq Known)'
  BY <1>3, <1>8, <1>9
<1> QED BY <1>3, <1>4, <1>7, <1>10, <1>14, <1>15 DEF Inv
LEMMA GetMapStep ==
  ASSUME Inv, NEW t \in Threads, GetMap(t)
  PROVE  Inv'
<1>1. RecorderOK /\ recorder[t] \in Recordings
  BY DEF Inv, RecorderOK, GetMap, Recording, NoRecord
<1> DEFINE new == [recorder[t] EXCEPT !.map = "current"]
<1>2. /\ new \in Recordings /\ new.types = recorder[t].types /\ new.request = recorder[t].request
      /\ new.map = "current"
  BY <1>1 DEF Recordings, Maps
<1>3. recorder' = [recorder EXCEPT ![t] = new]
  BY DEF GetMap
<1> HIDE DEF new
<1>4. UNCHANGED <<at, pending, flush, stored, faults, raced, doubtful, died>>
  BY DEF GetMap
<1>5. RecorderOK'
  BY <1>1, <1>2, <1>3, <1>4, HoldsIs, RecorderGoesOn
<1>6. Holds(new) = Holds(recorder[t])
  BY <1>2 DEF Holds
<1>7. \A u \in Threads : Holds(recorder'[u]) = Holds(recorder[u])
  BY <1>1, <1>3, <1>6, RecorderAt
<1>8. FlushOK'
  BY <1>4 DEF Inv, FlushOK, FlushShape, Resting, Bucket
<1>9. ASSUME NEW p \in Pairs \ doubtful PROVE Fate(p)'
  <2>1. Fate(p)
    BY DEF Inv
  <2>2. p \in ToMerge' <=> p \in ToMerge
    BY <1>7, ToMergeIs
  <2>3. p \in Walking' <=> p \in Walking
    BY <1>4, WalkingIs, BucketStays
  <2> QED BY <1>4, <2>1, <2>2, <2>3, FateKept
<1>10. \A p \in Pairs \ doubtful' : Fate(p)'
  BY <1>4, <1>9
<1>11. (pending \cup flush.map \subseteq Known)'
  BY <1>4 DEF Inv, Known
<1>12. at' \in [Requests -> Times \cup {NotYet}] /\ stored' \in [Pairs -> Nat] /\ faults' \in Nat
  BY <1>4 DEF Inv
<1> QED BY <1>5, <1>8, <1>10, <1>11, <1>12 DEF Inv

(* Whatever map the thread has, the item leaves the thread: into the       *)
(* current map, into the old one, or nowhere.                              *)
LEMMA MergeStep ==
  ASSUME Inv, NEW t \in Threads, Merge(t)
  PROVE  Inv'
<1>1. RecorderOK /\ recorder[t] \in Recordings
  BY DEF Inv, RecorderOK, Merge, Recording, NoRecord
<1> DEFINE r == recorder[t].request
           item == Item(t)
           next == IF Len(recorder[t].types) = 1 THEN NoRecord
                   ELSE [request |-> r, types |-> Tail(recorder[t].types), map |-> "none"]
<1>2. recorder' = [recorder EXCEPT ![t] = next]
  BY DEF Merge
<1>3. /\ next = NoRecord \/ (next \in Recordings /\ next.request = r)
      /\ next.map = "none"
      /\ \A p : p \in Holds(recorder[t]) <=> p = item \/ p \in Holds(next)
      /\ item \notin Holds(next)
  <2>1. r \in Requests /\ recorder[t].types \in {<<"HOUR", "DAY">>, <<"DAY">>}
    BY <1>1 DEF Recordings
  <2>2. CASE recorder[t].types = <<"HOUR", "DAY">>
    <3>1. Len(recorder[t].types) = 2 /\ Tail(recorder[t].types) = <<"DAY">> /\ Head(recorder[t].types) = "HOUR"
      BY <2>2
    <3>2. next = [request |-> r, types |-> Tail(recorder[t].types), map |-> "none"]
      BY <3>1
    <3>5. item = <<"HOUR", r>>
      BY <3>1 DEF Item
    <3>6. next.types = <<"DAY">> /\ next.request = r /\ next.map = "none"
          /\ next = [request |-> next.request, types |-> next.types, map |-> next.map]
      <4> HIDE DEF r
      <4> QED BY <3>1, <3>2
    <3>3. next \in Recordings /\ next.request = r /\ next.types = <<"DAY">> /\ next.map = "none"
      <4> HIDE DEF next, r
      <4> QED BY <2>1, <3>6 DEF Recordings, Maps
    <3>4. Holds(next) = {<<"DAY", r>>} /\ Holds(recorder[t]) = {<<"HOUR", r>>, <<"DAY", r>>}
      BY <1>1, <2>2, <3>3, HoldsIs
    <3> HIDE DEF next, item, r
    <3> QED BY <3>3, <3>4, <3>5
  <2>3. CASE recorder[t].types = <<"DAY">>
    <3>1. Len(recorder[t].types) = 1 /\ Head(recorder[t].types) = "DAY"
      BY <2>3
    <3>2. next = NoRecord /\ item = <<"DAY", r>>
      BY <3>1 DEF Item
    <3>3. Holds(next) = {} /\ Holds(recorder[t]) = {<<"DAY", r>>}
      BY <1>1, <2>3, <3>2, HoldsIs
    <3> HIDE DEF item, r
    <3> QED BY <3>2, <3>3 DEF NoRecord
  <2> QED BY <2>1, <2>2, <2>3
<1>4. /\ pending' = IF recorder[t].map = "current" THEN pending \cup {item} ELSE pending
      /\ flush' = IF recorder[t].map = "old" THEN [flush EXCEPT !.map = @ \cup {item}] ELSE flush
      /\ raced' = IF recorder[t].map = "current" THEN raced ELSE raced \cup {item}
      /\ UNCHANGED <<at, stored, faults, doubtful, died>>
  BY DEF Merge
<1>5. item \in Holds(recorder[t]) /\ item \in Known /\ item \in Pairs
  BY <1>1, <1>3, HoldsKnown DEF Known
<1>6. item \in ToMerge
  BY <1>5, ToMergeIs
<1> HIDE DEF next, item, r
<1>7. /\ flush'.pc = flush.pc
      /\ flush'.map = IF recorder[t].map = "old" THEN flush.map \cup {item} ELSE flush.map
      /\ flush'.walked = flush.walked
      /\ flush.pc \in {"walk", "increment"} => flush'.all = flush.all
      /\ flush.pc = "increment" => flush'.entry = flush.entry
      /\ FlushShape'
  <2>1. CASE recorder[t].map # "old"
    <3>1. flush' = flush
      BY <1>4, <2>1
    <3>2. FlushShape'
      BY <3>1 DEF Inv, FlushOK, FlushShape, Resting
    <3> QED BY <2>1, <3>1, <3>2
  <2>2. CASE recorder[t].map = "old"
    <3>1. flush' = [flush EXCEPT !.map = @ \cup {item}]
      BY <1>4, <2>2
    <3>2. FlushShape /\ flush.pc # "resting"
      BY <1>1, <2>2 DEF Inv, FlushOK, RecorderOK
    <3>3. CASE flush = [pc |-> "check", map |-> flush.map, walked |-> {}]
      <4>1. flush' = [pc |-> "check", map |-> flush.map \cup {item}, walked |-> {}]
        BY <3>1, <3>3
      <4>2. flush.pc = "check" /\ flush.walked = {}
        BY <3>3
      <4> QED BY <2>2, <4>1, <4>2 DEF FlushShape
    <3>4. CASE flush = [pc |-> "walk", map |-> flush.map, all |-> flush.all, walked |-> flush.walked]
      <4>1. flush' = [pc |-> "walk", map |-> flush.map \cup {item}, all |-> flush.all,
                      walked |-> flush.walked]
        BY <3>1, <3>4
      <4>2. flush.pc = "walk"
        BY <3>4
      <4> QED BY <2>2, <4>1, <4>2 DEF FlushShape
    <3>5. CASE flush = [pc |-> "increment", map |-> flush.map, all |-> flush.all,
                        walked |-> flush.walked, entry |-> flush.entry]
      <4>1. flush' = [pc |-> "increment", map |-> flush.map \cup {item}, all |-> flush.all,
                      walked |-> flush.walked, entry |-> flush.entry]
        BY <3>1, <3>5
      <4>2. flush.pc = "increment"
        BY <3>5
      <4> QED BY <2>2, <4>1, <4>2 DEF FlushShape
    <3> QED BY <3>2, <3>3, <3>4, <3>5 DEF FlushShape, Resting
  <2> QED BY <2>1, <2>2
<1>8. RecorderOK'
  <2>1. next \in Recordings \cup {NoRecord} /\ recorder[t] # NoRecord
    BY <1>1, <1>3, HoldsIs
  <2> QED BY <1>1, <1>2, <1>3, <1>4, <1>7, <2>1, RecorderGoesOn DEF r
<1>9. raced \subseteq raced' /\ died \subseteq died' /\ (recorder[t].map # "current" => item \in raced')
  BY <1>4
<1>10. FlushOK'
  <2>1. flush.pc = "increment" =>
          flush'.entry \subseteq flush'.map /\ \A p \in flush'.entry : Bucket(p)' \in flush'.walked
    BY <1>4, <1>7, BucketStays DEF Inv, FlushOK
  <2>2. ASSUME flush.pc \in {"walk", "increment"}, NEW p \in flush'.map
        PROVE  Bucket(p)' \in flush'.all \/ p \in raced'
    <3>1. CASE p \in flush.map
      BY <1>4, <1>7, <1>9, <2>2, <3>1, BucketStays DEF Inv, FlushOK
    <3>2. CASE p \notin flush.map
      BY <1>7, <1>9, <2>2, <3>2
    <3> QED BY <3>1, <3>2
  <2> QED BY <1>7, <2>1, <2>2 DEF FlushOK
<1>11. ASSUME NEW p \in Pairs \ doubtful PROVE Fate(p)'
  <2>1. Fate(p)
    BY DEF Inv
  <2>2. p \in ToMerge' <=> p \in ToMerge /\ p # item
    <3>1. \A u \in Threads : u # t => recorder'[u] = recorder[u] /\ ~(item \in Holds(recorder[u]))
      <4> TAKE u \in Threads
      <4> HAVE u # t
      <4>1. recorder'[u] = recorder[u]
        BY <1>1, <1>2, RecorderAt
      <4>2. ~(item \in Holds(recorder[u]))
        BY <1>1, <1>5, OneHolder
      <4> QED BY <4>1, <4>2
    <3>2. recorder'[t] = next
      BY <1>1, <1>2 DEF RecorderOK
    <3>3. p \in ToMerge' <=> p \in Holds(next) \/ \E u \in Threads : u # t /\ p \in Holds(recorder[u])
      BY <3>1, <3>2, ToMergeIs
    <3>4. p \in ToMerge <=> p \in Holds(recorder[t]) \/ \E u \in Threads : u # t /\ p \in Holds(recorder[u])
      BY ToMergeIs
    <3> QED BY <1>3, <3>1, <3>3, <3>4
  <2>3. CASE p # item
    <3>1. p \in pending' <=> p \in pending
      BY <1>4, <2>3
    <3>2. p \in Walking' <=> p \in Walking
      BY <1>4, <1>7, <2>3, WalkingIs, BucketStays
    <3> QED BY <1>4, <1>9, <2>1, <2>2, <2>3, <3>1, <3>2, FateKept
  <2>4. CASE p = item
    <3>1. p \notin pending /\ p \notin Walking /\ stored[p] = 0 /\ p \notin ToMerge' /\ at'[p[2]] # NotYet
      BY <1>4, <1>5, <1>6, <2>1, <2>2, <2>4 DEF Fate, Known
    <3>2. CASE recorder[t].map = "current"
      <4>1. p \in pending'
        BY <1>4, <2>4, <3>2
      <4>2. p \notin Walking'
        BY <1>4, <1>7, <3>1, <3>2, WalkingIs, BucketStays
      <4> QED BY <1>4, <3>1, <4>1, <4>2 DEF Fate, Somewhere
    <3>3. CASE recorder[t].map # "current"
      <4>1. p \notin pending' /\ p \in raced'
        BY <1>4, <1>9, <2>4, <3>1, <3>3
      <4> QED BY <1>4, <3>1, <4>1 DEF Fate, Somewhere
    <3> QED BY <3>2, <3>3
  <2> QED BY <2>3, <2>4
<1>12. \A p \in Pairs \ doubtful' : Fate(p)'
  BY <1>4, <1>11
<1>13. (pending \cup flush.map \subseteq Known)'
  BY <1>4, <1>5, <1>7 DEF Inv, Known
<1>14. at' \in [Requests -> Times \cup {NotYet}] /\ stored' \in [Pairs -> Nat] /\ faults' \in Nat
  BY <1>4 DEF Inv
<1> QED BY <1>8, <1>10, <1>12, <1>13, <1>14 DEF Inv
----------------------------------------------------------------------------
(* The flush: the current map becomes the old one ...                      *)
LEMMA SwapStep ==
  ASSUME Inv, SwapMaps
  PROVE  Inv'
<1>1. /\ flush.pc = "resting" /\ flush' = [pc |-> "check", map |-> pending, walked |-> {}]
      /\ pending' = {} /\ Become("current", "old")
      /\ UNCHANGED <<at, stored, faults, raced, doubtful, died>>
  BY DEF SwapMaps, AfterSwap
<1>2. flush = Resting
  BY <1>1 DEF Inv, FlushOK, FlushShape
<1>3. RecorderOK
  BY DEF Inv
<1>4. flush'.pc = "check" /\ flush'.map = pending /\ flush'.walked = {}
      /\ flush.map = {} /\ flush.walked = {}
  BY <1>1, <1>2 DEF Resting
<1>5. RecorderOK'
  <2>1. recorder' \in [Threads -> Recordings \cup {NoRecord}]
    BY <1>1, <1>3, BecomeKeeps
  <2>2. \A u \in Threads :
          /\ recorder'[u] # NoRecord <=> recorder[u] # NoRecord
          /\ recorder'[u] # NoRecord => recorder'[u].request = recorder[u].request
    BY <1>1, <1>3, BecomeKeeps
  <2>3. \A u \in Threads : recorder'[u] # NoRecord => at'[recorder'[u].request] # NotYet
    BY <1>1, <1>3, <2>2 DEF RecorderOK
  <2>4. \A u, v \in Threads :
          recorder'[u] # NoRecord /\ recorder'[v] # NoRecord /\ recorder'[u].request = recorder'[v].request
            => u = v
    BY <1>3, <2>2 DEF RecorderOK
  <2> QED BY <1>4, <2>1, <2>3, <2>4 DEF RecorderOK
<1>6. FlushOK'
  BY <1>1, <1>4 DEF FlushOK, FlushShape
<1>7. ASSUME NEW p \in Pairs \ doubtful PROVE Fate(p)'
  <2>1. Fate(p)
    BY DEF Inv
  <2>2. p \in ToMerge' <=> p \in ToMerge
    BY <1>1, <1>3, BecomeKeeps, ToMergeIs
  <2>3. p \notin Walking /\ (p \in Walking' <=> p \in pending)
    BY <1>1, <1>4, WalkingIs
  <2> QED BY <1>1, <2>1, <2>2, <2>3 DEF Fate, Somewhere
<1>8. \A p \in Pairs \ doubtful' : Fate(p)'
  BY <1>1, <1>7
<1>9. (pending \cup flush.map \subseteq Known)'
  BY <1>1, <1>4 DEF Inv, Known
<1>10. at' \in [Requests -> Times \cup {NotYet}] /\ stored' \in [Pairs -> Nat] /\ faults' \in Nat
  BY <1>1 DEF Inv
<1> QED BY <1>5, <1>6, <1>8, <1>9, <1>10 DEF Inv

(* ... and is dropped when nothing is left in it to add, but for what      *)
(* raced.                                                                  *)
LEMMA EndStep ==
  ASSUME Inv, EndFlush, flush.pc # "increment", \A p \in Walking : p \in raced
  PROVE  Inv'
<1>1. /\ flush' = Resting /\ Become("old", "orphan")
      /\ UNCHANGED <<at, pending, stored, faults, raced, doubtful, died>>
  BY DEF EndFlush, Dropped
<1>2. RecorderOK
  BY DEF Inv
<1>3. flush'.pc = "resting" /\ flush'.map = {} /\ flush'.walked = {}
  BY <1>1 DEF Resting
<1>4. RecorderOK'
  <2>1. recorder' \in [Threads -> Recordings \cup {NoRecord}]
    BY <1>1, <1>2, BecomeKeeps
  <2>2. \A u \in Threads :
          /\ recorder'[u] # NoRecord <=> recorder[u] # NoRecord
          /\ recorder'[u] # NoRecord => recorder'[u].request = recorder[u].request
          /\ recorder'[u].map # "old"
    BY <1>1, <1>2, BecomeKeeps
  <2>3. \A u \in Threads : recorder'[u] # NoRecord => at'[recorder'[u].request] # NotYet
    BY <1>1, <1>2, <2>2 DEF RecorderOK
  <2>4. \A u, v \in Threads :
          recorder'[u] # NoRecord /\ recorder'[v] # NoRecord /\ recorder'[u].request = recorder'[v].request
            => u = v
    BY <1>2, <2>2 DEF RecorderOK
  <2> QED BY <2>1, <2>2, <2>3, <2>4 DEF RecorderOK
<1>5. FlushOK'
  BY <1>1, <1>3 DEF FlushOK, FlushShape, Resting
<1>6. ASSUME NEW p \in Pairs \ doubtful PROVE Fate(p)'
  <2>1. Fate(p) /\ (p \in Walking => p \in raced)
    BY DEF Inv
  <2>2. p \in ToMerge' <=> p \in ToMerge
    BY <1>1, <1>2, BecomeKeeps, ToMergeIs
  <2>3. p \notin Walking'
    BY <1>1, <1>3, WalkingIs
  <2> QED BY <1>1, <2>1, <2>2, <2>3 DEF Fate, Somewhere
<1>7. \A p \in Pairs \ doubtful' : Fate(p)'
  BY <1>1, <1>6
<1>8. (pending \cup flush.map \subseteq Known)'
  BY <1>1, <1>3 DEF Inv, Known
<1>9. at' \in [Requests -> Times \cup {NotYet}] /\ stored' \in [Pairs -> Nat] /\ faults' \in Nat
  BY <1>1 DEF Inv
<1> QED BY <1>4, <1>5, <1>7, <1>8, <1>9 DEF Inv

LEMMA EmptyOldMapStep ==
  ASSUME Inv, EmptyOldMap
  PROVE  Inv'
<1>1. \A p \in Walking : p \in raced
  BY WalkingIs DEF EmptyOldMap
<1> QED BY <1>1, EndStep DEF EmptyOldMap

LEMMA EndWalkStep ==
  ASSUME Inv, EndWalk
  PROVE  Inv'
<1>1. flush.pc = "walk" /\ flush.all \subseteq flush.walked
  BY DEF EndWalk
<1>2. \A p \in Walking : p \in raced
  BY <1>1, WalkingIs DEF Inv, FlushOK
<1> QED BY <1>1, <1>2, EndStep DEF EndWalk

----------------------------------------------------------------------------
(* A step of the walk that changes nothing but the flush.                  *)
LEMMA WalkStep ==
  ASSUME Inv, UNCHANGED <<at, recorder, pending, stored, faults, raced, doubtful, died>>,
         flush.pc # "resting", flush'.pc # "resting", flush'.map = flush.map, FlushOK',
         \A p : p \in Walking' <=> p \in Walking
  PROVE  Inv'
<1>1. RecorderOK'
  BY DEF Inv, RecorderOK
<1>2. \A p : p \in ToMerge' <=> p \in ToMerge
  BY DEF ToMerge
<1>3. \A p \in Pairs \ doubtful' : Fate(p)'
  BY <1>2, FateKept DEF Inv
<1>4. (pending \cup flush.map \subseteq Known)'
  BY DEF Inv, Known
<1> QED BY <1>1, <1>3, <1>4 DEF Inv

LEMMA StartWalkStep ==
  ASSUME Inv, StartWalk
  PROVE  Inv'
<1>1. /\ flush.pc = "check"
      /\ flush' = [pc |-> "walk", map |-> flush.map, walked |-> {}, all |-> Buckets(flush.map)]
      /\ UNCHANGED <<at, recorder, pending, stored, faults, raced, doubtful, died>>
  BY DEF StartWalk
<1>2. flush.walked = {}
  BY <1>1 DEF Inv, FlushOK, FlushShape, Resting
<1>3. /\ flush'.pc = "walk" /\ flush'.map = flush.map /\ flush'.walked = {}
      /\ flush'.all = Buckets(flush.map)
      /\ flush' = [pc |-> "walk", map |-> flush'.map, all |-> flush'.all, walked |-> flush'.walked]
  BY <1>1
<1>4. \A p \in flush.map : Bucket(p)' \in Buckets(flush.map)
  BY <1>1, BucketStays DEF Buckets
<1>5. FlushOK'
  BY <1>3, <1>4 DEF FlushOK, FlushShape
<1>6. \A p : p \in Walking' <=> p \in Walking
  BY <1>1, <1>2, <1>3, WalkingIs, BucketStays
<1> QED BY <1>1, <1>3, <1>5, <1>6, WalkStep

LEMMA NextEntryStep ==
  ASSUME Inv, NEW b, NextEntry(b)
  PROVE  Inv'
<1>1. /\ flush.pc = "walk" /\ b \notin flush.walked
      /\ flush' = [pc |-> "increment", map |-> flush.map, all |-> flush.all,
                   walked |-> flush.walked \cup {b}, entry |-> {p \in flush.map : Bucket(p) = b}]
      /\ UNCHANGED <<at, recorder, pending, stored, faults, raced, doubtful, died>>
  BY DEF NextEntry
<1> DEFINE entry == {p \in flush.map : Bucket(p) = b}
           walked == flush.walked \cup {b}
<1>2. /\ flush'.pc = "increment" /\ flush'.map = flush.map /\ flush'.walked = walked
      /\ flush'.all = flush.all /\ flush'.entry = entry
      /\ flush' = [pc |-> "increment", map |-> flush'.map, all |-> flush'.all,
                   walked |-> flush'.walked, entry |-> flush'.entry]
  <2> HIDE DEF entry, walked
  <2>1. flush' = [pc |-> "increment", map |-> flush.map, all |-> flush.all,
                  walked |-> walked, entry |-> entry]
    BY <1>1 DEF entry, walked
  <2> QED BY <2>1
<1>3. \A p : p \in entry <=> p \in flush.map /\ Bucket(p) = b
  OBVIOUS
<1>4. \A c : c \in walked <=> c \in flush.walked \/ c = b
  OBVIOUS
<1> HIDE DEF entry, walked
<1>5. \A p : Bucket(p)' = Bucket(p)
  BY <1>1, BucketStays
<1>6. FlushOK'
  <2>1. flush'.entry \subseteq flush'.map /\ \A p \in flush'.entry : Bucket(p)' \in flush'.walked
    BY <1>2, <1>3, <1>4, <1>5
  <2>2. \A p \in flush'.map : Bucket(p)' \in flush'.all \/ p \in raced'
    BY <1>1, <1>2, <1>5 DEF Inv, FlushOK
  <2> QED BY <1>2, <2>1, <2>2 DEF FlushOK, FlushShape
<1>7. \A p : p \in Walking' <=> p \in Walking
  BY <1>1, <1>2, <1>3, <1>4, <1>5, WalkingIs
<1> QED BY <1>1, <1>2, <1>6, <1>7, WalkStep
----------------------------------------------------------------------------
(* After an entry the walk goes on without it.                             *)
LEMMA WalkOnFrom ==
  ASSUME Inv, flush.pc = "increment", WalkOn, UNCHANGED <<at, recorder>>, raced \subseteq raced'
  PROVE  /\ flush'.pc = "walk" /\ flush'.map = flush.map
         /\ RecorderOK' /\ FlushOK'
         /\ \A p : p \in ToMerge' <=> p \in ToMerge
         /\ \A p \in flush.entry : p \in Walking /\ p \notin Walking' /\ p \in Known
         /\ \A p : p \notin flush.entry => (p \in Walking' <=> p \in Walking)
<1>1. /\ flush'.pc = "walk" /\ flush'.map = flush.map /\ flush'.walked = flush.walked
      /\ flush'.all = flush.all
      /\ flush' = [pc |-> "walk", map |-> flush'.map, all |-> flush'.all, walked |-> flush'.walked]
  BY DEF WalkOn
<1>2. \A p : Bucket(p)' = Bucket(p)
  BY BucketStays
<1>3. /\ flush.entry \subseteq flush.map /\ flush.map \subseteq Known
      /\ \A p \in flush.entry : Bucket(p) \in flush.walked
      /\ \A p \in flush.map : Bucket(p) \in flush.all \/ p \in raced
  BY DEF Inv, FlushOK
<1>4. RecorderOK'
  BY <1>1 DEF Inv, RecorderOK
<1>5. FlushOK'
  BY <1>1, <1>2, <1>3 DEF FlushOK, FlushShape
<1>6. \A p : p \in ToMerge' <=> p \in ToMerge
  BY DEF ToMerge
<1>7. \A p \in flush.entry : p \in Walking /\ p \notin Walking'
  BY <1>1, <1>2, <1>3, WalkingIs
<1>8. \A p : p \notin flush.entry => (p \in Walking' <=> p \in Walking)
  BY <1>1, <1>2, WalkingIs
<1> QED BY <1>1, <1>3, <1>4, <1>5, <1>6, <1>7, <1>8

LEMMA AddedToRowsType ==
  ASSUME stored \in [Pairs -> Nat], NEW entry
  PROVE  /\ AddedToRows(entry) \in [Pairs -> Nat]
         /\ \A p \in Pairs : AddedToRows(entry)[p] = IF p \in entry THEN stored[p] + 1 ELSE stored[p]
BY DEF AddedToRows

LEMMA IncrementStep ==
  ASSUME Inv, Increment
  PROVE  Inv'
<1>1. /\ flush.pc = "increment" /\ WalkOn /\ stored' = AddedToRows(flush.entry)
      /\ UNCHANGED <<at, recorder, pending, faults, raced, doubtful, died>>
  BY DEF Increment
<1>2. /\ flush'.map = flush.map /\ RecorderOK' /\ FlushOK'
      /\ \A p : p \in ToMerge' <=> p \in ToMerge
      /\ \A p \in flush.entry : p \in Walking /\ p \notin Walking' /\ p \in Known
      /\ \A p : p \notin flush.entry => (p \in Walking' <=> p \in Walking)
  BY <1>1, WalkOnFrom
<1>3. /\ stored' \in [Pairs -> Nat]
      /\ \A p \in Pairs : stored'[p] = IF p \in flush.entry THEN stored[p] + 1 ELSE stored[p]
  BY <1>1, AddedToRowsType DEF Inv
<1>4. ASSUME NEW p \in Pairs \ doubtful PROVE Fate(p)'
  <2>1. Fate(p)
    BY DEF Inv
  <2>2. CASE p \in flush.entry
    <3>1. p \in Walking /\ p \notin Walking' /\ stored'[p] = stored[p] + 1 /\ at'[p[2]] # NotYet
      BY <1>1, <1>2, <1>3, <2>2 DEF Known
    <3>2. p \notin ToMerge /\ p \notin pending /\ stored[p] = 0
      BY <2>1, <3>1 DEF Fate
    <3>3. p \notin ToMerge' /\ p \notin pending' /\ stored'[p] = 1
      BY <1>1, <1>2, <3>1, <3>2
    <3> QED BY <3>1, <3>3 DEF Fate, Somewhere
  <2>3. CASE p \notin flush.entry
    BY <1>1, <1>2, <1>3, <2>1, <2>3, FateKept
  <2> QED BY <2>2, <2>3
<1>5. \A p \in Pairs \ doubtful' : Fate(p)'
  BY <1>1, <1>4
<1>6. (pending \cup flush.map \subseteq Known)'
  BY <1>1, <1>2 DEF Inv, Known
<1> QED BY <1>1, <1>2, <1>3, <1>5, <1>6 DEF Inv

LEMMA IncrementFailsStep ==
  ASSUME Inv, NEW committed \in BOOLEAN, IncrementFails(committed)
  PROVE  Inv'
<1>1. /\ flush.pc = "increment" /\ WalkOn /\ faults' = faults + 1
      /\ stored' = IF committed THEN AddedToRows(flush.entry) ELSE stored
      /\ doubtful' = IF committed THEN doubtful \cup flush.entry ELSE doubtful
      /\ pending' = pending \cup flush.entry
      /\ UNCHANGED <<at, recorder, raced, died>>
  BY DEF IncrementFails, MergedBack
<1>2. /\ flush'.map = flush.map /\ RecorderOK' /\ FlushOK'
      /\ \A p : p \in ToMerge' <=> p \in ToMerge
      /\ \A p \in flush.entry : p \in Walking /\ p \notin Walking' /\ p \in Known
      /\ \A p : p \notin flush.entry => (p \in Walking' <=> p \in Walking)
  BY <1>1, WalkOnFrom
<1>3. /\ stored' \in [Pairs -> Nat]
      /\ \A p \in Pairs : p \notin doubtful' => stored'[p] = stored[p]
  <2>1. CASE committed
    BY <1>1, <2>1, AddedToRowsType DEF Inv
  <2>2. CASE ~committed
    BY <1>1, <2>2 DEF Inv
  <2> QED BY <2>1, <2>2
<1>4. ASSUME NEW p \in Pairs \ doubtful' PROVE Fate(p)'
  <2>1. Fate(p)
    BY <1>1 DEF Inv
  <2>2. CASE p \in flush.entry
    <3>1. p \in Walking /\ p \notin Walking' /\ p \in pending'
      BY <1>1, <1>2, <2>2
    <3>2. p \notin ToMerge' /\ stored'[p] = 0 /\ at'[p[2]] # NotYet
      BY <1>1, <1>2, <1>3, <2>1, <2>2, <3>1 DEF Fate, Known
    <3> QED BY <3>1, <3>2 DEF Fate, Somewhere
  <2>3. CASE p \notin flush.entry
    BY <1>1, <1>2, <1>3, <2>1, <2>3, FateKept
  <2> QED BY <2>2, <2>3
<1>5. (pending \cup flush.map \subseteq Known)'
  BY <1>1, <1>2 DEF Inv, Known
<1>6. faults' \in Nat
  BY <1>1 DEF Inv
<1> QED BY <1>1, <1>2, <1>3, <1>4, <1>5, <1>6 DEF Inv

LEMMA CrashStep ==
  ASSUME Inv, Crash
  PROVE  Inv'
<1>1. /\ died' = died \cup ToMerge \cup pending \cup Walking
      /\ pending' = {} /\ flush' = Resting /\ recorder' = [t \in Threads |-> NoRecord]
      /\ faults' = faults + 1 /\ UNCHANGED <<at, stored, raced, doubtful>>
  BY DEF Crash
<1>2. flush'.pc = "resting" /\ flush'.map = {} /\ flush'.walked = {}
  BY <1>1 DEF Resting
<1>3. RecorderOK'
  BY <1>1 DEF RecorderOK, NoRecord
<1>4. FlushOK'
  BY <1>1, <1>2 DEF FlushOK, FlushShape, Resting
<1>5. \A p : p \notin ToMerge' /\ p \notin pending' /\ p \notin Walking'
  BY <1>1, <1>2, ToMergeIs, WalkingIs, HoldsIs
<1>6. \A p \in Pairs \ doubtful' : Fate(p)'
  BY <1>1, <1>5 DEF Inv, Fate, Somewhere
<1>7. faults' \in Nat
  BY <1>1 DEF Inv
<1> QED BY <1>1, <1>2, <1>3, <1>4, <1>6, <1>7 DEF Inv

----------------------------------------------------------------------------
LEMMA InvInitially == Init => Inv
<1> SUFFICES ASSUME Init PROVE Inv
  OBVIOUS
<1>1. /\ at = [r \in Requests |-> NotYet] /\ recorder = [t \in Threads |-> NoRecord]
      /\ pending = {} /\ flush = Resting /\ stored = [p \in Pairs |-> 0] /\ faults = 0
  BY DEF Init
<1>2. flush.pc = "resting" /\ flush.map = {} /\ flush.walked = {}
  BY <1>1 DEF Resting
<1>3. RecorderOK
  BY <1>1 DEF RecorderOK, NoRecord
<1>4. FlushOK
  BY <1>1, <1>2 DEF FlushOK, FlushShape
<1>5. \A p : p \notin ToMerge /\ p \notin Walking
  BY <1>1, <1>2, ToMergeIs, WalkingIs, HoldsIs
<1>6. \A p \in Pairs : Fate(p)
  <2> TAKE p \in Pairs
  <2>1. stored[p] = 0 /\ at[p[2]] = NotYet
    BY <1>1 DEF Pairs
  <2> QED BY <1>1, <1>5, <2>1 DEF Fate
<1> QED BY <1>1, <1>2, <1>3, <1>4, <1>6 DEF Inv

LEMMA InvInductive == Inv /\ [Next]_vars => Inv'
<1> SUFFICES ASSUME Inv, [Next]_vars PROVE Inv'
  OBVIOUS
<1>1. CASE UNCHANGED vars
  <2>1. UNCHANGED <<at, recorder, pending, flush, stored, faults, raced, doubtful, died>>
    BY <1>1 DEF vars
  <2>2. RecorderOK' /\ FlushOK'
    BY <2>1 DEF Inv, RecorderOK, FlushOK, FlushShape, Resting, Bucket
  <2>3. \A p : (p \in ToMerge' <=> p \in ToMerge) /\ (p \in Walking' <=> p \in Walking)
    BY <2>1, WalkingIs, BucketStays DEF ToMerge
  <2>4. \A p \in Pairs \ doubtful' : Fate(p)'
    BY <2>1, <2>3, FateKept DEF Inv
  <2> QED BY <2>1, <2>2, <2>4 DEF Inv, Known
<1>2. ASSUME NEW t \in Threads, (\E s \in Times : Record(t, s)) \/ GetMap(t) \/ Merge(t)
      PROVE  Inv'
  BY <1>2, RecordStep, GetMapStep, MergeStep
<1>3. CASE FlushPending
  BY <1>3, SwapStep, EmptyOldMapStep, StartWalkStep, NextEntryStep, EndWalkStep, IncrementStep
     DEF FlushPending
<1> QED BY <1>1, <1>2, <1>3, IncrementFailsStep, CrashStep DEF Next

THEOREM InvCorrect == Spec => []Inv
BY InvInitially, InvInductive, PTL DEF Spec

(* Every variable of the recorder keeps its shape.                         *)
THEOREM TypeCorrect == Spec => []TypeOK
<1>1. Inv => TypeOK
  <2> SUFFICES ASSUME Inv PROVE TypeOK
    OBVIOUS
  <2>1. \A t \in Threads : recorder[t] = NoRecord \/ recorder[t].map \in {"none", "current", "old", "orphan"}
    BY DEF Inv, RecorderOK, Recordings, Maps
  <2>2. \A p \in pending \cup flush.map : p \in Pairs /\ at[p[2]] # NotYet
    BY DEF Inv, Known
  <2> QED BY <2>1, <2>2 DEF TypeOK, Inv, RecorderOK
<1> QED BY <1>1, InvCorrect, PTL

(* Whoever records when, and whatever the flush does meanwhile: a request  *)
(* is on its way to each of its rows once or has reached it, but for the   *)
(* races, crashes and doubtful increments the histories name.              *)
THEOREM CountedOnceHolds == Spec => []CountedOnce
<1>1. ASSUME Inv PROVE CountedOnce
  <2> SUFFICES ASSUME NEW p \in Pairs \ doubtful, at[p[2]] # NotYet
               PROVE  Copies(p) <= 1 /\ (p \in raced \cup died \/ Copies(p) = 1)
    BY DEF CountedOnce
  <2> DEFINE places == {k \in 1..3 : \/ k = 1 /\ p \in ToMerge
                                     \/ k = 2 /\ p \in pending
                                     \/ k = 3 /\ p \in Walking}
  <2>1. Fate(p) /\ stored[p] \in Nat
    BY <1>1 DEF Inv
  <2>6. Copies(p) = Cardinality(places) + stored[p]
    BY DEF Copies
  <2>7. ASSUME NEW k \in 1..3, places = {k}, stored[p] = 0
        PROVE  Copies(p) <= 1 /\ (p \in raced \cup died \/ Copies(p) = 1)
    <3>1. Cardinality({k}) = 1
      BY FS_Singleton
    <3>2. Cardinality(places) = 1
      BY <2>7, <3>1
    <3> HIDE DEF places
    <3> QED BY <2>6, <2>7, <3>2
  <2>2. CASE p \in ToMerge
    <3>1. places = {1} /\ stored[p] = 0
      BY <2>1, <2>2 DEF Fate
    <3> HIDE DEF places
    <3> QED BY <2>7, <3>1
  <2>3. CASE p \in pending
    <3>1. places = {2} /\ stored[p] = 0
      BY <2>1, <2>3 DEF Fate
    <3> HIDE DEF places
    <3> QED BY <2>7, <3>1
  <2>4. CASE p \in Walking
    <3>1. places = {3} /\ stored[p] = 0
      BY <2>1, <2>4 DEF Fate
    <3> HIDE DEF places
    <3> QED BY <2>7, <3>1
  <2>5. CASE p \notin ToMerge /\ p \notin pending /\ p \notin Walking
    <3>1. places = {}
      BY <2>5
    <3>3. Cardinality(places) = 0
      BY <3>1, FS_EmptySet
    <3>2. Copies(p) = stored[p]
      <4> HIDE DEF places
      <4> QED BY <2>1, <2>6, <3>3
    <3> QED BY <2>1, <2>5, <3>2 DEF Fate, Somewhere
  <2> QED BY <2>2, <2>3, <2>4, <2>5
<1> QED BY <1>1, InvCorrect, PTL
=============================================================================
