------------------------- MODULE EventHotPathProofs -------------------------
(***************************************************************************)
(* The safety proofs of EventHotPath, for any number of users, keys,       *)
(* request threads, calls, expiries and restarts of Redis.                 *)
(***************************************************************************)
EXTENDS EventHotPath, SequenceTheorems, FiniteSetTheorems, TLAPS

----------------------------------------------------------------------------
(* What Redis holds, in memory and in its file alike.  The newest accepted *)
(* event under a key that has a v2 record is the one the record is about.  *)
Accepted(r, k) == {i \in DOMAIN r.stream : r.stream[i].type = "new" /\ r.stream[i].key = k}
Live(r, k) == r.idem[k] # NoRecord /\ r.idem[k].at # LegacyAt
Counted(r) == \A k \in Keys :
  /\ IsFiniteSet(Accepted(r, k))
  /\ Cardinality(Accepted(r, k)) = r.expired[k] + (IF Live(r, k) THEN 1 ELSE 0)

Newest(r, i, k, upto) ==
  /\ i \in Accepted(r, k) /\ i <= upto
  /\ \A j \in Accepted(r, k) : j <= upto => j <= i
RecordIsNewest(r) ==
  \A k \in Keys : Live(r, k) =>
    \E i \in DOMAIN r.stream :
      Newest(r, i, k, Len(r.stream)) /\ r.stream[i].payload = r.idem[k].payload
ConflictsReal(r) ==
  \A n \in DOMAIN r.stream : r.stream[n].type = "conflict" =>
    \E i \in DOMAIN r.stream :
      Newest(r, i, r.stream[n].key, n) /\ r.stream[i].payload # r.stream[n].payload

Summed(r) == \A u \in Users : r.score[u] = Total(r.stream, u)

Sound(r) == r \in Redis /\ Summed(r) /\ Counted(r) /\ RecordIsNewest(r) /\ ConflictsReal(r)

(* What has been said of a key, or is about to be: the answers given, and  *)
(* what the threads that have their reply would answer.                    *)
Replied(t) == thread[t].pc = "returned"
View(t) ==
  [id |-> thread[t].call.id, key |-> thread[t].call.key, life |-> thread[t].life,
   payload |-> thread[t].value.payload, replayed |-> ~thread[t].isNew,
   legacy |-> thread[t].value.at = LegacyAt, at |-> StoredAt(t)]
Claims == answers \cup {View(t) : t \in {u \in Threads : Replied(u)}}

Agree(a, b) ==
  /\ a.payload = b.payload /\ a.legacy = b.legacy
  /\ a.at = b.at \/ a.legacy
  /\ a.replayed \/ b.replayed \/ a = b
ClaimsAgree == \A a, b \in Claims : a.key = b.key /\ a.life = b.life => Agree(a, b)

(* What is said of a key's present life is what its record says. *)
Matches(a, record) ==
  /\ record # NoRecord
  /\ a.payload = record.payload /\ a.legacy = (record.at = LegacyAt)
  /\ a.at = record.at \/ a.legacy
ClaimsCurrent ==
  \A a \in Claims :
    /\ a.key \in Keys /\ a.life \in Nat /\ a.life <= life[a.key]
    /\ a.life = life[a.key] => Matches(a, redis.idem[a.key])

ThreadStates ==
  {Idle} \cup [pc : {"waiting"}, call : Calls]
         \cup [pc : {"returned"}, call : Calls, isNew : BOOLEAN, value : Records, life : Nat]
Stamped == clock # LegacyAt /\ \A call \in wire : call.at # LegacyAt

Inv ==
  /\ Sound(redis) /\ Sound(aof)
  /\ wire \subseteq Calls /\ thread \in [Threads -> ThreadStates] /\ Stamped
  /\ {clock, calls, restarts} \subseteq Nat /\ life \in [Keys -> Nat]
  /\ ClaimsAgree /\ ClaimsCurrent

----------------------------------------------------------------------------
(* The sum a recursive function computes over a stream, without the        *)
(* recursion: least counterexamples take the place of an induction.        *)
LEMMA Least ==
  ASSUME NEW S \in SUBSET Nat, S # {}
  PROVE  \E m \in S : \A n \in S : m <= n
<1> DEFINE R == {ss \in Nat \X Nat : ss[1] < ss[2]}
<1>1. IsWellFoundedOn(R, Nat)
  BY NatLessThanWellFounded DEF OpToRel
<1>2. PICK x \in S : \A y \in S : ~ (<<y, x>> \in R)
  BY <1>1, WFMin
<1>3. \A y \in S : ~(y < x) /\ y \in Nat /\ x \in Nat
  BY <1>2
<1> HIDE DEF R
<1> QED BY <1>3

Sums(f, s, u, n) ==
  /\ f \in [0..n -> Nat] /\ f[0] = 0
  /\ \A i \in 1..n : f[i] = f[i - 1] + Share(s[i], u)

LEMMA SumsExist ==
  ASSUME NEW s, NEW u, NEW n \in Nat, \A i \in 1..n : Share(s[i], u) \in Nat
  PROVE  \E f : Sums(f, s, u, n)
<1> DEFINE S == {m \in 0..n : ~ \E f : Sums(f, s, u, m)}
<1> SUFFICES ASSUME S # {} PROVE FALSE
  OBVIOUS
<1>1. PICK m \in S : \A k \in S : m <= k
  <2>1. S \in SUBSET Nat
    OBVIOUS
  <2> HIDE DEF S
  <2> QED BY <2>1, Least
<1>2. m # 0
  <2>1. Sums([i \in 0..0 |-> 0], s, u, 0)
    BY DEF Sums
  <2> QED BY <2>1
<1>3. m - 1 \in 0..n /\ m - 1 \notin S
  BY <1>1, <1>2
<1>4. PICK f : Sums(f, s, u, m - 1)
  BY <1>3
<1> DEFINE g == [i \in 0..m |-> IF i = m THEN f[m - 1] + Share(s[m], u) ELSE f[i]]
<1>5. Sums(g, s, u, m)
  BY <1>2, <1>3, <1>4 DEF Sums
<1> QED BY <1>5

LEMMA SumsAgree ==
  ASSUME NEW s, NEW t, NEW u, NEW n \in Nat, NEW k \in Nat, n <= k, \A i \in 1..n : s[i] = t[i],
         NEW f, Sums(f, s, u, n), NEW g, Sums(g, t, u, k)
  PROVE  f[n] = g[n]
<1> DEFINE S == {m \in 0..n : f[m] # g[m]}
<1> SUFFICES ASSUME S # {} PROVE FALSE
  OBVIOUS
<1>1. PICK m \in S : \A j \in S : m <= j
  <2>1. S \in SUBSET Nat
    OBVIOUS
  <2> HIDE DEF S
  <2> QED BY <2>1, Least
<1>2. m # 0
  BY DEF Sums
<1>3. m - 1 \in 0..n /\ m - 1 \notin S
  BY <1>1, <1>2
<1> QED BY <1>2, <1>3 DEF Sums

LEMMA TotalIs ==
  ASSUME NEW s, NEW u, Len(s) \in Nat, \A i \in 1..Len(s) : Share(s[i], u) \in Nat
  PROVE  \E f : Sums(f, s, u, Len(s)) /\ Total(s, u) = f[Len(s)]
<1> DEFINE sum[i \in 0..Len(s)] == IF i = 0 THEN 0 ELSE sum[i - 1] + Share(s[i], u)
           Body(g) == [i \in 0..Len(s) |-> IF i = 0 THEN 0 ELSE g[i - 1] + Share(s[i], u)]
<1>1. PICK f : Sums(f, s, u, Len(s))
  BY SumsExist
<1>2. f = Body(f)
  BY <1>1 DEF Sums
<1>3. sum = Body(sum)
  <2>1. sum = CHOOSE g : g = Body(g)
    BY DEF sum
  <2> HIDE DEF sum, Body
  <2> QED BY <1>2, <2>1
<1>4. Total(s, u) = sum[Len(s)]
  BY DEF Total
<1> HIDE DEF sum
<1>5. DOMAIN sum = 0..Len(s) /\ sum[0] = 0 /\ \A i \in 1..Len(s) : sum[i] = sum[i - 1] + Share(s[i], u)
  BY <1>3
<1>6. \A i \in 0..Len(s) : sum[i] = f[i]
  <2> DEFINE S == {m \in 0..Len(s) : sum[m] # f[m]}
  <2> SUFFICES ASSUME S # {} PROVE FALSE
    OBVIOUS
  <2>1. PICK m \in S : \A j \in S : m <= j
    <3>1. S \in SUBSET Nat
      OBVIOUS
    <3> HIDE DEF S
    <3> QED BY <3>1, Least
  <2>2. m # 0
    BY <1>1, <1>5 DEF Sums
  <2>3. m - 1 \in 0..Len(s) /\ m - 1 \notin S
    BY <2>1, <2>2
  <2> HIDE DEF Body
  <2> QED BY <1>1, <1>5, <2>2, <2>3 DEF Sums
<1> QED BY <1>1, <1>4, <1>6

(* The sum over a stream is that over what came before its last entry,     *)
(* and the entry's share.                                                  *)
LEMMA TotalOfAppend ==
  ASSUME NEW s \in Seq(Entries), NEW e \in Entries, NEW u \in Users
  PROVE  /\ Total(s, u) \in Nat
         /\ Total(Append(s, e), u) = Total(s, u) + Share(e, u)
<1> DEFINE q == Append(s, e)
           n == Len(s)
<1>1. n \in Nat /\ q \in Seq(Entries) /\ Len(q) = n + 1 /\ q[n + 1] = e /\ \A i \in 1..n : q[i] = s[i]
  BY AppendProperties, LenProperties
<1>2. \A x \in Entries : Share(x, u) \in Nat
  BY HotPathAssumption DEF Share, Entries, Payloads
<1> HIDE DEF q, n
<1>3. \A i \in 1..Len(s) : Share(s[i], u) \in Nat
  BY <1>2, ElementOfSeq
<1>4. \A i \in 1..Len(q) : Share(q[i], u) \in Nat
  BY <1>1, <1>2, ElementOfSeq
<1>5. PICK f : Sums(f, s, u, n) /\ Total(s, u) = f[n]
  BY <1>1, <1>3, TotalIs DEF n
<1>6. PICK g : Sums(g, q, u, n + 1) /\ Total(q, u) = g[n + 1]
  <2>1. Len(q) \in Nat
    BY <1>1
  <2>2. \E g : Sums(g, q, u, Len(q)) /\ Total(q, u) = g[Len(q)]
    BY <1>4, <2>1, TotalIs
  <2> QED BY <1>1, <2>2
<1>7. f[n] = g[n]
  BY <1>1, <1>5, <1>6, SumsAgree
<1>8. g[n + 1] = g[n] + Share(e, u) /\ f[n] \in Nat
  BY <1>1, <1>5, <1>6 DEF Sums
<1> QED BY <1>5, <1>6, <1>7, <1>8 DEF q

----------------------------------------------------------------------------
LEMMA RedisFields ==
  ASSUME NEW r \in Redis
  PROVE  /\ r.score \in [Users -> Nat] /\ r.idem \in [Keys -> Records \cup {NoRecord}]
         /\ r.stream \in Seq(Entries) /\ r.expired \in [Keys -> Nat]
         /\ Len(r.stream) \in Nat /\ DOMAIN r.stream = 1..Len(r.stream)
         /\ \A i \in DOMAIN r.stream : r.stream[i] \in Entries
<1>1. /\ r.score \in [Users -> Nat] /\ r.idem \in [Keys -> Records \cup {NoRecord}]
      /\ r.stream \in Seq(Entries) /\ r.expired \in [Keys -> Nat]
  BY DEF Redis
<1>2. Len(r.stream) \in Nat /\ DOMAIN r.stream = 1..Len(r.stream)
  BY <1>1, LenProperties
<1> QED BY <1>1, <1>2, ElementOfSeq

(* An entry at the end of the stream leaves the others where they are.     *)
LEMMA EntryAdded ==
  ASSUME NEW r \in Redis, NEW q \in Redis, NEW e \in Entries, q.stream = Append(r.stream, e)
  PROVE  LET n == Len(r.stream) + 1
         IN  /\ Len(q.stream) = n /\ n \in DOMAIN q.stream /\ q.stream[n] = e
             /\ DOMAIN r.stream = 1..Len(r.stream) /\ DOMAIN q.stream = DOMAIN r.stream \cup {n}
             /\ \A i \in DOMAIN r.stream : q.stream[i] = r.stream[i] /\ i < n
             /\ \A k \in Keys : Accepted(q, k) =
                  IF e.type = "new" /\ e.key = k THEN Accepted(r, k) \cup {n} ELSE Accepted(r, k)
<1> DEFINE n == Len(r.stream) + 1
<1>1. r.stream \in Seq(Entries) /\ Len(r.stream) \in Nat /\ DOMAIN r.stream = 1..Len(r.stream)
  BY RedisFields
<1>2. /\ Len(q.stream) = n /\ q.stream[n] = e
      /\ \A i \in 1..Len(r.stream) : q.stream[i] = r.stream[i]
  BY <1>1, AppendProperties
<1>3. DOMAIN q.stream = 1..n
  BY <1>2, RedisFields
<1>4. DOMAIN q.stream = DOMAIN r.stream \cup {n} /\ n \in DOMAIN q.stream
  BY <1>1, <1>3
<1>5. \A i \in DOMAIN r.stream : q.stream[i] = r.stream[i] /\ i < n
  BY <1>1, <1>2
<1>6. n \notin DOMAIN r.stream
  BY <1>1
<1> HIDE DEF n
<1>7. ASSUME NEW k \in Keys
      PROVE  Accepted(q, k) = IF e.type = "new" /\ e.key = k THEN Accepted(r, k) \cup {n} ELSE Accepted(r, k)
  BY <1>2, <1>4, <1>5, <1>6 DEF Accepted
<1> QED BY <1>1, <1>2, <1>4, <1>5, <1>7 DEF n
(* What the script leaves of each part of Redis. *)
LEMMA NewEventParts ==
  ASSUME NEW r \in Redis, NEW call \in Calls
  PROVE  LET q == NewEvent(r, call)
             e == [type |-> "new", key |-> call.key, payload |-> call.payload]
         IN  /\ q \in Redis /\ e \in Entries
             /\ q.score = [r.score EXCEPT ![call.payload.user] = @ + call.payload.delta]
             /\ q.idem = [r.idem EXCEPT ![call.key] = [payload |-> call.payload, at |-> call.at]]
             /\ q.stream = Append(r.stream, e) /\ q.expired = r.expired
<1> DEFINE q == NewEvent(r, call)
           e == [type |-> "new", key |-> call.key, payload |-> call.payload]
           known == [payload |-> call.payload, at |-> call.at]
<1>1. /\ r.score \in [Users -> Nat] /\ r.idem \in [Keys -> Records \cup {NoRecord}]
      /\ r.stream \in Seq(Entries) /\ r.expired \in [Keys -> Nat]
  BY RedisFields
<1>2. /\ call.key \in Keys /\ call.payload \in Payloads /\ call.at \in Nat
      /\ call.payload.user \in Users /\ call.payload.delta \in Nat
  BY HotPathAssumption DEF Calls, Payloads
<1>3. known \in Records /\ e \in Entries
  BY <1>2 DEF Records, Entries
<1>4. /\ q.score = [r.score EXCEPT ![call.payload.user] = @ + call.payload.delta]
      /\ q.idem = [r.idem EXCEPT ![call.key] = known]
      /\ q.stream = Append(r.stream, e) /\ q.expired = r.expired
  BY DEF NewEvent, Redis
<1>5. /\ [r.score EXCEPT ![call.payload.user] = @ + call.payload.delta] \in [Users -> Nat]
      /\ [r.idem EXCEPT ![call.key] = known] \in [Keys -> Records \cup {NoRecord}]
      /\ Append(r.stream, e) \in Seq(Entries)
  <2> HIDE DEF e, known
  <2>1. Append(r.stream, e) \in Seq(Entries)
    BY <1>1, <1>3, AppendProperties
  <2> QED BY <1>1, <1>2, <1>3, <2>1
<1>6. q \in Redis
  BY <1>5 DEF NewEvent, Redis
<1> QED BY <1>3, <1>4, <1>6

LEMMA KnownEventParts ==
  ASSUME NEW r \in Redis, NEW call \in Calls
  PROVE  LET q == KnownEvent(r, call)
             e == [type |-> "conflict", key |-> call.key, payload |-> call.payload]
         IN  /\ q \in Redis /\ e \in Entries
             /\ q.score = r.score /\ q.idem = r.idem /\ q.expired = r.expired
             /\ \/ q = r
                \/ /\ q.stream = Append(r.stream, e)
                   /\ r.idem[call.key].at # LegacyAt /\ r.idem[call.key].payload # call.payload
<1> DEFINE q == KnownEvent(r, call)
           e == [type |-> "conflict", key |-> call.key, payload |-> call.payload]
<1>1. /\ r.score \in [Users -> Nat] /\ r.idem \in [Keys -> Records \cup {NoRecord}]
      /\ r.stream \in Seq(Entries) /\ r.expired \in [Keys -> Nat]
  BY RedisFields
<1>2. e \in Entries
  BY DEF Calls, Entries
<1>3. Append(r.stream, e) \in Seq(Entries)
  BY <1>1, <1>2, AppendProperties
<1>4. CASE q = r
  BY <1>2, <1>4
<1>5. CASE q = [r EXCEPT !.stream = Append(@, e)] /\ r.idem[call.key].at # LegacyAt /\ r.idem[call.key].payload # call.payload
  <2> HIDE DEF e
  <2>1. q \in Redis /\ q.stream = Append(r.stream, e)
        /\ q.score = r.score /\ q.idem = r.idem /\ q.expired = r.expired
    <3> HIDE DEF q
    <3> QED BY <1>1, <1>3, <1>5 DEF Redis
  <2> QED BY <1>2, <1>5, <2>1 DEF e
<1> QED BY <1>4, <1>5 DEF KnownEvent

(* A new event under a key without a record keeps Redis sound. *)
LEMMA NewEventSound ==
  ASSUME NEW r, Sound(r), NEW call \in Calls, call.at # LegacyAt, r.idem[call.key] = NoRecord
  PROVE  Sound(NewEvent(r, call))
<1> DEFINE q == NewEvent(r, call)
           e == [type |-> "new", key |-> call.key, payload |-> call.payload]
           known == [payload |-> call.payload, at |-> call.at]
           n == Len(r.stream) + 1
<1>1. /\ r \in Redis /\ q \in Redis /\ e \in Entries /\ q.stream = Append(r.stream, e)
      /\ q.idem = [r.idem EXCEPT ![call.key] = known] /\ q.expired = r.expired
      /\ q.score = [r.score EXCEPT ![call.payload.user] = @ + call.payload.delta]
  BY NewEventParts DEF Sound
<1>2. call.key \in Keys /\ e.type = "new" /\ e.key = call.key /\ e.payload = call.payload
  BY DEF Calls
<1>3. known \in Records /\ known # NoRecord /\ known.at # LegacyAt /\ known.payload = call.payload
  BY HotPathAssumption DEF Calls, Records
<1> HIDE DEF q, e, known
<1>4. /\ Len(q.stream) = n /\ n \in DOMAIN q.stream /\ q.stream[n] = e
      /\ DOMAIN r.stream = 1..Len(r.stream) /\ DOMAIN q.stream = DOMAIN r.stream \cup {n}
      /\ \A i \in DOMAIN r.stream : q.stream[i] = r.stream[i] /\ i < n
      /\ \A k \in Keys : Accepted(q, k) = IF k = call.key THEN Accepted(r, k) \cup {n} ELSE Accepted(r, k)
  BY <1>1, <1>2, EntryAdded
<1>5. r.idem \in [Keys -> Records \cup {NoRecord}] /\ r.expired \in [Keys -> Nat] /\ Len(r.stream) \in Nat
  BY <1>1, RedisFields
<1> HIDE DEF n
<1>6. \A k \in Keys : Accepted(r, k) \subseteq DOMAIN r.stream /\ n \notin Accepted(r, k)
  BY <1>4 DEF Accepted
<1>7. \A k \in Keys : Live(q, k) <=> k = call.key \/ Live(r, k)
  BY <1>1, <1>2, <1>3, <1>5 DEF Live
<1>8. Counted(q)
  <2> SUFFICES ASSUME NEW k \in Keys
               PROVE  /\ IsFiniteSet(Accepted(q, k))
                      /\ Cardinality(Accepted(q, k)) = q.expired[k] + (IF Live(q, k) THEN 1 ELSE 0)
    BY DEF Counted
  <2>1. /\ IsFiniteSet(Accepted(r, k))
        /\ Cardinality(Accepted(r, k)) = r.expired[k] + (IF Live(r, k) THEN 1 ELSE 0)
    BY DEF Sound, Counted
  <2>2. CASE k # call.key
    BY <1>1, <1>4, <1>7, <2>1, <2>2
  <2>3. CASE k = call.key
    <3>1. Cardinality(Accepted(r, k)) = r.expired[k] /\ r.expired[k] \in Nat
      BY <1>5, <2>1, <2>3 DEF Live
    <3>2. IsFiniteSet(Accepted(r, k) \cup {n}) /\ Cardinality(Accepted(r, k) \cup {n}) = Cardinality(Accepted(r, k)) + 1
      BY <1>6, <2>1, FS_AddElement
    <3> QED BY <1>1, <1>4, <1>7, <2>3, <3>1, <3>2
  <2> QED BY <2>2, <2>3
<1>9. \A m \in DOMAIN r.stream \cup {n} : m \in Nat /\ m <= n
  BY <1>4, <1>5 DEF n
<1>10. RecordIsNewest(q)
  <2> SUFFICES ASSUME NEW k \in Keys, Live(q, k)
               PROVE  \E i \in DOMAIN q.stream :
                        Newest(q, i, k, Len(q.stream)) /\ q.stream[i].payload = q.idem[k].payload
    BY DEF RecordIsNewest
  <2>1. CASE k = call.key
    <3>1. Newest(q, n, k, Len(q.stream))
      BY <1>2, <1>4, <1>9, <2>1 DEF Newest
    <3>2. q.stream[n].payload = q.idem[k].payload
      BY <1>1, <1>2, <1>3, <1>4, <1>5, <2>1
    <3> QED BY <1>4, <3>1, <3>2
  <2>2. CASE k # call.key
    <3>1. PICK i \in DOMAIN r.stream :
             Newest(r, i, k, Len(r.stream)) /\ r.stream[i].payload = r.idem[k].payload
      BY <1>7, <2>2 DEF Sound, RecordIsNewest
    <3>2. Newest(q, i, k, Len(q.stream))
      BY <1>4, <1>6, <1>9, <2>2, <3>1 DEF Newest
    <3>3. q.stream[i].payload = q.idem[k].payload
      BY <1>1, <1>4, <1>5, <2>2, <3>1
    <3> QED BY <1>4, <3>2, <3>3
  <2> QED BY <2>1, <2>2
<1>11. ConflictsReal(q)
  <2> SUFFICES ASSUME NEW m \in DOMAIN q.stream, q.stream[m].type = "conflict"
               PROVE  \E i \in DOMAIN q.stream :
                        Newest(q, i, q.stream[m].key, m) /\ q.stream[i].payload # q.stream[m].payload
    BY DEF ConflictsReal
  <2>1. m \in DOMAIN r.stream /\ q.stream[m] = r.stream[m] /\ m < n /\ r.stream[m].key \in Keys
    <3>1. m # n
      BY <1>2, <1>4
    <3>2. m \in DOMAIN r.stream
      BY <1>4, <3>1
    <3> QED BY <1>1, <1>4, <3>2, RedisFields DEF Entries
  <2>2. PICK i \in DOMAIN r.stream :
           Newest(r, i, r.stream[m].key, m) /\ r.stream[i].payload # r.stream[m].payload
    BY <2>1 DEF Sound, ConflictsReal
  <2>3. Newest(q, i, r.stream[m].key, m)
    <3>1. ~(n <= m)
      BY <1>9, <2>1
    <3> QED BY <1>4, <2>1, <2>2, <3>1 DEF Newest
  <2> QED BY <1>4, <2>1, <2>2, <2>3
<1>12. Summed(q)
  <2> SUFFICES ASSUME NEW u \in Users PROVE q.score[u] = Total(q.stream, u)
    BY DEF Summed
  <2>1. r.score \in [Users -> Nat] /\ r.stream \in Seq(Entries)
    BY <1>1, RedisFields
  <2>2. Total(q.stream, u) = r.score[u] + Share(e, u) /\ r.score[u] \in Nat
    BY <1>1, <2>1, TotalOfAppend DEF Sound, Summed
  <2>3. /\ call.payload.user \in Users /\ call.payload.delta \in Nat
        /\ Share(e, u) = IF call.payload.user = u THEN call.payload.delta ELSE 0
    BY <1>2, HotPathAssumption DEF Calls, Payloads, Share
  <2> QED BY <1>1, <2>1, <2>2, <2>3
<1> QED BY <1>1, <1>8, <1>10, <1>11, <1>12 DEF Sound, q

(* So does a replay or a conflict, of whatever payload. *)
LEMMA KnownEventSound ==
  ASSUME NEW r, Sound(r), NEW call \in Calls, r.idem[call.key] # NoRecord
  PROVE  Sound(KnownEvent(r, call))
<1> DEFINE q == KnownEvent(r, call)
           e == [type |-> "conflict", key |-> call.key, payload |-> call.payload]
           n == Len(r.stream) + 1
<1>1. /\ r \in Redis /\ q \in Redis /\ e \in Entries
      /\ q.idem = r.idem /\ q.expired = r.expired /\ q.score = r.score
      /\ \/ q = r
         \/ /\ q.stream = Append(r.stream, e)
            /\ r.idem[call.key].at # LegacyAt /\ r.idem[call.key].payload # call.payload
  BY KnownEventParts DEF Sound
<1>2. call.key \in Keys /\ e.type = "conflict" /\ e.key = call.key /\ e.payload = call.payload
  BY DEF Calls
<1> HIDE DEF q, e
<1>3. CASE q = r
  BY <1>3 DEF q
<1>4. CASE q.stream = Append(r.stream, e) /\ r.idem[call.key].at # LegacyAt /\ r.idem[call.key].payload # call.payload
  <2>1. /\ Len(q.stream) = n /\ n \in DOMAIN q.stream /\ q.stream[n] = e
        /\ DOMAIN r.stream = 1..Len(r.stream) /\ DOMAIN q.stream = DOMAIN r.stream \cup {n}
        /\ \A i \in DOMAIN r.stream : q.stream[i] = r.stream[i] /\ i < n
        /\ \A k \in Keys : Accepted(q, k) = Accepted(r, k)
    BY <1>1, <1>2, <1>4, EntryAdded
  <2>2. Len(r.stream) \in Nat
    BY <1>1, RedisFields
  <2>3. \A m \in DOMAIN r.stream : m \in Nat /\ m <= Len(r.stream)
    BY <2>1, <2>2
  <2>4. \A k \in Keys : Accepted(r, k) \subseteq DOMAIN r.stream
    BY DEF Accepted
  <2>5. \A m \in DOMAIN r.stream : m <= n
    BY <2>2, <2>3
  <2> HIDE DEF n
  <2>6. Counted(q)
    BY <1>1, <2>1 DEF Sound, Counted, Live
  <2>7. \A k \in Keys, i \in DOMAIN r.stream :
          Newest(r, i, k, Len(r.stream)) => Newest(q, i, k, n)
    BY <2>1, <2>3, <2>4, <2>5 DEF Newest
  <2>8. RecordIsNewest(q)
    <3> SUFFICES ASSUME NEW k \in Keys, Live(q, k)
                 PROVE  \E i \in DOMAIN q.stream :
                          Newest(q, i, k, Len(q.stream)) /\ q.stream[i].payload = q.idem[k].payload
      BY DEF RecordIsNewest
    <3>1. PICK i \in DOMAIN r.stream :
             Newest(r, i, k, Len(r.stream)) /\ r.stream[i].payload = r.idem[k].payload
      BY <1>1 DEF Sound, RecordIsNewest, Live
    <3> QED BY <1>1, <2>1, <2>7, <3>1
  <2>9. ASSUME NEW m \in DOMAIN q.stream, q.stream[m].type = "conflict"
        PROVE  \E i \in DOMAIN q.stream :
                 Newest(q, i, q.stream[m].key, m) /\ q.stream[i].payload # q.stream[m].payload
    <3>1. CASE m = n
      <4>1. PICK i \in DOMAIN r.stream :
               Newest(r, i, call.key, Len(r.stream)) /\ r.stream[i].payload = r.idem[call.key].payload
        BY <1>2, <1>4 DEF Sound, RecordIsNewest, Live
      <4> QED BY <1>2, <1>4, <2>1, <2>7, <3>1, <4>1
    <3>2. CASE m # n
      <4>1. m \in DOMAIN r.stream /\ q.stream[m] = r.stream[m]
        BY <2>1, <3>2
      <4>2. r.stream[m].key \in Keys
        BY <1>1, <4>1, RedisFields DEF Entries
      <4>3. PICK i \in DOMAIN r.stream :
               Newest(r, i, r.stream[m].key, m) /\ r.stream[i].payload # r.stream[m].payload
        BY <2>9, <4>1 DEF Sound, ConflictsReal
      <4> QED BY <2>1, <4>1, <4>2, <4>3 DEF Newest
    <3> QED BY <3>1, <3>2
  <2>10. Summed(q)
    <3> SUFFICES ASSUME NEW u \in Users PROVE q.score[u] = Total(q.stream, u)
      BY DEF Summed
    <3>1. r.score[u] \in Nat /\ r.stream \in Seq(Entries)
      BY <1>1, RedisFields
    <3>2. Share(e, u) = 0 /\ Total(q.stream, u) = r.score[u] + Share(e, u)
      BY <1>1, <1>2, <1>4, <3>1, TotalOfAppend DEF Sound, Summed, Share
    <3> QED BY <1>1, <3>1, <3>2
  <2> QED BY <1>1, <2>6, <2>8, <2>9, <2>10 DEF Sound, ConflictsReal, q
<1> QED BY <1>1, <1>3, <1>4
(* So does the end of a record. *)
LEMMA ExpirySound ==
  ASSUME NEW r, Sound(r), NEW k \in Keys, r.idem[k] # NoRecord,
         NEW q, q = [r EXCEPT !.idem[k] = NoRecord,
                              !.expired[k] = IF r.idem[k].at = LegacyAt THEN @ ELSE @ + 1]
  PROVE  Sound(q) /\ q.idem = [r.idem EXCEPT ![k] = NoRecord]
<1>0. /\ r \in Redis /\ r.idem \in [Keys -> Records \cup {NoRecord}]
      /\ r.stream \in Seq(Entries) /\ r.expired \in [Keys -> Nat]
  BY RedisFields DEF Sound
<1>1. /\ q.idem = [r.idem EXCEPT ![k] = NoRecord]
      /\ q.expired = [r.expired EXCEPT ![k] = IF Live(r, k) THEN @ + 1 ELSE @]
      /\ q.stream = r.stream /\ q.score = r.score
  BY <1>0 DEF Redis, Live
<1>2. q \in Redis
  <2>1. [r.idem EXCEPT ![k] = NoRecord] \in [Keys -> Records \cup {NoRecord}]
    BY <1>0
  <2>2. [r.expired EXCEPT ![k] = IF r.idem[k].at = LegacyAt THEN @ ELSE @ + 1] \in [Keys -> Nat]
    BY <1>0
  <2> QED BY <1>0, <2>1, <2>2 DEF Redis
<1>3. \A s \in Keys : Live(q, s) <=> s # k /\ Live(r, s)
  BY <1>0, <1>1 DEF Live
<1>4. \A s \in Keys : Accepted(q, s) = Accepted(r, s)
  BY <1>1 DEF Accepted
<1>5. Counted(q)
  <2> SUFFICES ASSUME NEW s \in Keys
               PROVE  /\ IsFiniteSet(Accepted(q, s))
                      /\ Cardinality(Accepted(q, s)) = q.expired[s] + (IF Live(q, s) THEN 1 ELSE 0)
    BY DEF Counted
  <2>1. /\ IsFiniteSet(Accepted(r, s)) /\ r.expired[s] \in Nat
        /\ Cardinality(Accepted(r, s)) = r.expired[s] + (IF Live(r, s) THEN 1 ELSE 0)
    BY <1>0 DEF Sound, Counted
  <2> QED BY <1>0, <1>1, <1>3, <1>4, <2>1
<1>6. RecordIsNewest(q)
  <2> SUFFICES ASSUME NEW s \in Keys, Live(q, s)
               PROVE  \E i \in DOMAIN q.stream :
                        Newest(q, i, s, Len(q.stream)) /\ q.stream[i].payload = q.idem[s].payload
    BY DEF RecordIsNewest
  <2>1. s # k /\ q.idem[s] = r.idem[s]
    BY <1>0, <1>1, <1>3
  <2>2. \E i \in DOMAIN r.stream :
          Newest(r, i, s, Len(r.stream)) /\ r.stream[i].payload = r.idem[s].payload
    BY <1>3 DEF Sound, RecordIsNewest
  <2> QED BY <1>1, <1>4, <2>1, <2>2 DEF Newest
<1>7. ConflictsReal(q)
  <2>1. \A s, i, n : Newest(q, i, s, n) <=> Newest(r, i, s, n)
    BY <1>1 DEF Newest, Accepted
  <2> QED BY <1>1, <2>1 DEF Sound, ConflictsReal
<1>8. Summed(q)
  BY <1>1 DEF Sound, Summed
<1> QED BY <1>1, <1>2, <1>5, <1>6, <1>7, <1>8 DEF Sound

LEMMA RedisStaysSound ==
  ASSUME Inv, [Next]_vars
  PROVE  Sound(redis') /\ Sound(aof')
<1>0. Sound(redis) /\ Sound(aof) /\ wire \subseteq Calls /\ \A call \in wire : call.at # LegacyAt
  BY DEF Inv, Stamped
<1>1. ASSUME NEW call \in wire, ProcessEvent(call) PROVE Sound(redis') /\ Sound(aof')
  <2>1. aof' = aof /\ redis' = IF redis.idem[call.key] = NoRecord
                               THEN NewEvent(redis, call) ELSE KnownEvent(redis, call)
    BY <1>1 DEF ProcessEvent
  <2>2. Sound(redis')
    BY <1>0, <2>1, NewEventSound, KnownEventSound
  <2> QED BY <1>0, <2>1, <2>2
<1>2. ASSUME NEW k \in Keys, Expire(k) PROVE Sound(redis') /\ Sound(aof')
  <2>1. Sound(redis')
    BY <1>0, <1>2, ExpirySound DEF Expire
  <2> QED BY <1>0, <1>2, <2>1 DEF Expire
<1>3. CASE redis' \in {redis, aof} /\ aof' \in {redis, aof}
  BY <1>0, <1>3
<1>4. \/ \E call \in wire : ProcessEvent(call)
      \/ \E k \in Keys : Expire(k)
      \/ redis' \in {redis, aof} /\ aof' \in {redis, aof}
  BY DEF Next, vars, Receive, Lose, Answer, Timeout, Fsync, RestartRedis, Tick
<1> QED BY <1>1, <1>2, <1>3, <1>4

----------------------------------------------------------------------------
(* Types of what is around Redis. *)
LEMMA AroundRedis ==
  ASSUME Inv, [Next]_vars
  PROVE  /\ wire' \subseteq Calls /\ Stamped'
         /\ {clock', calls', restarts'} \subseteq Nat /\ life' \in [Keys -> Nat]
<1>0. /\ wire \subseteq Calls /\ clock # LegacyAt /\ \A call \in wire : call.at # LegacyAt
      /\ {clock, calls, restarts} \subseteq Nat /\ life \in [Keys -> Nat]
  BY DEF Inv, Stamped
<1>1. ASSUME NEW t \in Threads, NEW k \in Keys, NEW p \in Payloads, Receive(t, k, p)
      PROVE  wire' \subseteq Calls /\ Stamped' /\ {clock', calls', restarts'} \subseteq Nat /\ life' = life
  <2>1. [id |-> calls, key |-> k, payload |-> p, at |-> clock] \in Calls
    BY <1>0 DEF Calls
  <2> QED BY <1>0, <1>1, <2>1 DEF Receive, Stamped
<1>2. CASE /\ wire' \subseteq wire /\ UNCHANGED <<calls, life>>
           /\ (UNCHANGED <<clock, restarts>> \/ (clock' = clock + 1 /\ restarts' = restarts))
  BY <1>0, <1>2 DEF Stamped, LegacyAt
<1>3. ASSUME NEW k \in Keys, Expire(k)
      PROVE  wire' = wire /\ UNCHANGED <<clock, calls, restarts>> /\ life' \in [Keys -> Nat]
  BY <1>0, <1>3 DEF Expire
<1>4. ASSUME RestartRedis
      PROVE  wire' = wire /\ UNCHANGED <<clock, calls>> /\ restarts' \in Nat /\ life' \in [Keys -> Nat]
  BY <1>0, <1>4 DEF RestartRedis
<1>5. \/ \E t \in Threads, k \in Keys, p \in Payloads : Receive(t, k, p)
      \/ \E k \in Keys : Expire(k)
      \/ RestartRedis
      \/ /\ wire' \subseteq wire /\ UNCHANGED <<calls, life>>
         /\ (UNCHANGED <<clock, restarts>> \/ (clock' = clock + 1 /\ restarts' = restarts))
  BY DEF Next, vars, ProcessEvent, Lose, Answer, Timeout, Fsync, Tick
<1> QED BY <1>0, <1>1, <1>2, <1>3, <1>4, <1>5 DEF Stamped

LEMMA ThreadsTyped ==
  ASSUME Inv, [Next]_vars
  PROVE  thread' \in [Threads -> ThreadStates]
<1>0. /\ wire \subseteq Calls /\ {clock, calls} \subseteq Nat /\ life \in [Keys -> Nat]
      /\ thread \in [Threads -> ThreadStates] /\ redis \in Redis
  BY DEF Inv, Sound
<1>1. ASSUME NEW t \in Threads, NEW k \in Keys, NEW p \in Payloads, Receive(t, k, p)
      PROVE  thread' \in [Threads -> ThreadStates]
  <2> DEFINE call == [id |-> calls, key |-> k, payload |-> p, at |-> clock]
  <2>1. call \in Calls
    BY <1>0 DEF Calls
  <2>2. thread' = [thread EXCEPT ![t] = [pc |-> "waiting", call |-> call]]
    BY <1>1 DEF Receive
  <2> HIDE DEF call
  <2>3. [pc |-> "waiting", call |-> call] \in ThreadStates
    BY <2>1 DEF ThreadStates
  <2> QED BY <1>0, <2>2, <2>3
<1>2. ASSUME NEW call \in wire, ProcessEvent(call) PROVE thread' \in [Threads -> ThreadStates]
  <2> DEFINE known == redis.idem[call.key]
             isNew == known = NoRecord
             value == IF isNew THEN [payload |-> call.payload, at |-> call.at] ELSE known
             next == [pc |-> "returned", call |-> call, isNew |-> isNew, value |-> value,
                      life |-> life[call.key]]
  <2>1. call \in Calls /\ call.key \in Keys /\ call.payload \in Payloads /\ call.at \in Nat
    BY <1>0 DEF Calls
  <2>2. value \in Records
    <3>1. known \in Records \cup {NoRecord}
      BY <1>0, <2>1, RedisFields
    <3> QED BY <2>1, <3>1 DEF Records
  <2>3. isNew \in BOOLEAN /\ life[call.key] \in Nat
    BY <1>0, <2>1
  <2>4. thread' = [t \in Threads |-> IF Waiting(t, call) THEN next ELSE thread[t]]
    BY <1>2 DEF ProcessEvent
  <2> HIDE DEF known, isNew, value
  <2>5. next \in ThreadStates
    BY <2>1, <2>2, <2>3 DEF ThreadStates
  <2> HIDE DEF next
  <2> QED BY <1>0, <2>4, <2>5
<1>3. Idle \in ThreadStates
  BY DEF ThreadStates
<1>4. ASSUME NEW t \in Threads, thread' = [thread EXCEPT ![t] = Idle]
      PROVE  thread' \in [Threads -> ThreadStates]
  BY <1>0, <1>3, <1>4
<1>5. ASSUME NEW call \in wire, Lose(call) PROVE thread' \in [Threads -> ThreadStates]
  BY <1>0, <1>3, <1>5 DEF Lose
<1>6. \/ \E t \in Threads, k \in Keys, p \in Payloads : Receive(t, k, p)
      \/ \E call \in wire : ProcessEvent(call)
      \/ \E call \in wire : Lose(call)
      \/ \E t \in Threads : thread' = [thread EXCEPT ![t] = Idle]
      \/ thread' = thread
  BY DEF Next, vars, Answer, Timeout, Expire, Fsync, RestartRedis, Tick
<1> QED BY <1>0, <1>1, <1>2, <1>4, <1>5, <1>6
----------------------------------------------------------------------------
(* What is said stays in agreement as long as nothing new is said and a    *)
(* record that changes begins another life.                                *)
LEMMA ClaimsKept ==
  ASSUME ClaimsAgree, ClaimsCurrent, Claims' \subseteq Claims,
         life \in [Keys -> Nat],
         \A k \in Keys : /\ life'[k] \in Nat /\ life[k] <= life'[k]
                         /\ life'[k] = life[k] => redis'.idem[k] = redis.idem[k]
  PROVE  (ClaimsAgree /\ ClaimsCurrent)'
<1>1. ClaimsAgree'
  BY DEF ClaimsAgree, Agree
<1>2. ASSUME NEW a \in Claims'
      PROVE  /\ a.key \in Keys /\ a.life \in Nat /\ a.life <= life'[a.key]
             /\ a.life = life'[a.key] => Matches(a, redis'.idem[a.key])
  <2>1. /\ a.key \in Keys /\ a.life \in Nat /\ a.life <= life[a.key]
        /\ a.life = life[a.key] => Matches(a, redis.idem[a.key])
    BY DEF ClaimsCurrent
  <2>2. life[a.key] \in Nat /\ life'[a.key] \in Nat /\ life[a.key] <= life'[a.key]
    BY <2>1
  <2>3. a.life <= life'[a.key] /\ (a.life = life'[a.key] => life'[a.key] = life[a.key])
    BY <2>1, <2>2
  <2> QED BY <2>1, <2>3
<1> QED BY <1>1, <1>2 DEF ClaimsCurrent

LEMMA ViewKept ==
  ASSUME NEW t \in Threads, thread'[t] = thread[t]
  PROVE  (Replied(t)' <=> Replied(t)) /\ View(t)' = View(t)
BY DEF Replied, View, StoredAt

(* Nothing is said but by a thread that has its reply.                     *)
LEMMA NothingSaid ==
  ASSUME answers' \subseteq Claims,
         \A t \in Threads : thread'[t] = thread[t] \/ ~(thread'[t].pc = "returned")
  PROVE  Claims' \subseteq Claims
<1> SUFFICES ASSUME NEW a \in Claims' PROVE a \in Claims
  OBVIOUS
<1>1. CASE a \in answers'
  BY <1>1
<1>2. CASE \E t \in Threads : Replied(t)' /\ a = View(t)'
  <2>1. PICK t \in Threads : Replied(t)' /\ a = View(t)'
    BY <1>2
  <2>2. thread'[t] = thread[t]
    BY <2>1 DEF Replied
  <2> QED BY <2>1, <2>2, ViewKept DEF Claims
<1> QED BY <1>1, <1>2 DEF Claims

LEMMA AnswersWereViews ==
  ASSUME Inv, NEW t \in Threads, Answer(t)
  PROVE  answers' \subseteq Claims
<1>1. CASE answers' = answers
  BY <1>1 DEF Claims
<1>2. CASE thread[t].value.payload = thread[t].call.payload
  <2>1. answers' = answers \cup {View(t)} /\ Replied(t)
    BY <1>2 DEF Answer, View, Replied
  <2> QED BY <2>1 DEF Claims
<1> QED BY <1>1, <1>2 DEF Answer

(* The script's reply to one call says what the record now is; a thread    *)
(* that made the record is the first to speak of its life.                 *)
LEMMA ReplySaid ==
  ASSUME Inv, NEW call \in wire, ProcessEvent(call)
  PROVE  (ClaimsAgree /\ ClaimsCurrent)'
<1> DEFINE known == redis.idem[call.key]
           isNew == known = NoRecord
           record == IF isNew THEN [payload |-> call.payload, at |-> call.at] ELSE known
           said == [id |-> call.id, key |-> call.key, life |-> life[call.key],
                    payload |-> record.payload, replayed |-> ~isNew,
                    legacy |-> record.at = LegacyAt,
                    at |-> IF record.at = LegacyAt THEN call.at ELSE record.at]
<1>1. /\ call \in Calls /\ call.key \in Keys /\ call.at # LegacyAt /\ redis \in Redis
      /\ life \in [Keys -> Nat] /\ thread \in [Threads -> ThreadStates]
      /\ redis.idem \in [Keys -> Records \cup {NoRecord}]
  BY RedisFields DEF Inv, Stamped, Calls, Sound
<1>2. Claims' \subseteq Claims \cup {said}
  <2> SUFFICES ASSUME NEW a \in Claims', a \notin Claims PROVE a = said
    OBVIOUS
  <2>1. answers' = answers
    BY DEF ProcessEvent
  <2>2. PICK t \in Threads : Replied(t)' /\ a = View(t)'
    BY <2>1 DEF Claims
  <2>3. CASE ~Waiting(t, call)
    <3>1. thread'[t] = thread[t]
      BY <2>3 DEF ProcessEvent
    <3> QED BY <2>2, <3>1, ViewKept DEF Claims
  <2>4. CASE Waiting(t, call)
    <3>1. thread'[t] = [pc |-> "returned", call |-> call, isNew |-> isNew, value |-> record,
                        life |-> life[call.key]]
      BY <2>4 DEF ProcessEvent
    <3> HIDE DEF isNew, record
    <3>2. View(t)' = said
      BY <3>1 DEF View, StoredAt
    <3> QED BY <2>2, <3>2
  <2> QED BY <2>3, <2>4
<1>3. life' = life /\ redis'.idem = [redis.idem EXCEPT ![call.key] = record] /\ record # NoRecord
  <2>1. CASE isNew
    <3>1. redis' = NewEvent(redis, call)
      BY <2>1 DEF ProcessEvent
    <3>2. record \in Records /\ record # NoRecord
      BY <1>1, <2>1, HotPathAssumption DEF Records, Calls
    <3>3. redis'.idem = [redis.idem EXCEPT ![call.key] = [payload |-> call.payload, at |-> call.at]]
      BY <1>1, <3>1, NewEventParts
    <3>4. life' = life
      BY DEF ProcessEvent
    <3> QED BY <2>1, <3>2, <3>3, <3>4
  <2>2. CASE ~isNew
    <3>1. redis' = KnownEvent(redis, call)
      BY <2>2 DEF ProcessEvent
    <3>2. redis'.idem = redis.idem
      BY <1>1, <3>1, KnownEventParts
    <3> QED BY <1>1, <2>2, <3>2 DEF ProcessEvent
  <2> QED BY <2>1, <2>2
<1>4. Matches(said, record)
  BY <1>3 DEF Matches
<1>5. isNew => record.at # LegacyAt
  BY <1>1
<1>6. \A a \in Claims : /\ a.key \in Keys /\ a.life \in Nat /\ a.life <= life[a.key]
                        /\ a.life = life[a.key] => Matches(a, redis.idem[a.key])
  BY DEF Inv, ClaimsCurrent
<1>7. said.key = call.key /\ said.life = life[call.key] /\ said.replayed = ~isNew
  OBVIOUS
<1>8. ASSUME NEW a \in Claims, a.key = call.key, a.life = life[call.key]
      PROVE  ~isNew /\ Matches(a, record) /\ a.payload = said.payload /\ a.legacy = said.legacy
             /\ (a.at = said.at \/ a.legacy)
  <2>1. Matches(a, known) /\ known # NoRecord
    BY <1>6, <1>8 DEF Matches
  <2>2. Matches(a, record) /\ ~isNew
    BY <2>1
  <2> HIDE DEF known, isNew, record
  <2> QED BY <2>2 DEF Matches
<1> HIDE DEF known, isNew, record, said
<1>9. ClaimsCurrent'
  <2> SUFFICES ASSUME NEW a \in Claims'
               PROVE  /\ a.key \in Keys /\ a.life \in Nat /\ a.life <= life[a.key]
                      /\ a.life = life[a.key] => Matches(a, redis'.idem[a.key])
    BY <1>3 DEF ClaimsCurrent
  <2>1. CASE a = said
    BY <1>1, <1>3, <1>4, <1>7, <2>1
  <2>2. CASE a \in Claims /\ a.key = call.key
    BY <1>1, <1>3, <1>6, <1>8, <2>2
  <2>3. CASE a \in Claims /\ a.key # call.key
    BY <1>1, <1>3, <1>6, <2>3
  <2> QED BY <1>2, <2>1, <2>2, <2>3
<1>10. ClaimsAgree'
  <2> SUFFICES ASSUME NEW a \in Claims', NEW b \in Claims', a.key = b.key, a.life = b.life
               PROVE  Agree(a, b)
    BY DEF ClaimsAgree, Agree
  <2>1. CASE a \in Claims /\ b \in Claims
    BY <2>1 DEF Inv, ClaimsAgree
  <2>2. CASE a = said /\ b = said
    BY <2>2 DEF Agree
  <2>3. CASE a = said /\ b \in Claims
    BY <1>7, <1>8, <2>3 DEF Agree
  <2>4. CASE a \in Claims /\ b = said
    BY <1>7, <1>8, <2>4 DEF Agree
  <2> QED BY <1>2, <2>1, <2>2, <2>3, <2>4
<1> QED BY <1>9, <1>10
LEMMA ClaimsStep ==
  ASSUME Inv, [Next]_vars
  PROVE  (ClaimsAgree /\ ClaimsCurrent)'
<1>0. /\ ClaimsAgree /\ ClaimsCurrent /\ life \in [Keys -> Nat] /\ redis \in Redis
      /\ thread \in [Threads -> ThreadStates]
  BY DEF Inv, Sound
<1>1. answers \subseteq Claims
  BY DEF Claims
<1>2. ASSUME Claims' \subseteq Claims, life' = life, redis' = redis
      PROVE  (ClaimsAgree /\ ClaimsCurrent)'
  BY <1>0, <1>2, ClaimsKept
<1>3. ASSUME UNCHANGED <<thread, answers>> PROVE Claims' \subseteq Claims
  <2>1. answers' \subseteq Claims /\ \A t \in Threads : thread'[t] = thread[t]
    BY <1>1, <1>3
  <2> QED BY <2>1, NothingSaid
<1>4. ASSUME NEW t \in Threads, NEW k \in Keys, NEW p \in Payloads, Receive(t, k, p)
      PROVE  (ClaimsAgree /\ ClaimsCurrent)'
  <2>1. answers' \subseteq Claims /\ life' = life /\ redis' = redis
    BY <1>1, <1>4 DEF Receive
  <2>2. \E call : thread' = [thread EXCEPT ![t] = [pc |-> "waiting", call |-> call]]
    BY <1>4 DEF Receive
  <2>3. \A u \in Threads : thread'[u] = thread[u] \/ ~(thread'[u].pc = "returned")
    BY <1>0, <2>2
  <2> QED BY <1>2, <2>1, <2>3, NothingSaid
<1>5. ASSUME NEW t \in Threads, Answer(t) \/ Timeout(t) PROVE (ClaimsAgree /\ ClaimsCurrent)'
  <2>1. answers' \subseteq Claims /\ life' = life /\ redis' = redis
    BY <1>1, <1>5, AnswersWereViews DEF Answer, Timeout
  <2>2. thread' = [thread EXCEPT ![t] = Idle]
    BY <1>5 DEF Answer, Timeout
  <2>3. \A u \in Threads : thread'[u] = thread[u] \/ ~(thread'[u].pc = "returned")
    BY <1>0, <2>2 DEF Idle
  <2> QED BY <1>2, <2>1, <2>3, NothingSaid
<1>6. ASSUME NEW call \in wire, Lose(call) PROVE (ClaimsAgree /\ ClaimsCurrent)'
  <2>1. answers' \subseteq Claims /\ life' = life /\ redis' = redis
    BY <1>1, <1>6 DEF Lose
  <2>2. \A u \in Threads : thread'[u] = thread[u] \/ ~(thread'[u].pc = "returned")
    BY <1>6 DEF Lose, Idle
  <2> QED BY <1>2, <2>1, <2>2, NothingSaid
<1>7. ASSUME NEW k \in Keys, Expire(k) PROVE (ClaimsAgree /\ ClaimsCurrent)'
  <2>1. Claims' \subseteq Claims
    BY <1>3, <1>7 DEF Expire
  <2>2. redis.idem \in [Keys -> Records \cup {NoRecord}] /\ redis'.idem = [redis.idem EXCEPT ![k] = NoRecord]
    BY <1>0, <1>7, RedisFields, ExpirySound DEF Expire, Inv
  <2>3. life' = [life EXCEPT ![k] = @ + 1]
    BY <1>7 DEF Expire
  <2>4. \A s \in Keys : /\ life'[s] \in Nat /\ life[s] <= life'[s]
                        /\ life'[s] = life[s] => redis'.idem[s] = redis.idem[s]
    BY <1>0, <2>2, <2>3
  <2> QED BY <1>0, <2>1, <2>4, ClaimsKept
<1>8. ASSUME RestartRedis PROVE (ClaimsAgree /\ ClaimsCurrent)'
  <2>1. Claims' \subseteq Claims
    BY <1>3, <1>8 DEF RestartRedis
  <2>2. redis' = aof /\ life' = [k \in Keys |-> IF aof.idem[k] = redis.idem[k] THEN life[k] ELSE life[k] + 1]
    BY <1>8 DEF RestartRedis
  <2>3. \A s \in Keys : /\ life'[s] \in Nat /\ life[s] <= life'[s]
                        /\ life'[s] = life[s] => redis'.idem[s] = redis.idem[s]
    BY <1>0, <2>2
  <2> QED BY <1>0, <2>1, <2>3, ClaimsKept
<1>9. ASSUME UNCHANGED <<redis, life, thread, answers>> PROVE (ClaimsAgree /\ ClaimsCurrent)'
  BY <1>2, <1>3, <1>9
<1>10. \/ \E t \in Threads, k \in Keys, p \in Payloads : Receive(t, k, p)
       \/ \E call \in wire : ProcessEvent(call)
       \/ \E call \in wire : Lose(call)
       \/ \E t \in Threads : Answer(t) \/ Timeout(t)
       \/ \E k \in Keys : Expire(k)
       \/ RestartRedis
       \/ UNCHANGED <<redis, life, thread, answers>>
  BY DEF Next, vars, Fsync, Tick
<1> QED BY <1>4, <1>5, <1>6, <1>7, <1>8, <1>9, <1>10, ReplySaid

----------------------------------------------------------------------------
LEMMA InvInitially == Init => Inv
<1> SUFFICES ASSUME Init PROVE Inv
  OBVIOUS
<1>1. PICK legacy \in [Keys -> {NoRecord} \cup [payload : Payloads, at : {LegacyAt}]] :
        redis = [score |-> [u \in Users |-> 0], idem |-> legacy,
                 stream |-> << >>, expired |-> [k \in Keys |-> 0]]
  BY DEF Init
<1>2. redis \in Redis
  <2>1. legacy \in [Keys -> Records \cup {NoRecord}]
    BY DEF Records, LegacyAt
  <2>2. << >> \in Seq(Entries)
    OBVIOUS
  <2> QED BY <1>1, <2>1, <2>2 DEF Redis
<1>3. \A k \in Keys : Accepted(redis, k) = {} /\ ~Live(redis, k) /\ redis.expired[k] = 0
  BY <1>1 DEF Accepted, Live, LegacyAt
<1>4. Sound(redis)
  <2>1. Counted(redis)
    BY <1>3, FS_EmptySet DEF Counted
  <2>2. RecordIsNewest(redis) /\ ConflictsReal(redis)
    BY <1>1, <1>3 DEF RecordIsNewest, ConflictsReal
  <2>3. Summed(redis)
    <3>1. \A u \in Users : Total(<< >>, u) = 0
      <4> TAKE u \in Users
      <4>1. Len(<< >>) = 0
        OBVIOUS
      <4>2. PICK h : Sums(h, << >>, u, 0) /\ Total(<< >>, u) = h[0]
        BY <4>1, TotalIs
      <4> QED BY <4>2 DEF Sums
    <3> QED BY <1>1, <3>1 DEF Summed
  <2> QED BY <1>2, <2>1, <2>2, <2>3 DEF Sound
<1>5. aof = redis /\ wire = {} /\ clock = 1 /\ calls = 0 /\ restarts = 0
  BY DEF Init
<1>6. thread \in [Threads -> ThreadStates] /\ life \in [Keys -> Nat]
  BY DEF Init, ThreadStates
<1>7. Claims = {}
  BY DEF Init, Claims, Replied, Idle
<1> QED BY <1>4, <1>5, <1>6, <1>7 DEF Inv, Stamped, LegacyAt, ClaimsAgree, ClaimsCurrent

LEMMA InvInductive == Inv /\ [Next]_vars => Inv'
<1> SUFFICES ASSUME Inv, [Next]_vars PROVE Inv'
  OBVIOUS
<1> QED BY RedisStaysSound, AroundRedis, ThreadsTyped, ClaimsStep DEF Inv

THEOREM InvCorrect == Spec => []Inv
BY InvInitially, InvInductive, PTL DEF Spec

(* What Redis and its file hold, and what the threads hold, keeps its      *)
(* type.                                                                   *)
THEOREM TypeCorrect == Spec => []TypeOK
<1>1. Inv => TypeOK
  <2> SUFFICES ASSUME Inv PROVE TypeOK
    OBVIOUS
  <2>1. \A t \in Threads :
          \/ thread[t] = Idle
          \/ thread[t].pc \in {"waiting", "returned"} /\ thread[t].call \in Calls
    BY DEF Inv, ThreadStates
  <2> QED BY <2>1 DEF Inv, Sound, TypeOK
<1> QED BY <1>1, InvCorrect, PTL

(* No retry, late command, conflict, expiry or restart makes the board and *)
(* the audit stream tell different sums.                                   *)
THEOREM ScoreIsSumOfStreamHolds == Spec => []ScoreIsSumOfStream
<1>1. Inv => ScoreIsSumOfStream
  BY DEF Inv, Sound, Summed, ScoreIsSumOfStream
<1> QED BY <1>1, InvCorrect, PTL

(* However often a call is retried, run late, or lost, and whenever its    *)
(* record expires or Redis restarts: a key is applied once per life.       *)
THEOREM AppliedOncePerLifeHolds == Spec => []AppliedOncePerLife
<1>1. Inv => AppliedOncePerLife
  BY DEF Inv, Sound, Counted, Live, Accepted, AppliedOncePerLife
<1> QED BY <1>1, InvCorrect, PTL

(* All that is answered of one life of a key is one story.                 *)
THEOREM AnswersAgreeHolds == Spec => []AnswersAgree
<1>1. Inv => AnswersAgree
  <2> SUFFICES ASSUME Inv, NEW a \in answers, NEW b \in answers, a.key = b.key, a.life = b.life
               PROVE  /\ a.payload = b.payload
                      /\ a.at = b.at \/ (a.legacy /\ b.legacy)
                      /\ a.replayed \/ b.replayed \/ a = b
    BY DEF AnswersAgree
  <2>1. Agree(a, b)
    BY DEF Inv, ClaimsAgree, Claims
  <2> QED BY <2>1 DEF Agree
<1> QED BY <1>1, InvCorrect, PTL

(* An entry that reports a conflict follows an accepted event of another   *)
(* payload under its key.                                                  *)
THEOREM ConflictEntriesAreRealHolds == Spec => []ConflictEntriesAreReal
<1>1. Inv => ConflictEntriesAreReal
  <2> SUFFICES ASSUME Inv, NEW n \in DOMAIN redis.stream, redis.stream[n].type = "conflict"
               PROVE  LET earlier == {j \in 1..(n - 1) : /\ redis.stream[j].type = "new"
                                                         /\ redis.stream[j].key = redis.stream[n].key}
                      IN  earlier # {} /\ redis.stream[Max(earlier)].payload # redis.stream[n].payload
    BY DEF ConflictEntriesAreReal
  <2> DEFINE k == redis.stream[n].key
             earlier == {j \in 1..(n - 1) : redis.stream[j].type = "new" /\ redis.stream[j].key = k}
  <2>1. DOMAIN redis.stream = 1..Len(redis.stream) /\ Len(redis.stream) \in Nat
    BY RedisFields DEF Inv, Sound
  <2>2. PICK i \in DOMAIN redis.stream :
           Newest(redis, i, k, n) /\ redis.stream[i].payload # redis.stream[n].payload
    BY DEF Inv, Sound, ConflictsReal
  <2>3. i # n
    BY <2>2
  <2>4. i \in earlier
    BY <2>1, <2>2, <2>3 DEF Newest, Accepted
  <2>5. \A j \in earlier : j <= i
    BY <2>1, <2>2 DEF Newest, Accepted
  <2>6. Max(earlier) = i
    <3>1. \A j \in earlier : j \in Nat
      BY <2>1
    <3> HIDE DEF earlier
    <3>2. Max(earlier) \in earlier /\ Max(earlier) >= i
      BY <2>4, <2>5, <3>1 DEF Max
    <3> QED BY <2>4, <2>5, <3>1, <3>2
  <2> QED BY <2>2, <2>4, <2>6
<1> QED BY <1>1, InvCorrect, PTL
=============================================================================
