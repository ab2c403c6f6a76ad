--------------------------- MODULE AdmissionProofs ---------------------------
(***************************************************************************)
(* The safety proofs of KeyLimits and Admission, for any limit, quota,     *)
(* calendar, number of threads and of requests.                            *)
(***************************************************************************)
EXTENDS Admission, FiniteSetTheorems, TLAPS

Days == {Day(s) : s \in Seconds}
Decisions == {"allowed", "rate", "quota"}
Runs == [id : Requests, now : Seconds, at : Seconds, decision : Decisions]
States == {Idle} \cup [pc : {"limits", "process"}, request : Requests]

LimitsShape ==
  /\ clock \in Seconds
  /\ rate \in [Seconds -> Counters] /\ quota \in [Days -> Counters]
  /\ ran \subseteq Runs /\ IsFiniteSet(ran)
  /\ \A call \in wire :
       /\ call.id \in Requests /\ call.now \in 0..clock
       /\ call = Call(call.id, call.now)

(* What each counter stands for: the attempts of the second, the admitted  *)
(* of the day, and those of them it has to hold within the limit.          *)
AttemptsOf(s) == {r \in ran : r.now = s}
AdmittedOf(d) == Allowed({r \in ran : Day(r.now) = d})
InSecond(s) == Allowed({r \in ran : r.now = s /\ r.at < s + 2})
InDay(d) == Allowed({r \in ran : Day(r.now) = d /\ Day(r.at) = d})

Alive(counter, needed, now) ==
  counter = Gone \/ (counter.count > 0 /\ counter.until > now /\ counter.until >= needed)

RateOK(s) ==
  /\ Alive(rate[s], s + 2, clock)
  /\ rate[s].count <= Cardinality(AttemptsOf(s))
  /\ Cardinality(InSecond(s)) <= RateLimit
  /\ clock < s + 2 => Cardinality(InSecond(s)) <= rate[s].count

QuotaOK(d) ==
  /\ Alive(quota[d], (d + 1) * SecondsPerDay, clock)
  /\ quota[d].count <= Cardinality(AdmittedOf(d))
  /\ Cardinality(InDay(d)) <= DailyQuota
  /\ Day(clock) <= d => Cardinality(InDay(d)) <= quota[d].count

(* A request has one call, which runs once, no later than now.             *)
CallsOK ==
  /\ \A call \in wire : call.id <= received /\ \A r \in ran : call.id # r.id
  /\ \A c, d \in wire : c.id = d.id => c = d
  /\ \A r \in ran : r.id <= received /\ r.at <= clock /\ r.now <= r.at

LimitsInv ==
  /\ LimitsShape /\ CallsOK
  /\ \A s \in Seconds : RateOK(s)
  /\ \A d \in Days : QuotaOK(d)
  /\ RefusalsAreDeserved

Admitted == {r.id : r \in Allowed(ran)}

(* What a thread goes on with was let through by Redis, and what is        *)
(* recorded as more than blocked is recorded after that, but for a replay. *)
Passed(r) == r \in Admitted /\ \A run \in ran : run.id = r => run.decision = "allowed"
RunBy(r, at) == \A run \in ran : run.id = r => run.at <= at
Followed(r) ==
  \/ recorded[r] = NotYet \/ recorded[r].kind = "blocked"
  \/ Passed(r) /\ (recorded[r].kind = "replayed" \/ RunBy(r, recorded[r].at))

ThreadsInv ==
  /\ received \in 0..MaxRequests
  /\ thread \in [Threads -> States]
  /\ recorded \in [Requests -> Records \cup {NotYet}]
  /\ \A r \in Requests : recorded[r] # NotYet => recorded[r].at <= clock
  /\ \A t \in Threads, r \in Requests :
       thread[t].pc = "process" /\ thread[t].request = r => Passed(r)
  /\ \A r \in Requests : Followed(r)

Inv == LimitsInv /\ ThreadsInv
----------------------------------------------------------------------------
(* Days and the seconds they are made of. *)
LEMMA Monotone ==
  ASSUME NEW a \in Nat, NEW b \in Nat, NEW k \in Nat, a <= b
  PROVE  a * k <= b * k
OBVIOUS

LEMMA DayBounds ==
  ASSUME NEW s \in Nat
  PROVE  /\ Day(s) \in Nat /\ Day(s) * SecondsPerDay <= s
         /\ s < (Day(s) + 1) * SecondsPerDay
BY CalendarAssumption DEF Day

LEMMA DayEnds ==
  ASSUME NEW s \in Nat, NEW d \in Nat, Day(s) <= d
  PROVE  s < (d + 1) * SecondsPerDay
<1>1. (Day(s) + 1) * SecondsPerDay <= (d + 1) * SecondsPerDay
  BY DayBounds, Monotone, CalendarAssumption
<1> QED  BY <1>1, DayBounds, CalendarAssumption

LEMMA DayMonotone ==
  ASSUME NEW s \in Nat, NEW t \in Nat, s <= t
  PROVE  Day(s) <= Day(t)
<1> SUFFICES ASSUME Day(t) < Day(s) PROVE FALSE
  BY DayBounds
<1>1. (Day(t) + 1) * SecondsPerDay <= Day(s) * SecondsPerDay
  BY DayBounds, Monotone, CalendarAssumption
<1> QED  BY <1>1, DayBounds, CalendarAssumption

LEMMA DaysAreNat == Days \subseteq Nat
BY DayBounds, LimitsAssumption DEF Days, Seconds

(* A daily counter created by a call of a day outlives that day. *)
LEMMA TtlReachesMidnight ==
  ASSUME NEW now \in Nat, NEW at \in Nat, now <= at
  PROVE  /\ at + SecondsUntilNextUtcDay(now) \in Nat
         /\ at + SecondsUntilNextUtcDay(now) > at
         /\ at + SecondsUntilNextUtcDay(now) >= (Day(now) + 1) * SecondsPerDay
BY DayBounds, CalendarAssumption DEF SecondsUntilNextUtcDay

(* Counting a set that grows by one element, or within another one. *)
LEMMA OneMore ==
  ASSUME NEW S, NEW T, NEW e, IsFiniteSet(S), T \subseteq S \cup {e}
  PROVE  Cardinality(S) \in Nat /\ Cardinality(T) \in Nat /\ Cardinality(T) <= Cardinality(S) + 1
<1>1. IsFiniteSet(S \cup {e}) /\ Cardinality(S \cup {e}) <= Cardinality(S) + 1
  <2>1. Cardinality(S) \in Nat
    BY FS_CardinalityType
  <2>2. IsFiniteSet(S \cup {e})
    BY FS_AddElement
  <2>3. Cardinality(S \cup {e}) = IF e \in S THEN Cardinality(S) ELSE Cardinality(S) + 1
    BY FS_AddElement
  <2> QED  BY <2>1, <2>2, <2>3
<1>2. IsFiniteSet(T) /\ Cardinality(T) <= Cardinality(S \cup {e})
  BY <1>1, FS_Subset
<1> QED  BY <1>1, <1>2, FS_CardinalityType

LEMMA ExactlyOneMore ==
  ASSUME NEW S, NEW T, NEW e, IsFiniteSet(S), e \notin S, e \in T, S \subseteq T
  PROVE  IsFiniteSet(T) => Cardinality(T) >= Cardinality(S) + 1
<1> SUFFICES ASSUME IsFiniteSet(T) PROVE Cardinality(T) >= Cardinality(S) + 1
  OBVIOUS
<1>1. IsFiniteSet(S \cup {e}) /\ Cardinality(S \cup {e}) = Cardinality(S) + 1
  BY FS_AddElement
<1>2. Cardinality(S \cup {e}) <= Cardinality(T)
  BY FS_Subset
<1> QED  BY <1>1, <1>2, FS_CardinalityType

LEMMA NoFewer ==
  ASSUME NEW S, NEW T, IsFiniteSet(T), S \subseteq T
  PROVE  IsFiniteSet(S) /\ Cardinality(S) \in Nat /\ Cardinality(T) \in Nat
         /\ Cardinality(S) <= Cardinality(T)
BY FS_Subset, FS_CardinalityType

LEMMA CountsAreFinite ==
  ASSUME LimitsShape
  PROVE  /\ \A s : IsFiniteSet(AttemptsOf(s)) /\ IsFiniteSet(InSecond(s))
         /\ \A d : IsFiniteSet(AdmittedOf(d)) /\ IsFiniteSet(InDay(d))
         /\ \A s : Cardinality(AttemptsOf(s)) \in Nat /\ Cardinality(InSecond(s)) \in Nat
         /\ \A d : Cardinality(AdmittedOf(d)) \in Nat /\ Cardinality(InDay(d)) \in Nat
<1>1. IsFiniteSet(ran)
  BY DEF LimitsShape
<1>2. \A s : AttemptsOf(s) \subseteq ran /\ InSecond(s) \subseteq ran
  BY DEF AttemptsOf, InSecond, Allowed
<1>3. \A d : AdmittedOf(d) \subseteq ran /\ InDay(d) \subseteq ran
  BY DEF AdmittedOf, InDay, Allowed
<1>4. \A S : S \subseteq ran => IsFiniteSet(S) /\ Cardinality(S) \in Nat
  BY <1>1, NoFewer
<1> QED  BY <1>2, <1>3, <1>4
----------------------------------------------------------------------------
(* The limits. *)
Before(r) == {o \in ran : o.id # r.id /\ o.at <= r.at}
AdmittedBefore(r) == Allowed({o \in Before(r) : Day(o.now) = Day(r.now)})
AttemptsBefore(r) == {o \in Before(r) : o.now = r.now}
Deserved(r) ==
  /\ r.decision = "quota" => Cardinality(AdmittedBefore(r)) >= DailyQuota
  /\ r.decision = "rate" => Cardinality(AttemptsBefore(r)) >= RateLimit

LEMMA RefusalsOneByOne ==
  /\ RefusalsAreDeserved <=> \A r \in ran : Deserved(r)
  /\ RefusalsAreDeserved' <=> \A r \in ran' : Deserved(r)'
BY DEF RefusalsAreDeserved, Deserved, AdmittedBefore, AttemptsBefore, Before

LEMMA LimitsInitially == Init => LimitsInv
<1> SUFFICES ASSUME Init PROVE LimitsInv
  OBVIOUS
<1> USE DEF Init, LimitsInit
<1>1. LimitsShape
  <2>1. Gone \in Counters
    BY DEF Gone, Counters
  <2>2. clock \in Seconds
    BY LimitsAssumption DEF Seconds
  <2> QED  BY <2>1, <2>2, FS_EmptySet DEF LimitsShape, Days
<1>2. CallsOK /\ RefusalsAreDeserved
  BY DEF CallsOK, RefusalsAreDeserved
<1>3. \A s : AttemptsOf(s) = {} /\ InSecond(s) = {}
  BY DEF AttemptsOf, InSecond, Allowed
<1>4. \A d : AdmittedOf(d) = {} /\ InDay(d) = {}
  BY DEF AdmittedOf, InDay, Allowed
<1>5. Cardinality({}) = 0
  BY FS_EmptySet
<1>6. \A s \in Seconds : RateOK(s)
  <2> TAKE s \in Seconds
  <2>1. rate[s] = Gone /\ Gone.count = 0
    BY DEF Gone
  <2>2. Cardinality(AttemptsOf(s)) = 0 /\ Cardinality(InSecond(s)) = 0
    BY <1>3, <1>5
  <2>3. 0 <= RateLimit /\ 0 <= 0
    BY LimitsAssumption
  <2> QED  BY <2>1, <2>2, <2>3 DEF RateOK, Alive
<1>7. \A d \in Days : QuotaOK(d)
  BY <1>4, <1>5, LimitsAssumption DEF QuotaOK, Alive, Gone, Days
<1> QED  BY <1>1, <1>2, <1>6, <1>7 DEF LimitsInv

(* What depends on the counters, the clock and the history alone. *)
LEMMA CountersKept ==
  ASSUME LimitsInv, UNCHANGED <<clock, rate, quota, ran>>
  PROVE  /\ \A s \in Seconds : RateOK(s)'
         /\ \A d \in Days : QuotaOK(d)'
         /\ RefusalsAreDeserved'
<1>1. \A s : AttemptsOf(s)' = AttemptsOf(s) /\ InSecond(s)' = InSecond(s)
  BY DEF AttemptsOf, InSecond, Allowed
<1>2. \A d : AdmittedOf(d)' = AdmittedOf(d) /\ InDay(d)' = InDay(d)
  BY DEF AdmittedOf, InDay, Allowed
<1>3. \A s \in Seconds : RateOK(s)'
  BY <1>1 DEF LimitsInv, RateOK, Alive
<1>4. \A d \in Days : QuotaOK(d)'
  BY <1>2 DEF LimitsInv, QuotaOK, Alive
<1>5. RefusalsAreDeserved'
  BY DEF LimitsInv, RefusalsAreDeserved
<1> QED  BY <1>3, <1>4, <1>5

(* Calls are sent and lost. *)
LEMMA CallsLost ==
  ASSUME LimitsInv, received \in Nat, received' \in Nat, received <= received', wire' \subseteq wire,
         UNCHANGED <<clock, rate, quota, ran>>
  PROVE  LimitsInv'
<1>1. LimitsShape'
  BY DEF LimitsInv, LimitsShape
<1>2. (\A r \in ran : r.id \in Nat) /\ (\A c \in wire : c.id \in Nat)
  BY AdmissionAssumption DEF Runs, LimitsInv, LimitsShape, Requests
<1>3. CallsOK'
  <2>1. \A c \in wire' : c.id <= received' /\ \A r \in ran' : c.id # r.id
    BY <1>2 DEF LimitsInv, CallsOK
  <2>2. \A c, d \in wire' : c.id = d.id => c = d
    BY DEF LimitsInv, CallsOK
  <2>3. \A r \in ran' : r.id <= received' /\ r.at <= clock' /\ r.now <= r.at
    BY <1>2 DEF LimitsInv, LimitsShape, CallsOK
  <2> QED  BY <2>1, <2>2, <2>3 DEF CallsOK
<1> QED  BY <1>1, <1>3, CountersKept DEF LimitsInv

LEMMA CallSent ==
  ASSUME LimitsInv, received \in Nat, received' = received + 1, received' \in Requests,
         wire' = wire \cup {Call(received', clock)},
         UNCHANGED <<clock, rate, quota, ran>>
  PROVE  LimitsInv'
<1>1. /\ Call(received', clock).id = received' /\ Call(received', clock).now = clock
      /\ Call(received', clock) = Call(Call(received', clock).id, Call(received', clock).now)
  BY DEF Call
<1>2. LimitsShape'
  BY <1>1 DEF LimitsInv, LimitsShape, Seconds
<1>3. (\A r \in ran : r.id \in Nat) /\ (\A c \in wire : c.id \in Nat)
  BY AdmissionAssumption DEF Runs, LimitsInv, LimitsShape, Requests
<1>4. CallsOK'
  <2>1. \A c \in wire : c.id <= received /\ c.id # received'
    BY <1>3 DEF LimitsInv, CallsOK
  <2>2. \A r \in ran : r.id <= received /\ r.id # received'
    BY <1>3 DEF LimitsInv, LimitsShape, CallsOK
  <2>3. \A c \in wire' : c.id <= received' /\ \A r \in ran' : c.id # r.id
    BY <1>1, <1>3, <2>1, <2>2 DEF LimitsInv, CallsOK
  <2>4. \A c, d \in wire' : c.id = d.id => c = d
    BY <1>1, <2>1 DEF LimitsInv, CallsOK
  <2>5. \A r \in ran' : r.id <= received' /\ r.at <= clock' /\ r.now <= r.at
    BY <1>3, <2>2 DEF LimitsInv, LimitsShape, CallsOK
  <2> QED  BY <2>3, <2>4, <2>5 DEF CallsOK
<1> QED  BY <1>2, <1>4, CountersKept DEF LimitsInv
(* Time passes; what expires is not needed any more. *)
LEMMA AliveAfterTick ==
  ASSUME NEW needed \in Nat, NEW counter \in Counters, NEW now \in Nat,
         Alive(counter, needed, now),
         NEW after, after = IF counter.until <= now + 1 THEN Gone ELSE counter
  PROVE  /\ Alive(after, needed, now + 1)
         /\ after.count <= counter.count /\ after.count \in Nat
         /\ now + 1 < needed => after.count = counter.count
BY DEF Alive, Gone, Counters

LEMMA TimePassed ==
  ASSUME LimitsInv, Tick, received \in Nat, received' = received
  PROVE  LimitsInv'
<1> USE DEF LimitsInv
<1>1. clock \in Nat /\ clock' = clock + 1 /\ clock' \in Seconds
  BY LimitsAssumption DEF Tick, LimitsShape, Seconds
<1>2. ran' = ran /\ wire' = wire
  BY DEF Tick
<1>3. /\ DOMAIN rate = Seconds /\ DOMAIN quota = Days
      /\ \A s \in Seconds : rate[s] \in Counters
      /\ \A d \in Days : quota[d] \in Counters
  BY DEF LimitsShape
<1>4. /\ rate' = [s \in Seconds |-> IF rate[s].until <= clock + 1 THEN Gone ELSE rate[s]]
      /\ quota' = [d \in Days |-> IF quota[d].until <= clock + 1 THEN Gone ELSE quota[d]]
  BY <1>3 DEF Tick, Expired
<1>5. Gone \in Counters
  BY DEF Gone, Counters
<1>6. rate' \in [Seconds -> Counters] /\ quota' \in [Days -> Counters]
  BY <1>3, <1>4, <1>5
<1>7. LimitsShape'
  <2>1. \A n \in 0..clock : n \in 0..clock'
    BY <1>1
  <2> QED  BY <1>1, <1>2, <1>6, <2>1 DEF LimitsShape
<1>8. CallsOK'
  <2>1. \A r \in ran : r.at \in Nat
    BY LimitsAssumption DEF LimitsShape, Runs, Seconds
  <2> QED  BY <1>1, <1>2, <2>1 DEF CallsOK
<1>9. \A s \in Seconds : RateOK(s)'
  <2> TAKE s \in Seconds
  <2>1. s \in Nat /\ s + 2 \in Nat
    BY LimitsAssumption DEF Seconds
  <2>2. AttemptsOf(s)' = AttemptsOf(s) /\ InSecond(s)' = InSecond(s)
    BY <1>2 DEF AttemptsOf, InSecond, Allowed
  <2>3. Alive(rate[s], s + 2, clock)
    BY DEF RateOK
  <2>4. /\ Alive(rate'[s], s + 2, clock + 1) /\ rate'[s].count <= rate[s].count
        /\ rate'[s].count \in Nat
        /\ clock' < s + 2 => rate'[s].count = rate[s].count
    BY <1>1, <1>3, <1>4, <2>1, <2>3, AliveAfterTick
  <2>5. /\ Cardinality(AttemptsOf(s)) \in Nat /\ Cardinality(InSecond(s)) \in Nat
        /\ rate[s].count \in Nat
    BY <1>3, CountsAreFinite DEF Counters
  <2>6. /\ rate[s].count <= Cardinality(AttemptsOf(s))
        /\ Cardinality(InSecond(s)) <= RateLimit
        /\ clock < s + 2 => Cardinality(InSecond(s)) <= rate[s].count
    BY DEF RateOK
  <2>7. /\ rate'[s].count <= Cardinality(AttemptsOf(s))
        /\ clock' < s + 2 => Cardinality(InSecond(s)) <= rate'[s].count
    BY <1>1, <2>1, <2>4, <2>5, <2>6
  <2> QED  BY <1>1, <2>2, <2>4, <2>6, <2>7 DEF RateOK
<1>10. \A d \in Days : QuotaOK(d)'
  <2> TAKE d \in Days
  <2> DEFINE needed == (d + 1) * SecondsPerDay
  <2>1. d \in Nat /\ needed \in Nat
    BY DaysAreNat, CalendarAssumption
  <2>2. AdmittedOf(d)' = AdmittedOf(d) /\ InDay(d)' = InDay(d)
    BY <1>2 DEF AdmittedOf, InDay, Allowed
  <2>3. Alive(quota[d], needed, clock)
    BY DEF QuotaOK
  <2>4. Day(clock') <= d => clock' < needed /\ Day(clock) <= d
    <3>1. Day(clock) \in Nat /\ Day(clock') \in Nat /\ Day(clock) <= Day(clock')
      BY <1>1, DayBounds, DayMonotone
    <3>2. Day(clock') <= d => clock' < needed
      BY <1>1, <2>1, DayEnds
    <3> QED  BY <3>1, <3>2, <2>1
  <2> HIDE DEF needed
  <2>5. /\ Alive(quota'[d], needed, clock + 1) /\ quota'[d].count <= quota[d].count
        /\ quota'[d].count \in Nat
        /\ clock' < needed => quota'[d].count = quota[d].count
    BY <1>1, <1>3, <1>4, <2>1, <2>3, AliveAfterTick
  <2>6. /\ Cardinality(AdmittedOf(d)) \in Nat /\ Cardinality(InDay(d)) \in Nat
        /\ quota[d].count \in Nat
    BY <1>3, CountsAreFinite DEF Counters
  <2>7. /\ quota[d].count <= Cardinality(AdmittedOf(d))
        /\ Cardinality(InDay(d)) <= DailyQuota
        /\ Day(clock) <= d => Cardinality(InDay(d)) <= quota[d].count
    BY DEF QuotaOK
  <2>8. /\ quota'[d].count <= Cardinality(AdmittedOf(d))
        /\ Day(clock') <= d => Cardinality(InDay(d)) <= quota'[d].count
    BY <2>4, <2>5, <2>6, <2>7
  <2>9. Alive(quota'[d], (d + 1) * SecondsPerDay, clock')
    BY <1>1, <2>5 DEF needed
  <2> QED  BY <2>2, <2>7, <2>8, <2>9 DEF QuotaOK
<1>11. RefusalsAreDeserved'
  BY <1>2 DEF RefusalsAreDeserved
<1> QED  BY <1>7, <1>8, <1>9, <1>10, <1>11
(* A counter that is incremented is alive, and counts one more. *)
LEMMA AliveAfterIncrement ==
  ASSUME NEW needed \in Nat, NEW counter \in Counters, NEW ttl,
         LimitsInv, Alive(counter, needed, clock),
         clock + ttl \in Nat, clock + ttl > clock, clock + ttl >= needed
  PROVE  /\ Incremented(counter, ttl) \in Counters
         /\ Alive(Incremented(counter, ttl), needed, clock)
         /\ Incremented(counter, ttl).count = counter.count + 1
<1> DEFINE until == IF counter.count = 0 THEN clock + ttl ELSE counter.until
<1>1. Incremented(counter, ttl) = [count |-> counter.count + 1, until |-> until]
  BY DEF Incremented
<1>2. counter.count \in Nat /\ counter.until \in Nat
  BY DEF Counters
<1>3. clock \in Nat
  BY LimitsAssumption DEF LimitsInv, LimitsShape, Seconds
<1>4. counter.count = 0 \/ (counter.until > clock /\ counter.until >= needed)
  BY DEF Alive, Gone
<1>5. until \in Nat /\ until > clock /\ until >= needed
  BY <1>2, <1>4
<1> HIDE DEF until
<1> QED  BY <1>1, <1>2, <1>5 DEF Alive, Counters

(* The script runs for a call. *)
LEMMA ScriptRun ==
  ASSUME LimitsInv, NEW call, NEW decision \in Decisions, CheckLimits(call, decision),
         received \in Nat, received' = received
  PROVE  LimitsInv'
<1> DEFINE s == call.now
           d == Day(call.now)
           e == [id |-> call.id, now |-> call.now, at |-> clock, decision |-> decision]
<1> USE DEF LimitsInv
<1>1. /\ call \in wire /\ wire' = wire \ {call} /\ clock' = clock
      /\ rate' = [rate EXCEPT ![s] = Incremented(rate[s], RateLimitTtl)]
      /\ decision = Decision(rate[s].count + 1, quota[d].count)
      /\ quota' = IF Consumes(decision)
                  THEN [quota EXCEPT ![d] = Incremented(quota[d], call.dailyTtl)] ELSE quota
      /\ ran' = ran \cup {e}
  BY DEF CheckLimits
<1>2. /\ call.id \in Requests /\ s \in 0..clock
      /\ call.dailyTtl = SecondsUntilNextUtcDay(s)
  BY <1>1 DEF LimitsShape, Call
<1>3. clock \in Nat /\ clock \in Seconds /\ s \in Nat /\ s \in Seconds /\ s <= clock
  BY <1>2, LimitsAssumption DEF LimitsShape, Seconds
<1>4. d \in Days /\ d \in Nat
  BY <1>3, DayBounds DEF Days
<1>5. rate[s] \in Counters /\ quota[d] \in Counters
  BY <1>3, <1>4 DEF LimitsShape
<1>6. e \in Runs
  BY <1>2, <1>3 DEF Runs
<1>7. e.id = call.id /\ e.now = s /\ e.at = clock /\ e.decision = decision
  OBVIOUS
<1>8. \A r \in ran : r.id # e.id
  BY <1>1, <1>7 DEF CallsOK
<1>9. e \notin ran
  BY <1>8
<1>10. Alive(rate[s], s + 2, clock) /\ Alive(quota[d], (d + 1) * SecondsPerDay, clock)
  BY <1>3, <1>4 DEF RateOK, QuotaOK
<1> HIDE DEF s, d, e
<1>11. /\ Incremented(rate[s], RateLimitTtl) \in Counters
       /\ Alive(Incremented(rate[s], RateLimitTtl), s + 2, clock)
       /\ Incremented(rate[s], RateLimitTtl).count = rate[s].count + 1
  <2>1. s + 2 \in Nat /\ clock + RateLimitTtl \in Nat /\ clock + RateLimitTtl > clock
        /\ clock + RateLimitTtl >= s + 2
    BY <1>3 DEF RateLimitTtl
  <2> QED  BY <2>1, <1>5, <1>10, AliveAfterIncrement
<1>12. /\ Incremented(quota[d], call.dailyTtl) \in Counters
       /\ Alive(Incremented(quota[d], call.dailyTtl), (d + 1) * SecondsPerDay, clock)
       /\ Incremented(quota[d], call.dailyTtl).count = quota[d].count + 1
  <2>1. /\ clock + call.dailyTtl \in Nat /\ clock + call.dailyTtl > clock
        /\ clock + call.dailyTtl >= (d + 1) * SecondsPerDay
    BY <1>2, <1>3, TtlReachesMidnight DEF d, s
  <2>2. (d + 1) * SecondsPerDay \in Nat
    BY <1>4, CalendarAssumption
  <2> QED  BY <2>1, <2>2, <1>5, <1>10, AliveAfterIncrement
<1>13. /\ rate' \in [Seconds -> Counters] /\ rate'[s].count = rate[s].count + 1
       /\ Alive(rate'[s], s + 2, clock)
       /\ \A k \in Seconds : k # s => rate'[k] = rate[k]
  BY <1>1, <1>3, <1>11 DEF LimitsShape
<1>14. /\ quota' \in [Days -> Counters]
       /\ decision = "allowed" => /\ quota'[d].count = quota[d].count + 1
                                  /\ Alive(quota'[d], (d + 1) * SecondsPerDay, clock)
       /\ decision # "allowed" => quota'[d] = quota[d]
       /\ \A k \in Days : k # d => quota'[k] = quota[k]
  BY <1>1, <1>4, <1>12 DEF LimitsShape, Consumes
<1>15. LimitsShape'
  <2>1. ran' \subseteq Runs /\ IsFiniteSet(ran')
    BY <1>1, <1>6, FS_AddElement DEF LimitsShape
  <2> QED  BY <1>1, <1>13, <1>14, <2>1 DEF LimitsShape
<1>16. CallsOK'
  <2>1. \A c \in wire' : c.id <= received' /\ \A r \in ran' : c.id # r.id
    BY <1>1, <1>7 DEF CallsOK
  <2>2. \A c, b \in wire' : c.id = b.id => c = b
    BY <1>1 DEF CallsOK
  <2>3. \A r \in ran' : r.id <= received' /\ r.at <= clock' /\ r.now <= r.at
    BY <1>1, <1>3, <1>7 DEF CallsOK
  <2> QED  BY <2>1, <2>2, <2>3 DEF CallsOK
<1>17. /\ decision = "allowed" => rate[s].count + 1 <= RateLimit /\ quota[d].count + 1 <= DailyQuota
       /\ decision = "rate" => rate[s].count >= RateLimit
       /\ decision = "quota" => quota[d].count >= DailyQuota
  <2>1. rate[s].count \in Nat /\ quota[d].count \in Nat
    BY <1>5 DEF Counters
  <2> QED  BY <2>1, <1>1, LimitsAssumption DEF Decision
<1>18. IsFiniteSet(ran') /\ \A S : S \subseteq ran' => IsFiniteSet(S) /\ Cardinality(S) \in Nat
  BY <1>15, NoFewer DEF LimitsShape
<1>19. /\ \A k : AttemptsOf(k) \subseteq AttemptsOf(k)' /\ AttemptsOf(k)' \subseteq ran'
       /\ \A k : AdmittedOf(k) \subseteq AdmittedOf(k)' /\ AdmittedOf(k)' \subseteq ran'
       /\ \A k : InSecond(k)' \subseteq InSecond(k) \cup {e} /\ InSecond(k)' \subseteq ran'
       /\ \A k : InDay(k)' \subseteq InDay(k) \cup {e} /\ InDay(k)' \subseteq ran'
  BY <1>1 DEF AttemptsOf, AdmittedOf, InSecond, InDay, Allowed
<1>20. /\ \A k : k # s => InSecond(k)' = InSecond(k)
       /\ \A k : decision # "allowed" \/ clock >= s + 2 => InSecond(k)' = InSecond(k)
       /\ e \in AttemptsOf(s)' /\ e \notin AttemptsOf(s)
  <2>1. /\ \A k : e \in InSecond(k)' => k = s /\ decision = "allowed" /\ clock < s + 2
        /\ e \in AttemptsOf(s)' /\ e \notin AttemptsOf(s)
    BY <1>1, <1>7, <1>9 DEF InSecond, Allowed, AttemptsOf
  <2>2. \A k : InSecond(k) \subseteq InSecond(k)'
    BY <1>1 DEF InSecond, Allowed
  <2> QED  BY <2>1, <2>2, <1>3, <1>19
<1>21. /\ \A k : k # d => InDay(k)' = InDay(k)
       /\ \A k : decision # "allowed" \/ Day(clock) # d => InDay(k)' = InDay(k)
       /\ decision = "allowed" => e \in AdmittedOf(d)'
       /\ e \notin AdmittedOf(d)
  <2>1. /\ \A k : e \in InDay(k)' => k = d /\ decision = "allowed" /\ Day(clock) = d
        /\ decision = "allowed" => e \in AdmittedOf(d)'
        /\ e \notin AdmittedOf(d)
    BY <1>1, <1>7, <1>9 DEF InDay, Allowed, AdmittedOf, d, s
  <2>2. \A k : InDay(k) \subseteq InDay(k)'
    BY <1>1 DEF InDay, Allowed
  <2> QED  BY <2>1, <2>2, <1>19
<1>22. \A k \in Seconds : RateOK(k)'
  <2> TAKE k \in Seconds
  <2> DEFINE a == Cardinality(AttemptsOf(k))    b == Cardinality(InSecond(k))
             x == Cardinality(AttemptsOf(k)')   y == Cardinality(InSecond(k)')
             n == rate[k].count                 m == rate'[k].count
  <2>1. a \in Nat /\ b \in Nat /\ x \in Nat /\ y \in Nat /\ a <= x /\ y <= b + 1
    <3>1. a \in Nat /\ b \in Nat /\ IsFiniteSet(AttemptsOf(k)) /\ IsFiniteSet(InSecond(k))
      BY CountsAreFinite
    <3>2. x \in Nat /\ y \in Nat /\ IsFiniteSet(AttemptsOf(k)')
      BY <1>18, <1>19
    <3>3. a <= x
      BY <1>19, <3>2, NoFewer
    <3>4. y <= b + 1
      BY <1>19, <3>1, OneMore
    <3> QED  BY <3>1, <3>2, <3>3, <3>4
  <2>2. n \in Nat /\ n <= a /\ b <= RateLimit /\ (clock < k + 2 => b <= n) /\ Alive(rate[k], k + 2, clock)
    BY DEF LimitsShape, Counters, RateOK
  <2>3. k = s => x >= a + 1
    <3>1. IsFiniteSet(AttemptsOf(k)) /\ IsFiniteSet(AttemptsOf(k)')
      BY CountsAreFinite, <1>18, <1>19
    <3> QED  BY <1>19, <1>20, <3>1, ExactlyOneMore
  <2>4. /\ k # s => m = n /\ y = b
        /\ k = s => m = n + 1
        /\ decision # "allowed" \/ clock >= s + 2 => y = b
        /\ k = s /\ decision = "allowed" => n + 1 <= RateLimit
    BY <1>13, <1>17, <1>20
  <2>5. Alive(rate'[k], k + 2, clock')
    BY <1>1, <1>13, <2>2
  <2> HIDE DEF a, b, x, y, n, m
  <2>6. RateLimit \in Nat /\ k \in Nat /\ s \in Nat /\ clock \in Nat
    BY <1>3, LimitsAssumption DEF Seconds
  <2>7. m <= x /\ (clock < k + 2 => y <= m)
    BY <2>1, <2>2, <2>3, <2>4, <2>6
  <2>8. y <= RateLimit
    BY <2>1, <2>2, <2>4, <2>6
  <2> QED  BY <1>1, <2>5, <2>7, <2>8 DEF RateOK, x, y, m
<1>23. \A k \in Days : QuotaOK(k)'
  <2> TAKE k \in Days
  <2> DEFINE a == Cardinality(AdmittedOf(k))    b == Cardinality(InDay(k))
             x == Cardinality(AdmittedOf(k)')   y == Cardinality(InDay(k)')
             n == quota[k].count                m == quota'[k].count
  <2>1. a \in Nat /\ b \in Nat /\ x \in Nat /\ y \in Nat /\ a <= x /\ y <= b + 1
    <3>1. a \in Nat /\ b \in Nat /\ IsFiniteSet(AdmittedOf(k)) /\ IsFiniteSet(InDay(k))
      BY CountsAreFinite
    <3>2. x \in Nat /\ y \in Nat /\ IsFiniteSet(AdmittedOf(k)')
      BY <1>18, <1>19
    <3>3. a <= x
      BY <1>19, <3>2, NoFewer
    <3>4. y <= b + 1
      BY <1>19, <3>1, OneMore
    <3> QED  BY <3>1, <3>2, <3>3, <3>4
  <2>2. /\ n \in Nat /\ n <= a /\ b <= DailyQuota /\ (Day(clock) <= k => b <= n)
        /\ Alive(quota[k], (k + 1) * SecondsPerDay, clock)
    BY DEF LimitsShape, Counters, QuotaOK
  <2>3. k = d /\ decision = "allowed" => x >= a + 1
    <3>1. IsFiniteSet(AdmittedOf(k)) /\ IsFiniteSet(AdmittedOf(k)')
      BY CountsAreFinite, <1>18, <1>19
    <3> QED  BY <1>19, <1>21, <3>1, ExactlyOneMore
  <2>4. /\ k # d \/ decision # "allowed" => m = n /\ y = b
        /\ k = d /\ decision = "allowed" => m = n + 1 /\ n + 1 <= DailyQuota
        /\ Day(clock) # d => y = b
    BY <1>14, <1>17, <1>21
  <2>5. Alive(quota'[k], (k + 1) * SecondsPerDay, clock')
    BY <1>1, <1>14, <2>2
  <2> HIDE DEF a, b, x, y, n, m
  <2>6. DailyQuota \in Nat /\ k \in Nat /\ d \in Nat /\ Day(clock) \in Nat
    BY <1>3, <1>4, DaysAreNat, DayBounds, LimitsAssumption
  <2>7. m <= x /\ (Day(clock) <= k => y <= m)
    BY <2>1, <2>2, <2>3, <2>4, <2>6
  <2>8. y <= DailyQuota
    BY <2>1, <2>2, <2>4, <2>6
  <2> QED  BY <1>1, <2>5, <2>7, <2>8 DEF QuotaOK, x, y, m
<1>24. \A r \in ran' : Deserved(r)'
  <2>1. \A r \in ran :
           /\ AdmittedBefore(r) \subseteq AdmittedBefore(r)' /\ AdmittedBefore(r)' \subseteq ran'
           /\ AttemptsBefore(r) \subseteq AttemptsBefore(r)' /\ AttemptsBefore(r)' \subseteq ran'
    BY <1>1 DEF AdmittedBefore, AttemptsBefore, Before, Allowed
  <2>3. \A S, T : T \subseteq ran' /\ S \subseteq T =>
                    /\ Cardinality(S) \in Nat /\ Cardinality(T) \in Nat
                    /\ Cardinality(S) <= Cardinality(T)
    BY <1>18, NoFewer
  <2>4. ASSUME NEW r \in ran PROVE Deserved(r)'
    <3>1. Deserved(r)
      BY RefusalsOneByOne
    <3>2. /\ Cardinality(AdmittedBefore(r)) \in Nat /\ Cardinality(AdmittedBefore(r)') \in Nat
          /\ Cardinality(AdmittedBefore(r)) <= Cardinality(AdmittedBefore(r)')
      BY <2>1, <2>3
    <3>3. /\ Cardinality(AttemptsBefore(r)) \in Nat /\ Cardinality(AttemptsBefore(r)') \in Nat
          /\ Cardinality(AttemptsBefore(r)) <= Cardinality(AttemptsBefore(r)')
      BY <2>1, <2>3
    <3> QED  BY <3>1, <3>2, <3>3, LimitsAssumption DEF Deserved
  <2>5. ASSUME NEW r \in ran', r = e PROVE Deserved(r)'
    <3>0. /\ AdmittedOf(d) \subseteq AdmittedBefore(r)' /\ AdmittedBefore(r)' \subseteq ran'
          /\ AttemptsOf(s) \subseteq AttemptsBefore(r)' /\ AttemptsBefore(r)' \subseteq ran'
      <4>0. r.id = e.id /\ r.at = clock /\ r.now = s
        BY <2>5, <1>7
      <4>1. ran \subseteq Before(r)'
        BY <1>1, <4>0, <1>8 DEF Before, CallsOK
      <4>2. Before(r)' \subseteq ran'
        BY DEF Before
      <4>3. Day(r.now) = d
        BY <4>0 DEF d, s
      <4>4. AdmittedOf(d) \subseteq AdmittedBefore(r)' /\ AdmittedBefore(r)' \subseteq Before(r)'
        BY <4>1, <4>3 DEF AdmittedOf, AdmittedBefore, Allowed
      <4>5. AttemptsOf(s) \subseteq AttemptsBefore(r)' /\ AttemptsBefore(r)' \subseteq Before(r)'
        BY <4>1, <4>0 DEF AttemptsOf, AttemptsBefore
      <4> QED  BY <4>2, <4>4, <4>5
    <3>1. /\ Cardinality(AdmittedOf(d)) \in Nat /\ Cardinality(AdmittedBefore(r)') \in Nat
          /\ Cardinality(AdmittedOf(d)) <= Cardinality(AdmittedBefore(r)')
      BY <3>0, <2>3
    <3>2. /\ Cardinality(AttemptsOf(s)) \in Nat /\ Cardinality(AttemptsBefore(r)') \in Nat
          /\ Cardinality(AttemptsOf(s)) <= Cardinality(AttemptsBefore(r)')
      BY <3>0, <2>3
    <3>3. /\ rate[s].count \in Nat /\ quota[d].count \in Nat
          /\ rate[s].count <= Cardinality(AttemptsOf(s))
          /\ quota[d].count <= Cardinality(AdmittedOf(d))
      BY <1>3, <1>4, <1>5 DEF Counters, RateOK, QuotaOK
    <3>4. decision = "quota" => Cardinality(AdmittedBefore(r)') >= DailyQuota
      BY <3>1, <3>3, <1>17, LimitsAssumption
    <3>5. decision = "rate" => Cardinality(AttemptsBefore(r)') >= RateLimit
      BY <3>2, <3>3, <1>17, LimitsAssumption
    <3> QED  BY <2>5, <3>4, <3>5, <1>7 DEF Deserved
  <2> QED  BY <1>1, <2>4, <2>5
<1> QED  BY <1>15, <1>16, <1>22, <1>23, <1>24, RefusalsOneByOne
----------------------------------------------------------------------------
(* The threads. *)
LEMMA StateShapes ==
  ASSUME NEW state \in States
  PROVE  /\ state.pc \in {"idle", "limits", "process"}
         /\ state.pc = "idle" <=> state = Idle
         /\ state # Idle => state.request \in Requests
BY DEF States, Idle

LEMMA NotYetIsNoRecord ==
  ASSUME NEW kind \in Kinds, NEW at \in Nat
  PROVE  /\ [kind |-> kind, at |-> at] \in Records /\ [kind |-> kind, at |-> at] # NotYet
         /\ [kind |-> kind, at |-> at].kind = kind /\ [kind |-> kind, at |-> at].at = at
BY AdmissionAssumption DEF Records

(* A run of a request that was not admitted before does not disturb one    *)
(* that was.                                                               *)
RunsGrow == ran \subseteq ran' /\ \A run \in ran' : run \in ran \/ run.id \notin Admitted

LEMMA PassedStays ==
  ASSUME RunsGrow, NEW r, Passed(r)
  PROVE  Passed(r)' /\ \A at : RunBy(r, at) => RunBy(r, at)'
<1>1. \A run \in ran' : run.id = r => run \in ran
  BY DEF RunsGrow, Passed
<1>2. r \in Admitted'
  BY DEF RunsGrow, Passed, Admitted, Allowed
<1> QED  BY <1>1, <1>2 DEF Passed, RunBy

LEMMA FollowedStays ==
  ASSUME RunsGrow, NEW r, Followed(r), recorded'[r] = recorded[r]
  PROVE  Followed(r)'
<1>1. CASE recorded[r] = NotYet \/ recorded[r].kind = "blocked"
  BY <1>1 DEF Followed
<1>2. CASE Passed(r) /\ (recorded[r].kind = "replayed" \/ RunBy(r, recorded[r].at))
  <2>1. PICK at : at = recorded[r].at
    OBVIOUS
  <2>2. Passed(r)' /\ (RunBy(r, at) => RunBy(r, at)')
    BY <1>2, PassedStays
  <2> QED  BY <1>2, <2>1, <2>2 DEF Followed, RunBy
<1> QED  BY <1>1, <1>2 DEF Followed

(* A request that nobody waits for is run, a call is lost, time passes:    *)
(* the threads do not notice.                                              *)
LEMMA ThreadsKept ==
  ASSUME ThreadsInv, RunsGrow, UNCHANGED <<received, thread, recorded>>,
         clock \in Nat, clock' \in Nat, clock <= clock'
  PROVE  ThreadsInv'
<1>1. \A r \in Requests : recorded'[r] # NotYet => recorded'[r].at <= clock'
  <2> SUFFICES ASSUME NEW r \in Requests, recorded[r] # NotYet PROVE recorded[r].at <= clock'
    BY DEF ThreadsInv
  <2>1. recorded[r].at \in Nat /\ recorded[r].at <= clock
    BY DEF ThreadsInv, Records
  <2> QED  BY <2>1
<1>2. \A r \in Requests : Followed(r)'
  BY FollowedStays DEF ThreadsInv
<1>3. \A t \in Threads, r \in Requests :
        thread'[t].pc = "process" /\ thread'[t].request = r => Passed(r)'
  BY PassedStays DEF ThreadsInv
<1>4. /\ received' \in 0..MaxRequests /\ thread' \in [Threads -> States]
      /\ recorded' \in [Requests -> Records \cup {NotYet}]
  BY DEF ThreadsInv
<1> QED  BY <1>1, <1>2, <1>3, <1>4 DEF ThreadsInv

(* A thread goes on with its request. *)
LEMMA ThreadMoved ==
  ASSUME ThreadsInv, RunsGrow,
         NEW t \in Threads, NEW state \in States, Goto(t, state), NEW r \in Requests,
         received' \in 0..MaxRequests, clock' = clock,
         state = Idle \/ state.request = r,
         state.pc = "process" => Passed(r)',
         Followed(r)',
         recorded' \in [Requests -> Records \cup {NotYet}],
         recorded'[r] # NotYet => recorded'[r].at <= clock,
         \A q \in Requests : q # r => recorded'[q] = recorded[q]
  PROVE  ThreadsInv'
<1>1. /\ thread' \in [Threads -> States] /\ thread'[t] = state
      /\ \A u \in Threads : u # t => thread'[u] = thread[u]
  BY DEF Goto, ThreadsInv
<1>2. \A q \in Requests : recorded'[q] # NotYet => recorded'[q].at <= clock'
  BY DEF ThreadsInv
<1>3. ASSUME NEW u \in Threads, NEW q \in Requests,
             thread'[u].pc = "process", thread'[u].request = q
      PROVE  Passed(q)'
  <2>1. CASE u = t
    <3>1. state.pc = "process" /\ state.request = q
      BY <1>1, <1>3, <2>1
    <3>2. state # Idle
      BY <3>1, StateShapes
    <3> QED  BY <3>1, <3>2
  <2>2. CASE u # t
    <3>1. Passed(q)
      BY <1>1, <1>3, <2>2 DEF ThreadsInv
    <3> QED  BY <3>1, PassedStays
  <2> QED  BY <2>1, <2>2
<1>4. ASSUME NEW q \in Requests PROVE Followed(q)'
  <2>1. CASE q = r
    BY <2>1
  <2>2. CASE q # r
    BY <2>2, FollowedStays DEF ThreadsInv
  <2> QED  BY <2>1, <2>2
<1> QED  BY <1>1, <1>2, <1>3, <1>4 DEF ThreadsInv

LEMMA NoRun == ran' = ran => RunsGrow
BY DEF RunsGrow

LEMMA ClockAndReceived ==
  ASSUME Inv
  PROVE  clock \in Nat /\ received \in Nat
BY LimitsAssumption, AdmissionAssumption DEF Inv, LimitsInv, ThreadsInv, LimitsShape, Seconds

LEMMA StateIn ==
  /\ Idle \in States
  /\ \A r \in Requests : \A pc \in {"limits", "process"} :
       /\ [pc |-> pc, request |-> r] \in States
       /\ [pc |-> pc, request |-> r].pc = pc /\ [pc |-> pc, request |-> r].request = r
  /\ Idle.pc = "idle"
BY DEF States, Idle

(* Record and Fail, as ThreadMoved needs them. *)
LEMMA RecordIs ==
  ASSUME ThreadsInv, NEW t \in Threads, NEW r \in Requests, NEW kind \in Kinds, NEW at \in Nat,
         at <= clock, Record(t, r, kind, at)
  PROVE  /\ Goto(t, Idle)
         /\ recorded' \in [Requests -> Records \cup {NotYet}]
         /\ recorded'[r].kind = kind /\ recorded'[r].at = at /\ recorded'[r].at <= clock
         /\ \A q \in Requests : q # r => recorded'[q] = recorded[q]
<1> DEFINE new == [kind |-> kind, at |-> at]
<1>1. new \in Records /\ new # NotYet /\ new.kind = kind /\ new.at = at
  BY NotYetIsNoRecord
<1>2. recorded' = [recorded EXCEPT ![r] = new]
  BY DEF Record
<1>3. recorded \in [Requests -> Records \cup {NotYet}]
  BY DEF ThreadsInv
<1> HIDE DEF new
<1>4. recorded'[r] = new /\ recorded' \in [Requests -> Records \cup {NotYet}]
  BY <1>1, <1>2, <1>3
<1>5. \A q \in Requests : q # r => recorded'[q] = recorded[q]
  BY <1>2, <1>3
<1> QED  BY <1>1, <1>4, <1>5 DEF Record

(* A thread goes on and nothing is recorded, or it is done and records a   *)
(* refusal.                                                                *)
LEMMA MovesUnrecorded ==
  ASSUME ThreadsInv, RunsGrow, recorded' = recorded, received' \in 0..MaxRequests, clock' = clock,
         NEW t \in Threads, NEW state \in States, Goto(t, state),
         NEW r \in Requests, state = Idle \/ state.request = r,
         state.pc = "process" => Passed(r)'
  PROVE  ThreadsInv'
<1>1. Followed(r)'
  BY FollowedStays DEF ThreadsInv
<1>2. /\ recorded' \in [Requests -> Records \cup {NotYet}]
      /\ recorded'[r] # NotYet => recorded'[r].at <= clock
  BY DEF ThreadsInv
<1> QED  BY <1>1, <1>2, ThreadMoved

LEMMA BlocksKeep ==
  ASSUME ThreadsInv, RunsGrow, received' \in 0..MaxRequests, clock' = clock,
         NEW t \in Threads, NEW r \in Requests, NEW at \in Nat, at <= clock,
         Record(t, r, "blocked", at)
  PROVE  ThreadsInv'
<1>1. /\ Goto(t, Idle)
      /\ recorded' \in [Requests -> Records \cup {NotYet}]
      /\ recorded'[r].kind = "blocked" /\ recorded'[r].at <= clock
      /\ \A q \in Requests : q # r => recorded'[q] = recorded[q]
  BY RecordIs DEF Kinds
<1>2. Followed(r)'
  BY <1>1 DEF Followed
<1> QED  BY <1>1, <1>2, StateIn, ThreadMoved

----------------------------------------------------------------------------
(* The steps. *)
LEMMA NewRequest ==
  ASSUME Inv, NEW t \in Threads, NextRequest(t)
  PROVE  received' \in Requests /\ received' = received + 1 /\ received' \in 0..MaxRequests
BY AdmissionAssumption DEF NextRequest, Requests

LEMMA RefuseKeeps ==
  ASSUME Inv, NEW t \in Threads, RefuseKey(t) \/ RefuseUnasked(t)
  PROVE  Inv'
<1> USE DEF Inv
<1>1. PICK r \in Requests : r = received' /\ received' = received + 1 /\ received' \in 0..MaxRequests
  BY NewRequest DEF RefuseKey, RefuseUnasked
<1>2. UNCHANGED limitVars /\ clock \in Nat
  BY ClockAndReceived DEF RefuseKey, RefuseUnasked
<1>3. LimitsInv'
  BY <1>1, <1>2, ClockAndReceived, CallsLost DEF limitVars
<1>4. RunsGrow /\ clock' = clock
  BY <1>2, NoRun DEF limitVars
<1>5. ASSUME RefuseKey(t)
      PROVE  ThreadsInv'
  <2>1. Record(t, r, "blocked", clock)
    BY <1>1, <1>5 DEF RefuseKey
  <2>2. ThreadsInv /\ clock \in Nat /\ clock <= clock
    BY <1>2
  <2> QED  BY <1>1, <1>4, <2>1, <2>2, BlocksKeep
<1>6. ASSUME RefuseUnasked(t)
      PROVE  ThreadsInv'
  <2>1. Goto(t, Idle) /\ recorded' = recorded
    BY <1>6 DEF RefuseUnasked, Fail
  <2>2. ThreadsInv /\ Idle \in States /\ Idle.pc # "process"
    BY StateIn
  <2>3. r \in Requests
    BY <1>1, NewRequest, <1>6 DEF RefuseUnasked
  <2> QED  BY <1>1, <1>4, <2>1, <2>2, <2>3, MovesUnrecorded
<1>7. ThreadsInv'
  BY <1>5, <1>6
<1> QED  BY <1>3, <1>7

LEMMA AskLimitsKeeps ==
  ASSUME Inv, NEW t \in Threads, AskLimits(t)
  PROVE  Inv'
<1> USE DEF Inv
<1>1. PICK r \in Requests : r = received' /\ received' = received + 1 /\ received' \in 0..MaxRequests
  BY NewRequest DEF AskLimits
<1>2. LimitsInv'
  BY <1>1, ClockAndReceived, CallSent DEF AskLimits
<1> DEFINE state == [pc |-> "limits", request |-> r]
<1>3. state \in States /\ state.pc = "limits" /\ state.request = r
  BY StateIn
<1>4. Goto(t, state) /\ recorded' = recorded /\ clock' = clock /\ RunsGrow
  BY <1>1, NoRun DEF AskLimits
<1> HIDE DEF state
<1>5. ThreadsInv'
  BY <1>1, <1>3, <1>4, MovesUnrecorded
<1> QED  BY <1>2, <1>5

LEMMA TimeoutKeeps ==
  ASSUME Inv, NEW t \in Threads, Timeout(t)
  PROVE  Inv'
<1> USE DEF Inv
<1>1. PICK r \in Requests : r = thread[t].request
  BY StateShapes DEF Timeout, ThreadsInv
<1>2. LimitsInv'
  BY ClockAndReceived, CallsLost DEF Timeout, limitVars
<1>3. /\ Goto(t, Idle) /\ recorded' = recorded /\ clock' = clock /\ RunsGrow
      /\ received' \in 0..MaxRequests
  BY NoRun DEF Timeout, Fail, limitVars, ThreadsInv
<1>4. ThreadsInv'
  BY <1>3, StateIn, MovesUnrecorded
<1> QED  BY <1>2, <1>4

LEMMA RunScriptKeeps ==
  ASSUME Inv, NEW call \in wire, RunScript(call)
  PROVE  Inv'
<1> USE DEF Inv
<1>1. PICK decision \in Decisions :
        /\ CheckLimits(call, decision)
        /\ \/ \E t \in Threads :
                /\ Asked(t, call)
                /\ \/ /\ LetsPass(decision)
                      /\ Goto(t, [pc |-> "process", request |-> call.id])
                      /\ UNCHANGED recorded
                   \/ ~LetsPass(decision) /\ Record(t, call.id, "blocked", call.now)
           \/ (\A t \in Threads : ~Asked(t, call)) /\ UNCHANGED <<thread, recorded>>
        /\ received' = received
  BY DEF RunScript, Decisions
<1>2. LimitsInv'
  BY <1>1, ClockAndReceived, ScriptRun
<1>3. PICK r \in Requests : r = call.id
  BY DEF LimitsInv, LimitsShape
<1>4. clock' = clock /\ received' \in 0..MaxRequests /\ clock \in Nat
  BY <1>1, ClockAndReceived DEF CheckLimits, ThreadsInv
<1>5. \A run \in ran : run.id # r
  BY <1>3 DEF LimitsInv, CallsOK
<1> DEFINE e == [id |-> call.id, now |-> call.now, at |-> clock, decision |-> decision]
<1>6. ran' = ran \cup {e} /\ e.id = r /\ e.decision = decision
  BY <1>1, <1>3 DEF CheckLimits
<1> HIDE DEF e
<1>7. RunsGrow
  BY <1>5, <1>6 DEF RunsGrow, Admitted, Allowed
<1>8. LetsPass(decision) => Passed(r)'
  <2> SUFFICES ASSUME LetsPass(decision) PROVE Passed(r)'
    OBVIOUS
  <2>1. decision = "allowed"
    BY DEF LetsPass, Decisions
  <2>2. \A run \in ran' : run.id = r => run.decision = "allowed"
    BY <1>5, <1>6, <2>1
  <2>3. r \in Admitted'
    BY <1>6, <2>1 DEF Admitted, Allowed
  <2> QED  BY <2>2, <2>3 DEF Passed
<1>9. call.now \in Nat /\ call.now <= clock
  BY ClockAndReceived DEF LimitsInv, LimitsShape
<1>10. ASSUME NEW t \in Threads, LetsPass(decision),
              Goto(t, [pc |-> "process", request |-> call.id]), UNCHANGED recorded
       PROVE  ThreadsInv'
  <2> DEFINE state == [pc |-> "process", request |-> r]
  <2>1. state \in States /\ state.pc = "process" /\ state.request = r
    BY StateIn
  <2>2. Goto(t, state)
    BY <1>3, <1>10
  <2> HIDE DEF state
  <2> QED  BY <1>4, <1>7, <1>8, <1>10, <2>1, <2>2, MovesUnrecorded
<1>11. ASSUME NEW t \in Threads, Record(t, call.id, "blocked", call.now)
       PROVE  ThreadsInv'
  BY <1>3, <1>4, <1>7, <1>9, <1>11, BlocksKeep
<1>12. ASSUME UNCHANGED <<thread, recorded>>
       PROVE  ThreadsInv'
  BY <1>1, <1>4, <1>7, <1>12, ThreadsKept
<1>13. ThreadsInv'
  BY <1>1, <1>10, <1>11, <1>12
<1> QED  BY <1>2, <1>13

LEMMA ProcessKeeps ==
  ASSUME Inv, NEW t \in Threads, Process(t)
  PROVE  Inv'
<1> USE DEF Inv
<1>1. PICK r \in Requests : r = thread[t].request /\ Passed(r)
  BY StateShapes DEF Process, ThreadsInv
<1>2. LimitsInv'
  BY ClockAndReceived, CallsLost DEF Process, limitVars
<1>3. clock' = clock /\ clock \in Nat /\ RunsGrow /\ received' \in 0..MaxRequests
  BY ClockAndReceived, NoRun DEF Process, limitVars, ThreadsInv
<1>4. Passed(r)' /\ RunBy(r, clock)'
  <2>1. RunBy(r, clock)
    BY DEF RunBy, LimitsInv, CallsOK
  <2> QED  BY <1>1, <1>3, <2>1, PassedStays DEF RunBy
<1>5. ASSUME NEW kind \in Kinds, NEW at \in Nat, at <= clock, Record(t, r, kind, at),
             at = clock \/ kind = "replayed"
      PROVE  ThreadsInv'
  <2>1. /\ Goto(t, Idle)
        /\ recorded' \in [Requests -> Records \cup {NotYet}]
        /\ recorded'[r].kind = kind /\ recorded'[r].at = at /\ recorded'[r].at <= clock
        /\ \A q \in Requests : q # r => recorded'[q] = recorded[q]
    BY <1>5, RecordIs
  <2>2. Followed(r)'
    BY <1>3, <1>4, <1>5, <2>1 DEF Followed, RunBy
  <2> QED  BY <1>3, <2>1, <2>2, StateIn, ThreadMoved
<1>6. ASSUME Fail(t)
      PROVE  ThreadsInv'
  BY <1>3, <1>6, StateIn, MovesUnrecorded DEF Fail
<1>7. ASSUME NEW e \in Events PROVE recorded[e].at \in Nat /\ recorded[e].at <= clock
  BY <1>7 DEF Events, ThreadsInv, Records
<1>8. \/ \E kind \in {"new", "conflict", "blocked"} : Record(t, r, kind, clock)
      \/ \E e \in Events : Record(t, r, "replayed", recorded[e].at)
      \/ Fail(t)
  BY <1>1 DEF Process
<1>9. ThreadsInv'
  BY <1>3, <1>5, <1>6, <1>7, <1>8 DEF Kinds
<1> QED  BY <1>2, <1>9

LEMMA LoseCallKeeps ==
  ASSUME Inv, NEW call \in wire, LoseCall(call)
  PROVE  Inv'
<1> USE DEF Inv
<1>1. LimitsInv'
  BY ClockAndReceived, CallsLost DEF LoseCall
<1>2. ThreadsInv'
  BY ClockAndReceived, NoRun, ThreadsKept DEF LoseCall
<1> QED  BY <1>1, <1>2

LEMMA PassTimeKeeps ==
  ASSUME Inv, PassTime
  PROVE  Inv'
<1> USE DEF Inv
<1>1. LimitsInv'
  BY ClockAndReceived, TimePassed DEF PassTime
<1>2. clock' \in Nat /\ clock <= clock' /\ ran' = ran
  BY ClockAndReceived DEF PassTime, Tick
<1>3. ThreadsInv'
  BY <1>2, ClockAndReceived, NoRun, ThreadsKept DEF PassTime
<1> QED  BY <1>1, <1>3

LEMMA ThreadsInitially == Init => ThreadsInv
<1> SUFFICES ASSUME Init PROVE ThreadsInv
  OBVIOUS
<1>1. received \in 0..MaxRequests
  BY AdmissionAssumption DEF Init
<1>2. thread \in [Threads -> States] /\ \A t \in Threads : thread[t].pc = "idle"
  BY StateIn DEF Init
<1>3. \A r \in Requests : recorded[r] = NotYet
  BY DEF Init
<1>4. recorded \in [Requests -> Records \cup {NotYet}]
  BY DEF Init
<1> QED  BY <1>1, <1>2, <1>3, <1>4 DEF ThreadsInv, Followed

LEMMA NothingKeeps == ASSUME Inv, UNCHANGED vars PROVE Inv'
<1> USE DEF Inv
<1>1. LimitsInv'
  BY ClockAndReceived, CallsLost DEF vars, limitVars
<1>2. ThreadsInv'
  BY ClockAndReceived, NoRun, ThreadsKept DEF vars, limitVars
<1> QED  BY <1>1, <1>2

LEMMA StepKeeps == ASSUME Inv, [Next]_vars PROVE Inv'
<1>1. ASSUME NEW t \in Threads,
             RefuseKey(t) \/ RefuseUnasked(t) \/ AskLimits(t) \/ Timeout(t) \/ Process(t)
      PROVE  Inv'
  BY <1>1, RefuseKeeps, AskLimitsKeeps, TimeoutKeeps, ProcessKeeps
<1>2. ASSUME NEW call \in wire, RunScript(call) \/ LoseCall(call) PROVE Inv'
  BY <1>2, RunScriptKeeps, LoseCallKeeps
<1> QED  BY <1>1, <1>2, PassTimeKeeps, NothingKeeps DEF Next
----------------------------------------------------------------------------
(* The theorems. *)

(* The counters, the calls, the threads and the records agree with each    *)
(* other in every state.                                                   *)
THEOREM InvCorrect == Spec => []Inv
<1>1. Init => Inv
  BY LimitsInitially, ThreadsInitially DEF Inv
<1>2. Inv /\ [Next]_vars => Inv'
  BY StepKeeps
<1> QED  BY <1>1, <1>2, PTL DEF Spec

(* The variables of a key's requests keep their types, and no counter is   *)
(* left without a time to live (check_api_key_limits.lua 31-70).           *)
THEOREM TypeCorrect == Spec => []TypeOK
<1>1. ASSUME Inv PROVE TypeOK
  <2> USE <1>1 DEF Inv, LimitsInv, ThreadsInv
  <2>1. {clock, received} \subseteq Nat
    BY ClockAndReceived
  <2>2. \A s \in Seconds : rate[s] \in Counters /\ (rate[s] = Gone \/ rate[s].until > clock)
    BY DEF LimitsShape, RateOK, Alive
  <2>3. \A d \in DOMAIN quota : quota[d] \in Counters /\ (quota[d] = Gone \/ quota[d].until > clock)
    BY DEF LimitsShape, QuotaOK, Alive
  <2>4. \A call \in wire : call.id \in Requests /\ call.now \in 0..clock
    BY DEF LimitsShape
  <2>5. \A t \in Threads :
          thread[t] = Idle \/ (thread[t].pc \in {"limits", "process"} /\ thread[t].request \in Requests)
    BY StateShapes
  <2>6. recorded \in [Requests -> [kind : Kinds, at : 0..clock] \cup {NotYet}]
    <3>1. \A r \in Requests : recorded[r] \in [kind : Kinds, at : 0..clock] \cup {NotYet}
      <4> TAKE r \in Requests
      <4>1. recorded[r] = NotYet \/ (recorded[r] \in Records /\ recorded[r].at <= clock)
        OBVIOUS
      <4> QED  BY <4>1, <2>1 DEF Records
    <3> QED  BY <3>1
  <2> QED  BY <2>1, <2>2, <2>3, <2>4, <2>5, <2>6 DEF TypeOK
<1> QED  BY <1>1, InvCorrect, PTL

(* However many threads ask at once, and however late a call is run within *)
(* its second and the next, or its day, the limit of requests per second   *)
(* and the daily quota are kept.                                           *)
THEOREM LimitsHeldHolds == Spec => []LimitsHeld
<1>1. ASSUME Inv PROVE LimitsHeld
  <2>1. \A s \in Seconds : Cardinality(InSecond(s)) <= RateLimit
    BY <1>1 DEF Inv, LimitsInv, RateOK
  <2>2. \A d \in DOMAIN quota : Cardinality(InDay(d)) <= DailyQuota
    BY <1>1 DEF Inv, LimitsInv, LimitsShape, QuotaOK
  <2> QED  BY <2>1, <2>2 DEF LimitsHeld, InSecond, InDay
<1> QED  BY <1>1, InvCorrect, PTL

(* No request is refused that the attempts of its second or the admissions *)
(* of its day before it do not refuse.                                     *)
THEOREM RefusalsAreDeservedHolds == Spec => []RefusalsAreDeserved
<1>1. Inv => RefusalsAreDeserved
  BY DEF Inv, LimitsInv
<1> QED  BY <1>1, InvCorrect, PTL

(* The usage of a day shows no more new events and conflicts, of requests  *)
(* received that day, than the quota: a request recorded on the day it was *)
(* received was run by Redis on that day, before its counter expired.      *)
THEOREM AllowedWithinQuotaHolds == Spec => []AllowedWithinQuota
<1>1. ASSUME Inv PROVE AllowedWithinQuota
  <2> USE <1>1 DEF Inv
  <2> SUFFICES ASSUME NEW d \in DOMAIN quota
               PROVE  Cardinality({r \in Requests : ReceivedOn(r, d) /\ CountedOn(r, d)}) <= DailyQuota
    BY DEF AllowedWithinQuota
  <2> DEFINE S == {r \in Requests : ReceivedOn(r, d) /\ CountedOn(r, d)}
             T == {run.id : run \in InDay(d)}
  <2>1. S \subseteq T
    <3> SUFFICES ASSUME NEW r \in Requests, ReceivedOn(r, d), CountedOn(r, d)
                 PROVE  \E run \in InDay(d) : run.id = r
      OBVIOUS
    <3>1. PICK run \in ran : run.id = r /\ Day(run.now) = d
      BY DEF ReceivedOn
    <3>2. Passed(r) /\ RunBy(r, recorded[r].at) /\ recorded[r].at \in Nat
      BY DEF CountedOn, ThreadsInv, Followed, Records
    <3>3. run.decision = "allowed" /\ run.at <= recorded[r].at
      BY <3>1, <3>2 DEF Passed, RunBy
    <3>4. run.now <= run.at /\ run.now \in Nat /\ run.at \in Nat
      BY LimitsAssumption DEF LimitsInv, CallsOK, LimitsShape, Runs, Seconds
    <3>5. Day(run.now) <= Day(run.at) /\ Day(run.at) <= Day(recorded[r].at)
      BY <3>2, <3>3, <3>4, DayMonotone
    <3>6. Day(run.at) = d
      <4>1. Day(recorded[r].at) = d
        BY DEF CountedOn
      <4>2. Day(run.at) \in Nat /\ Day(run.now) \in Nat
        BY <3>4, DayBounds
      <4> QED  BY <3>1, <3>5, <4>1, <4>2
    <3> QED  BY <3>1, <3>3, <3>6 DEF InDay, Allowed
  <2>2. IsFiniteSet(InDay(d)) /\ Cardinality(InDay(d)) \in Nat
    <3>1. InDay(d) \subseteq ran /\ IsFiniteSet(ran)
      BY DEF LimitsInv, LimitsShape, InDay, Allowed
    <3> QED  BY <3>1, FS_Subset, FS_CardinalityType
  <2>3. IsFiniteSet(T) /\ Cardinality(T) <= Cardinality(InDay(d))
    <3> DEFINE f == [run \in InDay(d) |-> run.id]
    <3>1. f \in Surjection(InDay(d), T)
      BY DEF Surjection
    <3> HIDE DEF f, T
    <3> QED  BY <2>2, <3>1, FS_Surjection
  <2> HIDE DEF S, T
  <2>4. Cardinality(S) <= Cardinality(T) /\ Cardinality(S) \in Nat /\ Cardinality(T) \in Nat
    <3>1. IsFiniteSet(S) /\ Cardinality(S) <= Cardinality(T)
      BY <2>1, <2>3, FS_Subset
    <3> QED  BY <2>3, <3>1, FS_CardinalityType
  <2>5. Cardinality(InDay(d)) <= DailyQuota
    BY DEF LimitsInv, LimitsShape, QuotaOK
  <2>6. Cardinality(S) <= DailyQuota
    BY <2>2, <2>3, <2>4, <2>5, LimitsAssumption
  <2> QED  BY <2>6 DEF S
<1> QED  BY <1>1, InvCorrect, PTL
=============================================================================
