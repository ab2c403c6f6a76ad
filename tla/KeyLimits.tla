------------------------------ MODULE KeyLimits ------------------------------
(***************************************************************************)
(* The limits of one API key in Redis: check_api_key_limits.lua counts the *)
(* attempts of a second and the admissions of a day, in keys that expire.  *)
(* Which second and which day is decided by the caller's clock when it     *)
(* asks, the script runs when Redis gets to it.                            *)
(***************************************************************************)
EXTENDS Calendar, FiniteSets

CONSTANTS RateLimit,      \* requests per second of the key
          DailyQuota,     \* admissions per day of the key
          MaxClock        \* bound: time

ASSUME LimitsAssumption ==
  {RateLimit, DailyQuota, MaxClock} \subseteq Nat \ {0}

VARIABLES
  clock,
  rate,     \* rl:{key}:{second}, count and time of expiry
  quota,    \* qt:{key}:{day}, count and time of expiry
  wire,     \* script calls sent and not run yet
  ran       \* history: the calls run, when and with which decision

limitVars == <<clock, rate, quota, wire, ran>>

Seconds == 0..MaxClock
Gone == [count |-> 0, until |-> 0]

LimitsInit ==
  /\ clock = 0
  /\ rate = [s \in Seconds |-> Gone]
  /\ quota = [d \in {Day(s) : s \in Seconds} |-> Gone]
  /\ wire = {} /\ ran = {}

----------------------------------------------------------------------------
OneSecond == 1                                    \* mutated form of RateLimitTtl
RateLimitTtl == 2

TtlOfOneSecond(now) == 1                          \* mutated form of SecondsUntilNextUtcDay
SecondsUntilNextUtcDay(now) == (Day(now) + 1) * SecondsPerDay - now

(* checkAndConsume: the keys and the daily TTL come from the caller's now. *)
Call(id, now) == [id |-> id, now |-> now, dailyTtl |-> SecondsUntilNextUtcDay(now)]

NeverExpires(counter, ttl) ==                     \* mutated form of Incremented
  [count |-> counter.count + 1, until |-> counter.until]
(* INCR, and EXPIRE for the one that created the key *)
Incremented(counter, ttl) ==
  [count |-> counter.count + 1,
   until |-> IF counter.count = 0 THEN clock + ttl ELSE counter.until]

Decision(attempts, admitted) ==
  IF attempts > RateLimit THEN "rate" ELSE IF admitted >= DailyQuota THEN "quota" ELSE "allowed"

ConsumesAlways(decision) == TRUE                  \* mutated form of Consumes
Consumes(decision) == decision = "allowed"

(* check_api_key_limits.lua; an attempt always counts for its second. *)
CheckLimits(call, decision) ==
  LET s == call.now
      d == Day(call.now)
  IN  /\ call \in wire
      /\ wire' = wire \ {call}
      /\ rate' = [rate EXCEPT ![s] = Incremented(@, RateLimitTtl)]
      /\ decision = Decision(rate[s].count + 1, quota[d].count)
      /\ quota' = IF Consumes(decision)
                  THEN [quota EXCEPT ![d] = Incremented(@, call.dailyTtl)] ELSE quota
      /\ ran' = ran \cup {[id |-> call.id, now |-> call.now, at |-> clock, decision |-> decision]}
      /\ UNCHANGED clock

Expired(counters) ==
  [k \in DOMAIN counters |-> IF counters[k].until <= clock + 1 THEN Gone ELSE counters[k]]

Tick ==
  /\ clock < MaxClock
  /\ clock' = clock + 1
  /\ rate' = Expired(rate)
  /\ quota' = Expired(quota)
  /\ UNCHANGED <<wire, ran>>

----------------------------------------------------------------------------
Allowed(S) == {r \in S : r.decision = "allowed"}

(* No more requests of one second are admitted than the key's limit, of    *)
(* those Redis runs by the end of the next second, and no more of one day  *)
(* than its quota, of those it runs before midnight: neither counter       *)
(* expires before that, however late the request that created it was run.  *)
(* A call that is later still can start an expired counter again.          *)
(* (check_api_key_limits.lua 31-70, RedisApiKeyRateLimitRepository 41-58.) *)
LimitsHeld ==
  /\ \A s \in Seconds :
       Cardinality(Allowed({r \in ran : r.now = s /\ r.at < s + 2})) <= RateLimit
  /\ \A d \in DOMAIN quota :
       Cardinality(Allowed({r \in ran : Day(r.now) = d /\ Day(r.at) = d})) <= DailyQuota

(* A refusal is deserved: by the quota after as many admissions that day,  *)
(* by the rate after as many attempts that second.  A request refused for  *)
(* its rate has used up none of the quota.                                 *)
(* (check_api_key_limits.lua 13-22.)                                       *)
RefusalsAreDeserved ==
  \A r \in ran :
    LET before == {o \in ran : o.id # r.id /\ o.at <= r.at}
    IN  /\ r.decision = "quota" =>
             Cardinality(Allowed({o \in before : Day(o.now) = Day(r.now)})) >= DailyQuota
        /\ r.decision = "rate" =>
             Cardinality({o \in before : o.now = r.now}) >= RateLimit
=============================================================================
