------------------------------ MODULE Admission ------------------------------
(***************************************************************************)
(* POST /events around the hot path, for one API key: authorize() checks   *)
(* the key and asks KeyLimits, the event is processed (EventHotPath), and  *)
(* what came out of it is recorded (UsageStats).  The breaker may be open  *)
(* at either call to Redis.                                                *)
(***************************************************************************)
EXTENDS KeyLimits

CONSTANTS Threads,
          NotYet,         \* no record of a request
          KeyExpiresAt,   \* api_keys.expires_at
          MaxRequests     \* bound: requests

VARIABLES
  received,   \* requests received
  thread,     \* what each request thread is doing
  recorded    \* what record() was called with for each request

vars == <<limitVars, received, thread, recorded>>

Requests == 1..MaxRequests
Idle == [pc |-> "idle"]
Kinds == {"new", "replayed", "conflict", "blocked"}
Records == [kind : Kinds, at : Nat]

ASSUME AdmissionAssumption ==
  {KeyExpiresAt, MaxRequests} \subseteq Nat /\ NotYet \notin Records

Init ==
  /\ LimitsInit
  /\ received = 0
  /\ thread = [t \in Threads |-> Idle]
  /\ recorded = [r \in Requests |-> NotYet]

Goto(t, state) == thread' = [thread EXCEPT ![t] = state]

(* The request is recorded and answered. *)
Record(t, r, kind, at) ==
  /\ recorded' = [recorded EXCEPT ![r] = [kind |-> kind, at |-> at]]
  /\ Goto(t, Idle)

(* An exception nobody records: the request is answered with an error. *)
Fail(t) == Goto(t, Idle) /\ UNCHANGED recorded

----------------------------------------------------------------------------
(* authorize() *)
NextRequest(t) ==
  /\ thread[t] = Idle
  /\ received' = received + 1
  /\ received' \in Requests

KeyExpired(now) == KeyExpiresAt <= now

RefuseKey(t) ==
  /\ NextRequest(t) /\ KeyExpired(clock)
  /\ Record(t, received', "blocked", clock)
  /\ UNCHANGED limitVars

(* The breaker is open: the exception leaves authorize() unrecorded. *)
RefuseUnasked(t) ==
  /\ NextRequest(t) /\ ~KeyExpired(clock)
  /\ Fail(t)
  /\ UNCHANGED limitVars

AskLimits(t) ==
  /\ NextRequest(t) /\ ~KeyExpired(clock)
  /\ wire' = wire \cup {Call(received', clock)}
  /\ Goto(t, [pc |-> "limits", request |-> received'])
  /\ UNCHANGED <<clock, rate, quota, ran, recorded>>

Asked(t, call) == thread[t].pc = "limits" /\ thread[t].request = call.id

OnlyTheRate(decision) == decision # "rate"         \* mutated form of LetsPass
(* Both refusals have a clause of their own in authorize(). *)
LetsPass(decision) == decision \notin {"rate", "quota"}

(* Redis runs the script; a caller that still waits goes on with its       *)
(* decision, and a refusal is recorded at the time authorize() began.      *)
RunScript(call) ==
  \E decision \in {"allowed", "rate", "quota"} :
    /\ CheckLimits(call, decision)
    /\ \/ \E t \in Threads :
            /\ Asked(t, call)
            /\ \/ /\ LetsPass(decision)
                  /\ Goto(t, [pc |-> "process", request |-> call.id])
                  /\ UNCHANGED recorded
               \/ ~LetsPass(decision) /\ Record(t, call.id, "blocked", call.now)
       \/ (\A t \in Threads : ~Asked(t, call)) /\ UNCHANGED <<thread, recorded>>
    /\ UNCHANGED received

(* The connection drops a call before Redis runs it. *)
LoseCall(call) ==
  /\ call \in wire
  /\ wire' = wire \ {call}
  /\ UNCHANGED <<clock, rate, quota, ran, received, thread, recorded>>

(* The command times out; it stays sent. *)
Timeout(t) ==
  /\ thread[t].pc = "limits"
  /\ Fail(t)
  /\ UNCHANGED <<limitVars, received>>

----------------------------------------------------------------------------
Events == {r \in Requests : recorded[r] # NotYet /\ recorded[r].kind = "new"}

(* The exceptions the controller has a catch clause for. *)
Caught == {"conflict", "breaker"}

(* process(): a new event is recorded at its time, a replay at the time of *)
(* the event it repeats, and a caught exception when it is caught.         *)
Process(t) ==
  /\ thread[t].pc = "process"
  /\ LET r == thread[t].request
     IN  \/ Record(t, r, "new", clock)
         \/ \E e \in Events : Record(t, r, "replayed", recorded[e].at)
         \/ \E cause \in {"conflict", "breaker", "redis"} :
              IF cause \in Caught
              THEN Record(t, r, IF cause = "conflict" THEN "conflict" ELSE "blocked", clock)
              ELSE Fail(t)
  /\ UNCHANGED <<limitVars, received>>

PassTime == Tick /\ UNCHANGED <<received, thread, recorded>>

Next ==
  \/ \E t \in Threads :
       RefuseKey(t) \/ RefuseUnasked(t) \/ AskLimits(t) \/ Timeout(t) \/ Process(t)
  \/ \E call \in wire : RunScript(call) \/ LoseCall(call)
  \/ PassTime

Spec == Init /\ [][Next]_vars

----------------------------------------------------------------------------
Counters == [count : Nat, until : Nat]

(* Every variable keeps its shape, and a counter that exists has a time to *)
(* live.                                                                   *)
TypeOK ==
  /\ {clock, received} \subseteq Nat
  /\ \A s \in Seconds : rate[s] \in Counters /\ (rate[s] = Gone \/ rate[s].until > clock)
  /\ \A d \in DOMAIN quota : quota[d] \in Counters /\ (quota[d] = Gone \/ quota[d].until > clock)
  /\ \A call \in wire : call.id \in Requests /\ call.now \in 0..clock
  /\ \A t \in Threads :
       thread[t] = Idle \/ (thread[t].pc \in {"limits", "process"} /\ thread[t].request \in Requests)
  /\ recorded \in [Requests -> [kind : Kinds, at : 0..clock] \cup {NotYet}]

(* The usage of a day shows no more new events and conflicts, of requests  *)
(* received that day, than the key's quota of the day: however many        *)
(* threads ask at once, however late Redis runs a call, and whatever was   *)
(* given up in between.  A request received before midnight and recorded   *)
(* after it counts for neither day here, and so does a replay, which is    *)
(* recorded on the day of its event.                                       *)
(* (EventCommandController 48-77, ApiKeyApplicationService 106-142,        *)
(* check_api_key_limits.lua 39-70.)                                        *)
ReceivedOn(r, d) == \E call \in ran : call.id = r /\ Day(call.now) = d
CountedOn(r, d) ==
  recorded[r] # NotYet /\ recorded[r].kind \in {"new", "conflict"} /\ Day(recorded[r].at) = d

AllowedWithinQuota ==
  \A d \in DOMAIN quota :
    Cardinality({r \in Requests : ReceivedOn(r, d) /\ CountedOn(r, d)}) <= DailyQuota
=============================================================================
