------------------------------ MODULE UsageStats ------------------------------
(***************************************************************************)
(* UsageStatsRecorder of one instance: request threads add their request   *)
(* to the pending map, once for its hour and once for its day, and a       *)
(* scheduled flush swaps the map for a new one and adds what it finds in   *)
(* the old one to the usage_stats rows.  get() and merge() are two steps,  *)
(* and the flush walks the old map while threads may still add to it.      *)
(* A request's counts are its number, so that a row tells which requests   *)
(* it counts; instances meet only in the atomic UPSERT.  Requests come at  *)
(* any time and are counted at any time: a replay counts at the time of    *)
(* the event it repeats.                                                   *)
(***************************************************************************)
EXTENDS Calendar, Sequences, FiniteSets

CONSTANTS Threads,
          Times,         \* bound: the times requests are counted at
          NotYet,        \* no record of a request
          MaxRequests,   \* bound: requests
          MaxFaults      \* bound: failed increments, lost answers, crashes

ASSUME UsageAssumption ==
  Times \subseteq Nat /\ NotYet \notin Times /\ {MaxRequests, MaxFaults} \subseteq Nat

Requests == 1..MaxRequests

VARIABLES
  at,         \* when each request is counted
  recorder,   \* record() in each request thread
  pending,    \* the current map: <<bucket type, request>> pairs
  flush,      \* flushPending()
  stored,     \* the rows: how often each pair is counted
  faults,
  raced,      \* history: pairs added to a map that was swapped out already
  doubtful,   \* history: pairs whose committed increment seemed to fail
  died        \* history: pairs in memory when the process died

vars == <<at, recorder, pending, flush, stored, faults, raced, doubtful, died>>

Types == {"HOUR", "DAY"}
Pairs == Types \X Requests
NoRecord == [types |-> << >>, map |-> "none"]
Resting == [pc |-> "resting", map |-> {}, walked |-> {}]

Init ==
  /\ at = [r \in Requests |-> NotYet]
  /\ recorder = [t \in Threads |-> NoRecord]
  /\ pending = {}
  /\ flush = Resting
  /\ stored = [p \in Pairs |-> 0]
  /\ faults = 0
  /\ raced = {} /\ doubtful = {} /\ died = {}

(* The rows' key of a pair: bucket type and bucket start. *)
Bucket(pair) ==
  <<pair[1], IF pair[1] = "HOUR" THEN Hour(at[pair[2]]) ELSE Day(at[pair[2]])>>
Buckets(map) == {Bucket(p) : p \in map}

----------------------------------------------------------------------------
HourOnly == <<"HOUR">>                             \* mutated form of BucketTypes
BucketTypes == <<"HOUR", "DAY">>

(* record() is called with the counts of the next request. *)
Record(t, s) ==
  /\ recorder[t] = NoRecord
  /\ \E r \in Requests :
       /\ at[r] = NotYet /\ \A q \in 1..(r - 1) : at[q] # NotYet
       /\ at' = [at EXCEPT ![r] = s]
       /\ recorder' = [recorder EXCEPT ![t] = [request |-> r, types |-> BucketTypes, map |-> "none"]]
  /\ UNCHANGED <<pending, flush, stored, faults, raced, doubtful, died>>

Recording(t) == recorder[t].types # << >>
Item(t) == <<Head(recorder[t].types), recorder[t].request>>

(* pendingDeltas.get() *)
GetMap(t) ==
  /\ Recording(t) /\ recorder[t].map = "none"
  /\ recorder' = [recorder EXCEPT ![t].map = "current"]
  /\ UNCHANGED <<at, pending, flush, stored, faults, raced, doubtful, died>>

(* merge() into the map the thread has got, whatever became of it since. *)
Merge(t) ==
  /\ Recording(t) /\ recorder[t].map # "none"
  /\ pending' = IF recorder[t].map = "current" THEN pending \cup {Item(t)} ELSE pending
  /\ flush' = IF recorder[t].map = "old" THEN [flush EXCEPT !.map = @ \cup {Item(t)}] ELSE flush
  /\ raced' = IF recorder[t].map = "current" THEN raced ELSE raced \cup {Item(t)}
  /\ recorder' = [recorder EXCEPT ![t] =
       IF Len(@.types) = 1 THEN NoRecord
       ELSE [request |-> @.request, types |-> Tail(@.types), map |-> "none"]]
  /\ UNCHANGED <<at, stored, faults, doubtful, died>>

----------------------------------------------------------------------------
(* What the threads hold when the current map becomes the old one, or the  *)
(* old one is dropped.                                                     *)
Become(from, to) ==
  recorder' = [t \in Threads |->
    IF recorder[t].map = from THEN [recorder[t] EXCEPT !.map = to] ELSE recorder[t]]

PendingKept == pending                             \* mutated form of AfterSwap
AfterSwap == {}

(* pendingDeltas.getAndSet(new map) *)
SwapMaps ==
  /\ flush.pc = "resting"
  /\ flush' = [pc |-> "check", map |-> pending, walked |-> {}]
  /\ pending' = AfterSwap
  /\ Become("current", "old")
  /\ UNCHANGED <<at, stored, faults, raced, doubtful, died>>

StillOld == "old"                                  \* mutated form of Dropped
Dropped == "orphan"

EndFlush ==
  /\ flush' = Resting
  /\ Become("old", Dropped)
  /\ UNCHANGED <<at, pending, stored, faults, raced, doubtful, died>>

EmptyOldMap == flush.pc = "check" /\ flush.map = {} /\ EndFlush

(* The iterator finds every bucket the map has now; one added while it     *)
(* walks it may find or not.                                               *)
StartWalk ==
  /\ flush.pc = "check" /\ flush.map # {}
  /\ flush' = [pc |-> "walk", map |-> flush.map, walked |-> {}, all |-> Buckets(flush.map)]
  /\ UNCHANGED <<at, recorder, pending, stored, faults, raced, doubtful, died>>

(* The next entry, with the counts it has at that moment. *)
NextEntry(b) ==
  /\ flush.pc = "walk"
  /\ b \in Buckets(flush.map) \ flush.walked
  /\ flush' = [pc |-> "increment", map |-> flush.map, all |-> flush.all,
               walked |-> flush.walked \cup {b}, entry |-> {p \in flush.map : Bucket(p) = b}]
  /\ UNCHANGED <<at, recorder, pending, stored, faults, raced, doubtful, died>>

EndWalk ==
  /\ flush.pc = "walk" /\ flush.all \subseteq flush.walked
  /\ EndFlush

WalkOn == flush' = [pc |-> "walk", map |-> flush.map, all |-> flush.all, walked |-> flush.walked]

AddedToRows(entry) == [p \in Pairs |-> IF p \in entry THEN stored[p] + 1 ELSE stored[p]]

(* The UPSERT of usage_stats *)
Increment ==
  /\ flush.pc = "increment"
  /\ stored' = AddedToRows(flush.entry)
  /\ WalkOn
  /\ UNCHANGED <<at, recorder, pending, faults, raced, doubtful, died>>

GivenUp(entry) == pending                          \* mutated form of MergedBack
MergedBack(entry) == pending \cup entry

(* It throws, after or before it was committed: the counts go back to the  *)
(* current map.                                                            *)
IncrementFails(committed) ==
  /\ flush.pc = "increment"
  /\ faults < MaxFaults
  /\ faults' = faults + 1
  /\ stored' = IF committed THEN AddedToRows(flush.entry) ELSE stored
  /\ doubtful' = IF committed THEN doubtful \cup flush.entry ELSE doubtful
  /\ pending' = MergedBack(flush.entry)
  /\ WalkOn
  /\ UNCHANGED <<at, recorder, raced, died>>

FlushPending ==
  SwapMaps \/ EmptyOldMap \/ StartWalk \/ (\E b \in Buckets(flush.map) : NextEntry(b))
    \/ EndWalk \/ Increment

(* What is in memory and nowhere else: not added yet, in the current map,  *)
(* or in the old map where the flush has not been.                         *)
ToMerge == UNION {{<<recorder[t].types[k], recorder[t].request>> : k \in DOMAIN recorder[t].types}
                    : t \in Threads}
Walking == {p \in flush.map : Bucket(p) \notin flush.walked} \cup
           (IF flush.pc = "increment" THEN flush.entry ELSE {})

(* The process dies.  An orderly stop is a flush (flushOnShutdown) and     *)
(* then this, with nothing left in memory if no increment failed.          *)
Crash ==
  /\ faults < MaxFaults
  /\ faults' = faults + 1
  /\ died' = died \cup ToMerge \cup pending \cup Walking
  /\ pending' = {}
  /\ flush' = Resting
  /\ recorder' = [t \in Threads |-> NoRecord]
  /\ UNCHANGED <<at, stored, raced, doubtful>>

Next ==
  \/ \E t \in Threads : (\E s \in Times : Record(t, s)) \/ GetMap(t) \/ Merge(t)
  \/ FlushPending
  \/ \E committed \in BOOLEAN : IncrementFails(committed)
  \/ Crash

Spec == Init /\ [][Next]_vars
(* The scheduler thread and the request threads go on. *)
FairSpec ==
  Spec /\ WF_vars(FlushPending) /\ \A t \in Threads : WF_vars(GetMap(t) \/ Merge(t))

----------------------------------------------------------------------------
(* Every variable keeps its shape, and the flush's maps hold only requests *)
(* that were recorded.                                                     *)
TypeOK ==
  /\ at \in [Requests -> Times \cup {NotYet}]
  /\ \A t \in Threads :
       recorder[t] = NoRecord \/ recorder[t].map \in {"none", "current", "old", "orphan"}
  /\ \A t \in Threads : recorder[t].map = "old" => flush.pc # "resting"
  /\ \A p \in pending \cup flush.map : p \in Pairs /\ at[p[2]] # NotYet
  /\ stored \in [Pairs -> Nat] /\ faults \in Nat

(* How often a pair is in the rows or on its way there.                   *)
Copies(p) ==
  Cardinality({k \in 1..3 : \/ k = 1 /\ p \in ToMerge
                            \/ k = 2 /\ p \in pending
                            \/ k = 3 /\ p \in Walking}) + stored[p]

(* A request is counted once in its hour and once in its day: it is always *)
(* in exactly one of the recording thread, the current map, what the flush *)
(* has still to add, and the rows.  The exceptions are the three the code  *)
(* has: a thread that added to a map the flush had already swapped out may *)
(* be overlooked, what is in memory dies with the process, and an          *)
(* increment that was committed and seemed to fail is added again; only    *)
(* the last of them ever counts a request twice.                           *)
(* (UsageStatsRecorder 49-104, UsageStatsRepositoryAdapter 53-65.)         *)
CountedOnce ==
  \A p \in Pairs \ doubtful : at[p[2]] # NotYet =>
    Copies(p) <= 1 /\ (p \in raced \cup died \/ Copies(p) = 1)

(* Every request that is recorded reaches its rows, unless one of the      *)
(* three exceptions strikes it first.  (UsageStatsRecorder 75-99.)         *)
StoredInTheEnd ==
  \A p \in Pairs :
    at[p[2]] # NotYet ~> stored[p] > 0 \/ p \in raced \cup died
=============================================================================
