SPECIFICATION FairSpec
CONSTANTS
  t1 = t1  t2 = t2
  Threads <- MCThreads
  Times <- MCTimes
  NotYet = NotYet
  MaxRequests = 2
  SecondsPerHour = 1
  SecondsPerDay = 2
  MaxFaults = 1
INVARIANTS TypeOK CountedOnce
PROPERTY StoredInTheEnd
