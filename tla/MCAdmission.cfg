SPECIFICATION Spec
CONSTANTS
  t1 = t1  t2 = t2
  Threads <- MCThreads
  NotYet = NotYet
  RateLimit = 2
  DailyQuota = 3
  SecondsPerHour = 1
  SecondsPerDay = 2
  KeyExpiresAt = 3
  MaxRequests = 4
  MaxClock = 3
SYMMETRY Symmetry
INVARIANTS TypeOK LimitsHeld RefusalsAreDeserved AllowedWithinQuota
CHECK_DEADLOCK FALSE
