SPECIFICATION Spec
CONSTANTS
  i1 = i1  i2 = i2
  Instances <- MCInstances
  PoolSize = 2
  Users <- MCUsers
  Registered <- MCRegistered
  TopN = 2
  MaxAttempts = 2
  StartScores = {0, 1}
  MaxPoints = 1
  MaxClock = 2
  MaxFaults = 0
  FaultKinds <- NoFaults
INVARIANTS LockReturned
