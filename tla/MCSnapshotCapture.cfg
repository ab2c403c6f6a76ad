SPECIFICATION FairSpec
CONSTANTS
  i1 = i1  i2 = i2
  Instances <- MCInstances
  PoolSize = 1
  Users <- MCUsers
  Registered <- MCUsers
  TopN = 2
  MaxAttempts = 2
  StartScores = {0, 1}
  MaxPoints = 1
  MaxClock = 2
  MaxFaults = 1
  FaultKinds <- AllFaults
INVARIANTS TypeOK BatchIsARanking NotOlderThanItsTime TrackerIsTruthful OneCaptureAtATime
PROPERTIES SnapshotTaken
