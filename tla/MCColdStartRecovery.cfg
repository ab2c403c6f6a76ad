SPECIFICATION Spec
CONSTANTS
  i1 = i1  i2 = i2
  Instances <- MCInstances
  Users <- MCUsers
  TopN = 2
  RecoverN = 1
  Boards <- MCBoards
  MaxEvents = 1
  MaxSnapshots = 2
  MaxLosses = 1
  MaxFaults = 1
SYMMETRY Symmetric
INVARIANTS TypeOK NoInflation UndisturbedRecoveryIsExact UpMeansRanked
CHECK_DEADLOCK FALSE
