SPECIFICATION Spec
CONSTANTS
  k1 = k1  t1 = t1  t2 = t2  u1 = u1
  Users <- MCUsers
  Keys <- MCKeys
  Deltas <- MCDeltas
  Threads <- MCThreads
  NoRecord = NoRecord
  MaxCalls = 3
  MaxClock = 2
  MaxExpiries = 1
  MaxRestarts = 1
SYMMETRY Symmetry
INVARIANTS TypeOK ScoreIsSumOfStream AppliedOncePerLife AnswersAgree ConflictEntriesAreReal
CHECK_DEADLOCK FALSE
