SPECIFICATION PipelineFairSpec
CONSTANTS
  p1 = p1  p2 = p2  c1 = c1  c2 = c2
  Part = Part  None = None
  Procs <- MCProcs
  Consumers <- MCConsumers
  BatchSize = 1
  MaxLen = 1
  Overlap = FALSE
  MaxEntries = 2
  MaxPoll = 2
  MaxTopic = 6
  MaxFaults = 1
  FaultKinds <- AllFaults
INVARIANTS NoEventLostEndToEnd
PROPERTIES EveryEventStored
CHECK_DEADLOCK FALSE
