SPECIFICATION Spec
CONSTANTS
  t1 = t1  t2 = t2  e1 = e1  e2 = e2  c1 = c1  c2 = c2
  None = None
  Parts <- MCParts
  Events <- MCEvents
  PartOf <- MCPartOf
  Consumers <- MCConsumers
  MaxPoll = 2
  MaxLog = 2
  MaxFaults = 2
  FaultKinds <- AllFaults
INVARIANTS PermanentErrorStops
CHECK_DEADLOCK FALSE
