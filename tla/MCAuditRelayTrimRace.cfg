SPECIFICATION Spec
CONSTANTS
  p1 = p1  p2 = p2
  Procs <- MCProcs
  BatchSize = 2
  MaxLen = 9
  Overlap = TRUE
  MaxEntries = 3
  MaxFaults = 1
  FaultKinds <- AllFaults
PROPERTIES CutOnlyPublished
