SPECIFICATION FairSpec
CONSTANTS
  p1 = p1  p2 = p2
  Procs <- MCProcs
  BatchSize = 2
  MaxLen = 9
  Overlap = FALSE
  MaxEntries = 3
  MaxFaults = 2
  FaultKinds <- AllFaults
INVARIANTS TypeOK Inv NoEventLost NoRacedCut OvertakenOnlyByFaults
PROPERTIES AckOnlyPublished EveryEventPublished
