SPECIFICATION Spec
CONSTANTS
  Users <- MCUsers
  Deltas <- MCDeltas
  MaxScore = 2
  MaxOffset = 3
  MaxLimit = 3
  MaxMoves = 2
  MaxLosses = 1
INVARIANTS QuietAnswersAreExact OffByTheEventsAtMost LowerRanksAreExact
