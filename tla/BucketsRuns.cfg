SPECIFICATION Spec
CONSTANTS
  Streams <- AllStreams
  Modulus = 2
  MaxBucket = 2
  MaxFailures = 2
  MaxCount <- Counts
  Starts <- JustOne
  Failing <- MayFail
  ClockSteps = TRUE
INVARIANTS TypeOK NicRowsExact PerfRowsExact RowsInventNothing
CONSTRAINT OneStreamMoves
