SPECIFICATION FairSpec
CONSTANTS
  N = 2
  K = 2
  r1 = r1
  r2 = r2
  Reading <- OneReading
  NoReading = NoReading
  FaultKinds <- OnlyCommand
  MaxFaults = 1
CHECK_DEADLOCK FALSE
PROPERTIES CommandFailureIsGraceful
