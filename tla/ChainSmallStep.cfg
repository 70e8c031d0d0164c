SPECIFICATION FairSpec
CONSTANTS
  N = 3
  K = 2
  r1 = r1
  r2 = r2
  Reading <- OneReading
  NoReading = NoReading
  FaultKinds <- NoFaults
  MaxFaults = 0
CHECK_DEADLOCK FALSE
PROPERTIES SummaryForEveryStep
