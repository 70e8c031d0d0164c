SPECIFICATION Spec
CHECK_DEADLOCK FALSE
CONSTANTS
  None = None
  Hosts = 2
  Nic <- OneNic
  Micros <- TwoLatencies
  Selections <- Lengths
  MaxBucket = 1
  MaxLines = 2
INVARIANTS PrintersAgree LatenciesConserved RepeatsRise
