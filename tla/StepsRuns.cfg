SPECIFICATION FairSpec
CHECK_DEADLOCK FALSE
CONSTANTS
  Count = 2
  N = 3
  MaxFaults = 1
INVARIANTS ReportsWhole StepsApart
PROPERTIES StepsReport
