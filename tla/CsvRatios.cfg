SPECIFICATION Spec
CHECK_DEADLOCK FALSE
CONSTANTS
  None = None
  Hosts = 2
  Nic <- OneNic
  Micros <- TwoLatencies
  Selections <- OnlyDefault
  MaxBucket = 1
  MaxLines = 1
INVARIANTS RatiosOfNamedCounters
