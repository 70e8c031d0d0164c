SPECIFICATION Spec
CHECK_DEADLOCK FALSE
CONSTANTS
  AllNames <- Full
  DefaultNames <- Defaults
  TimeoutNames <- OneTimeout
  Unset = Unset
  Texts <- LevelTexts
  Lists <- NameLists
  Formats <- SomeFormats
  Modulus = 3
  Hosts = 3
  NicOrder <- TwoNics
  Starts <- FullAndFresh
  Missing <- OneFile
  Perf <- SomePerf
  Channels <- SomeChannels
  Copies <- RatioOfPackets
  PerfEvents <- Events
  NotCounted = NotCounted
  MaxEvents = 2
  Lines <- SomeLatencies
  MaxSamples = 1
  MaxFailures = 1
  Levels <- InUse
INVARIANTS TypeOK RowsArriveIntact SummaryExact TimeoutsNamed SeriesExact
