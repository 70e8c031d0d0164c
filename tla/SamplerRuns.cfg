SPECIFICATION FairSpec
CONSTANTS
  MaxLines = 2
  PipeCapacity = 1
  MaxCount = 3
  MaxSamples = 3
  FaultKinds <- AllFaults
INVARIANTS TypeOK SamplesNotShared ReadingsSpanCommand EveryLineCaptured
PROPERTIES HandlerEnds
