SPECIFICATION FairSpec
CHECK_DEADLOCK FALSE
CONSTANTS
  N = 3
  K = 3
  r1 = r1
  r2 = r2
  Reading <- Readings
  NoReading = NoReading
  FaultKinds <- AnyFault
  MaxFaults = 3
INVARIANTS TypeOK ReportComplete OneReportOfTheRun OneCopyUnderWay ExitOnlyWhenTaken IInv
PROPERTIES ImplementsGather FailureStrandsOnlyBelow EveryTaskReturns
