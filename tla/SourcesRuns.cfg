SPECIFICATION Spec
CONSTANTS
  t1 = t1
  t2 = t2
  t3 = t3
  p1 = p1
  p2 = p2
  None = None
  Task <- Tasks
  Follower <- Followers
  Pid <- Pids
  MaxSteps = 1
  FaultKinds <- AllFaults
  MaxFaults = 2
CHECK_DEADLOCK FALSE
INVARIANTS TypeOK OwnStepsOnly CommandFindsSegment NamesAccounted
