SPECIFICATION Spec
CONSTANTS
  c1 = c1
  c2 = c2
  near = near
  far = far
  Ctx <- TwoCtx
  Lane <- BothLanes
  FarLane <- FarOnly
  OpSlots = 1
  StepSlots = 1
  OpenOps = 2
  OpenSteps = 2
  MaxSteps = 2
  MaxSize = 1
  Duration <- OneDuration
SYMMETRY CtxSymmetry
INVARIANTS TypeOK SlotsAccounted CountersAddUp
PROPERTIES DroppedOnlyWhenFull
