SPECIFICATION Spec
CONSTANTS
  Depth = 4
  Loops <- TrainLoops
INVARIANTS
  ReadyMeansCopied
  LagBounded
CHECK_DEADLOCK FALSE
