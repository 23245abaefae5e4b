SPECIFICATION Spec
CONSTANTS
  Ranks = {1, 2}
  Sizes <- TwoSizes
  Layers <- TwoLayers
  BucketBytes = 2
  Accum = 1
  MaxSteps = 2
  QueueDepth = 12
INVARIANTS
  StepUsesMean
CHECK_DEADLOCK FALSE
