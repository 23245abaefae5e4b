SPECIFICATION Spec
CONSTANTS
  Ranks = {1, 2}
  Sizes <- TwoSizes
  Layers <- TwoLayers
  BucketBytes = 2
  Accum = 2
  MaxSteps = 2
  QueueDepth = 2
INVARIANTS
  GatherComplete
  FirstStepUsesMean
PROPERTY TrainingEnds
CHECK_DEADLOCK FALSE
