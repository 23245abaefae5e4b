SPECIFICATION Spec
CONSTANTS
  Models <- MCModels
  MaxSteps = 3
  Interval = 2
  GradAccum = 1
  Warmup = 2
  MaxLaunches = 3
  NoFile = NoFile
  Truncated = Truncated
  Torn = Torn
INVARIANTS HeaderMatchesTensors OnlyWarmUpIsSkipped LoadFailsForCause
PROPERTIES ImplementsAtomicSave
CHECK_DEADLOCK FALSE
