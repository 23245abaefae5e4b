CONSTANTS
  N = 4
  Targets <- OrderedTargets
SPECIFICATION Spec
INVARIANTS ParentsAbove TreesExact QueriesExact FrontierReconverges
PROPERTY Terminates
CHECK_DEADLOCK FALSE
