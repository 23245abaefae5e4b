SPECIFICATION CaptureSpec
CONSTANTS
  ValueBits = 2
  WidthBits = 2
  Program <- MCProgram
  Compute <- MCCompute
  Inputs = {0, 1, 3}
  Filters <- MCFilters
  NoValue = NoValue
  Lanes = 4
  Masks <- MCMasks
  WarpSizes = {0, 3, 4}
  MaxPasses = 2
INVARIANTS HistoryExact CutFileNeverLies TapsWellPlaced
CHECK_DEADLOCK FALSE
