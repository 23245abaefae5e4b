CONSTANTS
  Capacity = 565
  Alignment = 4
  Shapes <- OneAndTwo
  MaxPasses = 1
SPECIFICATION Spec
INVARIANTS LiveDisjoint TemporariesReturned OwnedReadsIntact
CHECK_DEADLOCK FALSE
