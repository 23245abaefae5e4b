SPECIFICATION Spec
CONSTANTS
  Capacity = 10
  Alignment = 2
  Tensors = {t1, t2, t3, t4}
  MaxBytes = 4
INVARIANTS
  LiveDisjoint
  FreeListSound
