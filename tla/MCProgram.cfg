SPECIFICATION Spec
CONSTANTS
  Instances = {a, b}
  a = a
  b = b
  Budgets <- Faults
SYMMETRY Alike
INVARIANTS EndsClean MemoryIsOwn
CHECK_DEADLOCK FALSE
