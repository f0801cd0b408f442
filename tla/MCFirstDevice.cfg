CONSTANTS
  Files = {f1, f2}
  BUFFER_SIZE = 3
  Offsets = {2, 4}
  MaxClears = 2
  NULL = NULL
SYMMETRY Symmetry
SPECIFICATION Spec
INVARIANTS NothingUnset ClearedStaysCleared
CHECK_DEADLOCK FALSE
