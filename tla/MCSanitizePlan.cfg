CONSTANTS
  Names = {1, 2, 3}
  MaxPlan = 3
  Caps = {1, 2, 3}
SPECIFICATION Writing
INVARIANTS Sanitised
CHECK_DEADLOCK FALSE
