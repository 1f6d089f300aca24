SPECIFICATION Spec
CONSTANTS
  Names = {1, 2}
  MaxTuners = 3
  Failures = {"adapter"}
INVARIANTS NoOops
CHECK_DEADLOCK FALSE
