SPECIFICATION Spec
CONSTANTS
  Length = 4
  Boundaries = {0, 1, 3, 4}
  Sizes = {0, 2}
  MaxCalls = 3
INVARIANTS
  BatchRefusedExactly
  UntouchedSourceKept
  CallOrderKept
CHECK_DEADLOCK FALSE
