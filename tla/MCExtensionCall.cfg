SPECIFICATION Spec
CONSTANTS
  MaxCalls = 3
  HasClient = TRUE
INVARIANTS
  OnlyOwnInterrupts
PROPERTY
  CallsReturn
CHECK_DEADLOCK FALSE
