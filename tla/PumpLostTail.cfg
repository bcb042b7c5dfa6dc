SPECIFICATION Spec
CONSTANTS
  MaxWrites = 2
  Units = 1
INVARIANTS EofIsWhole
CHECK_DEADLOCK FALSE
