SPECIFICATION Spec
CONSTANTS
  RecLen = 3
  MaxUp = 5
  MaxDown = 2
INVARIANT Transparent
CHECK_DEADLOCK FALSE
