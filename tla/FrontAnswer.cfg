SPECIFICATION Spec
CONSTANTS
  RecLen = 3
  MaxUp = 5
  MaxDown = 2
INVARIANT AnswerComplete
CHECK_DEADLOCK FALSE
