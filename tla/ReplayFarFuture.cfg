SPECIFICATION Spec
CONSTANTS
  t1 = t1  t2 = t2  p1 = p1  p2 = p2  p3 = p3
  Skew = 1  RotateRate = 5  MaxDelay = 1
  DurLimit = 16  MaxClock = 12
  Bits = {1, 2}
  Threads <- TwoThreads
  Payloads <- TwoPayloads
  Ts <- TsFar
  Idx <- IdxTwo
INVARIANTS SkewEnforced
CHECK_DEADLOCK FALSE
