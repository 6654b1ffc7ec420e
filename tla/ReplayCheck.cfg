SPECIFICATION Spec
CONSTANTS
  t1 = t1  t2 = t2  p1 = p1  p2 = p2  p3 = p3
  Skew = 1  RotateRate = 5  MaxDelay = 1
  DurLimit = 16  MaxClock = 12
  Bits = {1, 2, 3}
  Threads <- TwoThreads
  Payloads <- ThreePayloads
  Ts <- TsThree
  Idx <- IdxColliding
SYMMETRY Interchangeable
INVARIANTS TypeOK AtMostOnce NoFalseReject SkewEnforced Memory
CHECK_DEADLOCK FALSE
