SPECIFICATION Spec
CONSTANTS
  AltPorts = {}
  Refs = {}
INVARIANT NoQUICWhenUDPDead
CHECK_DEADLOCK FALSE
