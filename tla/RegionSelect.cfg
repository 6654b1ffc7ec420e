SPECIFICATION Spec
CONSTANTS
  AltPorts = {"8443"}
  Refs = {}
INVARIANT ChainRespectsNetwork
PROPERTY AlwaysDecides
CHECK_DEADLOCK FALSE
