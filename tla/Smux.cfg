SPECIFICATION FairSpec
CONSTANTS
  None = None
  Dials = {d1, d2}
  Closes = {x1}
  MaxConns = 2
  OutCap = 1
INVARIANTS TypeOK BoundToSession NoStrayConnection NoCollateral
PROPERTIES ImplementsFanIn CallsReturn StreamHandled
CHECK_DEADLOCK FALSE
