SPECIFICATION FairSpec
CONSTANTS
  Cap = 1
  MaxFwd = 2
  MaxBack = 2
INVARIANTS TypeOK StreamIntegrity ClosedForCause
PROPERTIES Delivered HeaderBounded TunnelLossReleases
CHECK_DEADLOCK FALSE
