SPECIFICATION FairSpec
CONSTANTS
  Cap = 1
  MaxFwd = 0
  MaxBack = 0
PROPERTY IdleRelaysClose
CHECK_DEADLOCK FALSE
