SPECIFICATION FairSpec
CONSTANTS
  RecLen = 3
  MaxUp = 5
  MaxDown = 2
INVARIANTS TypeOK InOrder MagicBypassesDecoy AnswerPassedOn
PROPERTIES FrontDecides RelayReleases
CHECK_DEADLOCK FALSE
