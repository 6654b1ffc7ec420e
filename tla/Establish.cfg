SPECIFICATION FairSpec
CONSTANTS
  TokenLen = 2
  V4Len = 1
  V6Len = 2
  MappedPrefix <- MCMappedPrefix
  Letters <- MCLetters
  Installs <- MCInstalls
  Dests <- MCDests
  Spelled <- MCSpelled
  Payload <- MCPayload
  CopyBuf = 2
INVARIANTS StreamClean DestinationAgrees VerdictRight
PROPERTIES ImplementsByteStream Settles
CHECK_DEADLOCK FALSE
