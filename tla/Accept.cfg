SPECIFICATION FairSpec
CONSTANTS
  s1 = s1  s2 = s2  s3 = s3  c1 = c1
  N = 2
  OutCap = 1  CompCap = 1
  NoStream = NoStream  ErrClosed = ErrClosed
  Streams <- ThreeStreams
  Home <- HomeOfThree
  Closers <- OneCloser
  OnceClose = {2}
  Faulty = {1}
  Multi = {1}
INVARIANTS TypeOK SingleOwner NoDoubleClose StopsOnlyOnShutdown
PROPERTIES ImplementsFanIn AcceptedPromptly HandedOver ShutdownCompletes
CHECK_DEADLOCK FALSE
