SPECIFICATION Spec
CONSTANTS
  c1 = c1
  c2 = c2
  Closers <- TwoClosers
  Setups <- LaunchSetups
  ChunkSize = 3
  None = None
INVARIANTS
  TypeOK
  NothingLeaks
  BrowserOwnsProfile
  ConfigArrives
PROPERTY LaunchAndCloseReturn
CHECK_DEADLOCK FALSE
