SPECIFICATION FairAloneSpec
CONSTANTS
  Handlers = {h1, h2}
  TCHAR <- MCTCHAR
  Names <- MCNames
  Passwords <- MCPasswords
  InitialFile <- EmptyFile
  FaultKinds = {"malloc", "seek", "restart"}
  MaxCommands = 3
  MaxFaults = 2
INVARIANTS Durable
PROPERTIES
  EveryCommandEnds
  ImplementsAccountStore
CHECK_DEADLOCK FALSE
