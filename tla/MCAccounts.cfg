SPECIFICATION Spec
CONSTANTS
  Handlers = {h1, h2, h3}
  TCHAR <- MCTCHAR
  Names <- MCNames
  Passwords <- ThreePasswords
  InitialFile <- OneAccount
  FaultKinds = {"malloc", "seek", "write", "restart"}
  MaxCommands = 3
  MaxFaults = 1
SYMMETRY HandlerSymmetry
INVARIANTS
  TypeOK
  LostOnlyByFailures
  UndisturbedScanIsExact
  VerdictFromOneRecord
CHECK_DEADLOCK FALSE
