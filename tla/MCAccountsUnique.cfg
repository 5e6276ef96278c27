SPECIFICATION Spec
CONSTANTS
  Handlers = {h1, h2}
  TCHAR <- MCTCHAR
  Names <- MCNames
  Passwords <- MCPasswords
  InitialFile <- EmptyFile
  FaultKinds = {}
  MaxCommands = 3
  MaxFaults = 0
INVARIANTS UniqueAccounts
