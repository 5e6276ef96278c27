SPECIFICATION FairSpec
CONSTANTS
  Clients = {c1, c2}
  Limit = 1
  Typed <- DealtOut
  c1 = c1
  c2 = c2
  MaxTyped = 1
  MaxFound = 1
  Misread = {"other"}
  FaultKinds = {"kill", "thread", "memory"}
  MaxFaults = 1
INVARIANTS
  TypeOK
  LimitRespected
  CounterExact
  MisuseBorrowedOrAfterFailure
  CommandsInStep
PROPERTIES
  EveryClientAnswered
  ExitCompletes
  PlaceComesBack
CHECK_DEADLOCK FALSE
