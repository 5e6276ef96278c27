SPECIFICATION Spec
CONSTANTS
  Clients = {c1, c2}
  Limit = 1
  Typed <- EchoOnly
  c1 = c1
  c2 = c2
  MaxTyped = 1
  MaxFound = 1
  Misread = {}
  FaultKinds = {}
  MaxFaults = 0
INVARIANTS NoMisuse
CHECK_DEADLOCK FALSE
