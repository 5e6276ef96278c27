SPECIFICATION Spec
CONSTANTS
  Senders = {s1, s2}
  FaultKinds = {}
  MaxSent = 3
  MaxLogins = 2
  MaxStops = 0
INVARIANTS NoLostMessage
CHECK_DEADLOCK FALSE
