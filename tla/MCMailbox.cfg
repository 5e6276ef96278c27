SPECIFICATION FairSpec
CONSTANTS
  Senders = {s1, s2}
  FaultKinds = {"restart", "read", "write", "silent"}
  MaxSent = 2
  MaxLogins = 2
  MaxStops = 1
INVARIANTS
  TypeOK
  OpenNeverSpins
  KeptUnless
  PrintedOnce
PROPERTIES
  DiesOnlyWhenLate
  HandlersEnd
CHECK_DEADLOCK FALSE
