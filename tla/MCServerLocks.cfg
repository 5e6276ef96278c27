SPECIFICATION FairSpec
CONSTANTS
  ann = ann
  bob = bob
  annbob = annbob
  Users = {ann, bob, annbob}
  Name <- MCName
  LoggedIn = {ann, bob}
  Commands <- MCCommands
  Gone = gone
  FaultKinds = {"malloc", "seek", "deaf"}
  MaxCommands = 1
  MaxFaults = 1
INVARIANTS
  TypeOK
  SpinsOnlyOnClash
  DeadlockNeedsThree
PROPERTIES CommandsEndUnlessHeldUp
CHECK_DEADLOCK FALSE
