SPECIFICATION FairSpec
CONSTANTS
  Own = own
  Senders = {own, other}
  Lengths = {0, 1, 3}
  Segment = 2
  MaxTexts = 3
INVARIANTS
  TypeOK
  PrintedAsSent
  EndsOnlyOnEmpty
PROPERTIES EveryTextPrinted
CHECK_DEADLOCK FALSE
