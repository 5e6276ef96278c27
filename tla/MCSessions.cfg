SPECIFICATION FairSpec
CONSTANTS
  c1 = c1
  c2 = c2
  Clients <- MCClients
  Users = {"ana", "bob"}
  Commands = {"login", "logout", "list", "msg", "broadcast", "history", "historyBelow"}
  Patient = TRUE
  MaxTyped <- MCMaxTyped
INVARIANTS
  TypeOK
  SessionsAgreeUnless
  SessionsLiveUnless
PROPERTIES EveryCommandAnswered
