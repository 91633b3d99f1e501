SPECIFICATION FairSpec
CONSTANTS
  Ops = {"p1", "p2", "p3"}
  Kinds <- MCKinds
  Accounts = {"ann", "bob"}
  Logins <- MCLogins
  None = None
  Unread = Unread
  Starts = {"ann"}
  MaxTokens = 3
  MaxTroubles = 1
INVARIANTS
  SessionTypeOK
  OneExchange
  DeviceOfAccount
  DiskFollows
  SignedOutForGood
PROPERTIES
  AccountHolds
  NothingAfterSignOut
  OperationsEnd
CHECK_DEADLOCK FALSE
