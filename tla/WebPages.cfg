SPECIFICATION PagesSpec
CONSTANTS
  Accounts = {alice, bob}
  First = alice
  None = None
  Unread = Unread
  Faults = {"connect", "wallet", "query", "tx"}
  Ordered = TRUE
  MaxTxs = 2
  MaxPending = 2
CHECK_DEADLOCK FALSE
INVARIANTS
  PagesTypeOK
  IncludedHasTimer
PROPERTIES
  BalanceSettles
  OwnProfileIsShown
  CreatedUsersAreListed
  SubmissionsEnd
