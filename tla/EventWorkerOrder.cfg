SPECIFICATION Spec
CONSTANTS
  alice = alice
  bob = bob
  null = null
  name1 = name1
  name2 = name2
  blank = blank
  text = text
  bytes1 = bytes1
  alike1 = alike1
  bytes2 = bytes2
  bytes3 = bytes3
  nul = nul
  Accounts <- MCAccounts
  Columns <- MCColumns
  Values <- MCValues
  Default <- MCDefault
  Falsy = {null, blank}
  Undef = Undef
  None = None
  Worker = Worker
  Empty = Empty
  Bytes <- MCBytes
  Text <- MCText
  Keep = Keep
  Block = Block
  Events <- MCEvents
  MaxAttempts = 3
  Faults = {"database"}
  MaxFaults = 1
  MaxJobs = 2
CHECK_DEADLOCK FALSE
INVARIANT DoneMeansSynced
