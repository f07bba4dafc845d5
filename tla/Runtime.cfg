SPECIFICATION RuntimeSpec
CONSTANTS
  Alice = alice
  Bob = bob
  Charlie = charlie
  Accounts = {bob, charlie}
  Refused = Refused
  None = None
  MaxU32 = 1
  MaxU64 = 1
  MaxLog = 3
  MaxEvents = 3
  Chain = "dev"
  Endowment = 40
  ExistentialDeposit = 2
  SlotDuration = 4
  BlockHashCount = 3
  MinEraPeriod = 3
  MaxBlockWeight = 14
  Calls <- MCCalls
  MaxTxs = 3
  MaxBlocks = 3
  Clocks = {7, 8, 12}
CHECK_DEADLOCK FALSE
INVARIANTS
  RuntimeTypeOK
  EventsAccountForCounter
  IncludedOnce
  StateFollowsChain
  SignedForThisChain
  InherentsFit
PROPERTIES
  StepsAreTold
