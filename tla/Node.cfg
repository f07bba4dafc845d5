SPECIFICATION NodeSpec
CONSTANTS
  Alice = alice
  Bob = bob
  Charlie = charlie
  Refused = Refused
  None = None
  Chains = {"dev", "local"}
  Nodes = {alice, bob}
  ForceAuthoring = FALSE
  EnableGrandpa = TRUE
  RevertBlocks = 1
  MaxSlot = 2
  MaxRound = 2
  MaxStops = 1
CHECK_DEADLOCK FALSE
INVARIANTS
  NodeTypeOK
  FinalityAgrees
  DatabaseFits
  OneBlockPerSlot
PROPERTIES
  FailedTaskTakesNodeDown
