SPECIFICATION FairSpec
CONSTANTS
  Blocks <- MCBlocks
  Genesis = 0
  Chain <- MCChain
  Height <- MCHeight
  NumEvents <- MCNumEvents
  Faults = {"socket", "crash", "stop", "request"}
  MaxHeads = 4
CHECK_DEADLOCK FALSE
INVARIANTS
  TypeOK
  JobsAreAPrefix
PROPERTY HandlersEnd
