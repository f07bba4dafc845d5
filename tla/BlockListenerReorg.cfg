SPECIFICATION FairSpec
CONSTANTS
  Blocks <- MCBlocks
  Genesis = 0
  Chain <- MCChain
  Height <- MCHeight
  NumEvents <- MCNumEvents
  Faults = {}
  MaxHeads = 4
CHECK_DEADLOCK FALSE
PROPERTY ChainIsQueued
