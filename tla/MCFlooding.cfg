SPECIFICATION FairSpec
CONSTANTS
  Node = {1, 2, 3, 4}
  Neighbors <- MCNeighbors
  MaxSeq <- MCMaxSeq
  MaxLoss = 1
  MaxChange = 1
INVARIANTS AtMostOnce FloodsDieOut NobodyForgotten NoSkip
PROPERTIES EveryoneHears
CHECK_DEADLOCK FALSE
