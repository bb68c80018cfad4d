CONSTANTS
  Items <- MCOneItem
  Cap = 1
  MaxAttempts = 1
  Predecessors <- MCFree
  InScope = {1, 2}
  RefusesClosed = TRUE
  BootsCleanly = TRUE
  FlakyDocker = FALSE
  AgentLeavesBranch = FALSE
  ExitOutcomes <- MCProtocolOutcomes
  HumanEdges <- MCCloses
  MaxMoves = 1
  MaxCrashes = 0
SPECIFICATION FairSpec
PROPERTIES
  MergedIsFinalized
