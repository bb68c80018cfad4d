CONSTANTS
  Items <- MCOneItem
  Cap = 1
  MaxAttempts = 2
  Predecessors <- MCFree
  InScope = {1, 2}
  RefusesClosed = TRUE
  BootsCleanly = TRUE
  FlakyDocker = FALSE
  AgentLeavesBranch = FALSE
  ExitOutcomes <- MCProtocolOutcomes
  HumanEdges <- MCCloses
  MaxMoves = 0
  MaxCrashes = 0
SPECIFICATION Spec
INVARIANTS
  NextBranchIsFree
