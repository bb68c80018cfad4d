CONSTANTS
  Items <- MCTwoItems
  Cap = 1
  MaxAttempts = 1
  Predecessors <- MCFree
  InScope = {1, 2}
  RefusesClosed = FALSE
  BootsCleanly = TRUE
  FlakyDocker = FALSE
  AgentLeavesBranch = FALSE
  ExitOutcomes <- MCPullRequests
  HumanEdges <- MCCloses
  MaxMoves = 1
  MaxCrashes = 1
SPECIFICATION Spec
INVARIANTS
  InFlightWithinCap
