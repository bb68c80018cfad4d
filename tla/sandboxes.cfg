CONSTANTS
  Items <- MCTwoItems
  Cap = 2
  MaxAttempts = 2
  Predecessors <- MCSecondBehindFirst
  InScope = {1, 2}
  RefusesClosed = TRUE
  BootsCleanly = TRUE
  FlakyDocker = FALSE
  AgentLeavesBranch = FALSE
  ExitOutcomes <- MCPullRequests
  HumanEdges <- MCCloses
  MaxMoves = 1
  MaxCrashes = 0
SPECIFICATION Spec
INVARIANTS
  RunningMeansClaimed
  EscalatedIsReleased
  PredecessorsDelivered
