CONSTANTS
  Items <- MCOneItem
  Cap = 1
  MaxAttempts = 2
  Predecessors <- MCFree
  InScope = {1, 2}
  RefusesClosed = TRUE
  BootsCleanly = TRUE
  FlakyDocker = FALSE
  AgentLeavesBranch = FALSE
  ExitOutcomes <- MCAllOutcomes
  HumanEdges <- MCCloses
  MaxMoves = 1
  MaxCrashes = 0
SPECIFICATION Spec
PROPERTIES
  FailedRunIsNotHandedOff
