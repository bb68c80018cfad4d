CONSTANTS
  Items <- MCOneItem
  Cap = 1
  MaxAttempts = 2
  Predecessors <- MCFree
  InScope = {1, 2}
  RefusesClosed = TRUE
  BootsCleanly = FALSE
  FlakyDocker = TRUE
  AgentLeavesBranch = TRUE
  ExitOutcomes <- MCAllOutcomes
  HumanEdges <- MCHumanEdges
  MaxMoves = 1
  MaxCrashes = 1
SPECIFICATION Spec
INVARIANTS
  TypeOK
  AttemptsWithinCap
PROPERTIES
  AttemptsOnlyGrow
  BranchesOutliveTheirPR
