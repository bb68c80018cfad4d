CONSTANTS
  Planners = {"planner"}
  Requests <- MCRequests
  Scope = {"P", "Q"}
  Drags = {"queued", "done"}
  Workflow = TRUE
  MaxIssues = 2
  MaxMoves = 1
  MaxCrashes = 1
SPECIFICATION Spec
INVARIANTS
  TypeOK
  OneItemPerOrigin
  CommittedIsOneRequest
  ClaimedBehindItsPredecessors
  EveryIncrementHasABucket
PROPERTIES
  ImplementsAtomicQueue
  ReturnedIsWhatWasAsked
  VerdictOutlivesNewItems
  PartialItemsGetFinished
