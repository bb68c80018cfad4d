\* Ten small worlds, each explored on its own: one of them is picked in the first state.
CONSTANTS
  t1 = t1
  t2 = t2
  p1 = p1
  p2 = p2
  NoItem = NoItem
  NoOrigin = NoOrigin
  Nobody = Nobody
  FleetNames = {"alpha", "beta", "squadra"}
  Origin = "own/repo"
  Ids <- MCIds
  Ticks <- MCTicks
  Creators <- MCCreators
  Requests <- MCRequests
  Worlds <- MCWorlds

SPECIFICATION Spec

INVARIANTS
  EntryTypeOK
  ActingTickOwnsTheRoot
  TagsAreAsWritten
  LaunchedIsActive
  QueuedIsComplete
  FaultFiresOnce
  OneItemPerCreator

PROPERTIES
  GatherSeesTheBoard
  OthersTagsSurvive

CHECK_DEADLOCK FALSE
