\* One increment, two attempts, one status command of the agent in each history, one update by a tick.
CONSTANTS
  Processes <- StatusProcesses
  Calls     <- StatusCalls
  Loads     <- MCLoads
  Blind     <- Initialisations
  Skips     <- MCSkips
  Versions  <- StatusVersions
  Effect    <- StatusEffect
  TempOf    <- StatusTempOf
  Temps     = {"status.json.tmp"}
  Refused = Refused
  NoCall = NoCall
  NoAnswer = NoAnswer
  NoOne = NoOne
  NoTemp = NoTemp
  Torn = Torn
  Absent = Absent
  MaxAttempts = 2
  MaxClock = 1
  MaxCommands = 1
  MaxUpdates = 1

SPECIFICATION FairStatusSpec

INVARIANTS
  StatusTypeOK
  LockInv
  ParkedStateIffParked
  WhoExitsIsParked

PROPERTIES
  ImplementsAtomicFile
  HeartbeatNeverGoesBack
  BackstopKeepsThePark
  EveryCallReturns

CHECK_DEADLOCK FALSE
