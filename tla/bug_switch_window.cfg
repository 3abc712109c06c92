SPECIFICATION Spec
CONSTANTS
  MaxTid = 3
  Tid <- MCTid
  NumQueues = 2
  BoostPeriod = 2
  None = None
  SpawnPriorities = {0}
  Kinds = {"fork"}
  Spawners = {1}
  Waiters = {1}
  Yielders = {}
  Targets <- MCTargets
  TimerPoints <- AllPoints
INVARIANT ContextSavedToOwner
CHECK_DEADLOCK FALSE
