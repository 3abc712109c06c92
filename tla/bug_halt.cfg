SPECIFICATION Spec
CONSTANTS
  MaxTid = 3
  Tid <- MCTid
  NumQueues = 2
  BoostPeriod = 2
  None = None
  SpawnPriorities = {0}
  Kinds = {"load"}
  Spawners = {1}
  Waiters = {1}
  Yielders = {}
  Targets <- MCTargets
  TimerPoints <- CalmPoints
INVARIANT HaltIsInterruptible
CHECK_DEADLOCK FALSE
