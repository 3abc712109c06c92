SPECIFICATION Spec
CONSTANTS
  MaxTid = 4
  Tid <- MCTid
  NumQueues = 2
  BoostPeriod = 2
  None = None
  SpawnPriorities = {0}
  Kinds = {"load", "fork"}
  Spawners = {1, 3}
  Waiters = {3, 4}
  Yielders = {}
  Targets <- MCTargets
  TimerPoints <- CalmPoints
INVARIANT SyscallOnOwnStack
CHECK_DEADLOCK FALSE
