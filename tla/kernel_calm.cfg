SPECIFICATION FairSpec
CONSTANTS
  MaxTid = 3
  Tid <- MCTid
  NumQueues = 3
  BoostPeriod = 3
  None = None
  SpawnPriorities = {0}
  Kinds = {"clone", "fork", "load"}
  Spawners = {1}
  Waiters = {1}
  Yielders = {3}
  Targets <- MCTargets
  TimerPoints <- CalmPoints
INVARIANTS ExitIsObservable ContextSavedToOwner SyscallOnOwnStack
PROPERTY WaitReturns
CHECK_DEADLOCK FALSE
