SPECIFICATION Spec
CONSTANTS
  MaxTid = 4
  Tid <- MCTid
  NumQueues = 2
  BoostPeriod = 2
  None = None
  SpawnPriorities = {0}
  Kinds = {"clone", "fork", "load", "new"}
  Spawners = {1}
  Waiters = {1}
  Yielders = {3}
  Targets <- MCTargets
  TimerPoints <- AllPoints
INVARIANTS TypeOK RunQueuesOK BlockedIsCurrent NoTaskLost ReapedIsGone ExitSwitchesAway
PROPERTY ImplementsPool
CHECK_DEADLOCK FALSE
