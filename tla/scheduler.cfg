SPECIFICATION FairSpec
CONSTANTS
  t1 = t1
  t2 = t2
  idle = idle
  Tid <- MCTid
  Idle = idle
  None = None
  NumQueues = 3
  BoostPeriod = 3
  ArrivalPriorities = {0, 1, 2}
PROPERTIES ImplementsPool HighestFirst NoStarvation
