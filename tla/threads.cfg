SPECIFICATION MCSpec
CONSTANTS
  Parts = {"locks", "nested", "resource", "monitor", "reaper"}
  t1 = t1
  t2 = t2
  idle = idle
  None = None
  table = table
  sched = sched
  task = task
  frames = frames
  Tid <- Three
  Idle <- idle
  IdleTask <- idle
  Ping <- t1
  Pong <- t2
  NumQueues = 2
  BoostPeriod = 3
  MaxCalls = 2
  Programs <- MutexOrAll
  TimerPoints <- Ring3
  MaxWaiters = 2
  MaxListed = 2
  Handoffs = 4
  NumProc = 2
  VSize <- OneAndTwo
  Frames = 3
  Slots = 2
  PoolMin = 2
  PoolMax = 3
  MaxTouches = 5
  Task <- Two
  Lock <- AllLocks
  SchedulerLock <- sched
  TaskLocks <- MCTaskLocks
  Sections <- Nested
  TimerLocks <- AllLocks
INVARIANTS MutualExclusion GuardKeepsCpu ResourceSound MonitorSound
PROPERTIES   PingPongEnds PoolRefilled
