SPECIFICATION MCSpec
CONSTANTS
  Parts = {"table", "pipe", "calls", "signals"}
  Name = {"a", "b"}
  Size = {1, 2}
  MaxHandles = 4
  Task = {1, 2, 3}
  None = 0
  Closer = 3
  PipeBuf = 2
  SendLens = {0, 3}
  RecvLens = {1, 2}
  Dispatched = FALSE
  MaxCalls = 2
  NumThreads = 2
  PidOf <- TwoProcesses
  Signal = {2, 15}
  MaxKills = 2
INVARIANTS SharedByName
PROPERTIES HandleIsStable ImplementsChannel  SignalsHandled
CHECK_DEADLOCK FALSE
