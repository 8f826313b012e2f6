SPECIFICATION DemoSpec
CONSTANTS
  NumTasks = 4
  Peripheral = {}
  Priority <- MCPriority
  Exclusive <- MCNoCaps
  Required <- MCNoCaps
  MaxTasks = 4
  Quantum = 10
  HalfRange = 2048
  Chan = {0, 1}
  Idle = 3
  Sends <- MCSends
  Receives <- MCReceives
  MayLog = {0, 1, 2}
  Capacity = 2
  NumMod = 4
  BadChan = bad
  SleepArgs <- MCSleepArgs
  Faults = FALSE
  Period = 10
  Deadline = 10
  LoggerWork = 3
  FlushWork = 25
  FlushEvery = 5
  SummaryEvery = 100
  MinCalls = 4
  Horizon = 1030
INVARIANTS SensorOnTime NothingDropped LoggerKeepsUp
PROPERTY FollowsTimetable
