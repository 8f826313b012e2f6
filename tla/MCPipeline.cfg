SPECIFICATION Spec
CONSTANTS
  NumTasks = 4
  Peripheral = {}
  Priority <- MCPriority
  Exclusive <- MCNoCaps
  Required <- MCNoCaps
  MaxTasks = 4
  Quantum = 1
  HalfRange = 1
  Chan = {0, 1}
  Idle = 3
  Sends <- MCSends
  Receives <- MCReceives
  MayLog = {0, 1, 2}
  Capacity = 2
  NumMod = 4
  BadChan = bad
  SleepArgs = {1}
  Faults = FALSE
INVARIANTS RunsTheHighest NoLostWakeup RestartSucceeds ExactlyOnceInOrder
