SPECIFICATION Spec
CONSTANTS
  NumTasks = 4
  Peripheral = {"UART0"}
  Priority <- MCPriority
  Exclusive <- MCExclusive
  Required <- MCRequired
  MaxTasks = 4
  Quantum = 2
  HalfRange = 4
  Chan = {}
  Idle = 3
  Sends <- MCNoEndpoints
  Receives <- MCNoEndpoints
  MayLog = {0, 1, 2}
  Capacity = 1
  NumMod = 3
  BadChan = bad
  SleepArgs = {6}
  Faults = FALSE
PROPERTY SleepExact
