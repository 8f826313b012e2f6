SPECIFICATION Spec
CONSTANTS
  NumTasks = 4
  Peripheral = {"UART0"}
  Priority <- MCPriority
  Exclusive <- MCExclusive
  Required <- MCRequired
  MaxTasks = 4
  Quantum = 2
  HalfRange = 2
  Chan = {}
  Idle = 3
  Sends <- MCNoEndpoints
  Receives <- MCNoEndpoints
  MayLog = {0, 1, 2}
  Capacity = 1
  NumMod = 3
  BadChan = bad
  SleepArgs = {0, 2, 3}
  Faults = TRUE
INVARIANTS TablesAgree ContextIsOwn RunsTheHighest NoPriorityInversion NeverStuck
PROPERTIES SleepExact PreemptionIsJustified RoundRobin SleepersWake
