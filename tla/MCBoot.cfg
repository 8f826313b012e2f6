SPECIFICATION BootSpec
CONSTANTS
  MaxTasks = 5
  MaxPeripherals = 2
  MaxChannels = 1
  Bit = {0, 1, 2}
  Tables <- MCTables
  KernelOwned <- MCKernelOwned
INVARIANTS RunsOnlyIfSound HaltsOnlyIfUnsound PrioritiesCoverTheRegistry
