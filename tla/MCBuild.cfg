SPECIFICATION Spec
CONSTANTS
  NumTasks = 4
  MaxTasks = 5
  Priorities <- MCPriorities
INVARIANTS ArraysSuffice ReportsLieOnCycles FindsEveryCycle TableIsRight
PROPERTY Terminates
