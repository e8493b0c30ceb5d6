SPECIFICATION FairSpec
CONSTANTS
  Kinds = {"fn", "try", "for", "throw", "exit", "on_exit", "each"}
  TaskKinds = {"fn", "try", "return"}
  Persistent = FALSE
  Fuel = 5
  MaxTasks = 2
  Lines = 1
PROPERTIES TasksInOrder Termination
