SPECIFICATION Spec
CONSTANTS
  Kinds = {"fn", "box", "try", "for", "foreach", "each", "access", "return", "break", "exit", "on_exit"}
  TaskKinds = {"fn", "on_exit"}
  Persistent = FALSE
  Fuel = 5
  MaxTasks = 2
  Lines = 1
INVARIANTS CopiesMatchFrames UsesBalanced
PROPERTIES NothingAfterStop
