SPECIFICATION Spec
CONSTANTS
  Kinds = {"fn", "unit", "box", "throw", "badcall", "boxcall", "try", "for", "foreach",
           "each", "access", "return", "break", "exit", "on_exit"}
  TaskKinds = {"fn", "throw", "try", "exit"}
  Persistent = TRUE
  Fuel = 5
  MaxTasks = 2
  Lines = 2
INVARIANTS TypeOK ScopesMirrored HandlersMirrored HandlersRestorable FlagConsumed
           NoTaskForgotten
PROPERTIES NoRestart FramesStayAlive ReturnStaysInside ReturnStopsParent
