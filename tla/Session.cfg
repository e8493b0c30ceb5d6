SPECIFICATION Spec
CONSTANTS
  LineKinds = {"blank", "expr", "semi", "stmts", "open", "close", "bad", "unlexable"}
  CommandLines <- AllCommands
  CasModes = {TRUE, FALSE}
  MaxInputs = 5
INVARIANT ReadyIsClean
PROPERTY LinesOnceInOrder
