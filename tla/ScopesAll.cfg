SPECIFICATION Spec
CONSTANTS
  Names = {"x"}
  Vals = {}
  MaxDepth = 3
  Ops = {"assign", "move", "delete", "var", "import", "unwrap", "reset", "purge", "read", "call", "block", "loop", "box"}
  Beyond = FALSE
INVARIANTS TypeOK RefsSound UnprefixedStaysInside
CHECK_DEADLOCK FALSE
