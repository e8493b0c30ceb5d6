SPECIFICATION Spec
CONSTANTS
  Declarations <- MCDeclarations
  Vars = {v, w}
  MaxObjects = 2
  MaxReceivers = 2
INVARIANTS
  LookupIsLinear
  Substitutable
PROPERTIES
  PrototypesKept
