SPECIFICATION Spec
CONSTANTS
  Numbers = {1, 3}
  Keys = {1, 2}
  RangeArgs <- MCRangeArgs
  MaxCells = 3
  MaxGen = 1
  MaxRefs = 1
INVARIANTS
  IteratorsSkipNothing
  
