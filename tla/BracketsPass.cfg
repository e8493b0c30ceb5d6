SPECIFICATION Spec
CONSTANTS
  Names <- MCNames
  Things <- MCThings
  Sites <- MCSites
  Site <- MCSite
  MaxAdded = 2
INVARIANT
  BracketsPassTheAction
