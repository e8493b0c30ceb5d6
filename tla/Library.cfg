SPECIFICATION Spec
CONSTANTS
  IntBits = 5
  CharBits = 3
  DoubleBits = 3
  Literals <- MCLiterals
  Alphabet <- MCAlphabet
  Words <- MCWords
  MaxLen = 5
INVARIANTS
  ValuesAgree
  TextAgrees
