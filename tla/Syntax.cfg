SPECIFICATION Spec
CONSTANTS
  MaxText = 4
  MaxOperators = 4
  Files <- MCFiles
  Dialogues <- MCDialogues
INVARIANTS
  OperatorsSeeNewlines
  RespellingKeepsTokens
  GroupingIsAsDeclared
  DialogueMatchesFile
PROPERTIES
  EveryStepReads
