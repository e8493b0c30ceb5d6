SPECIFICATION LaunchSpec
CONSTANTS
  Word = 32
  Sizes = {1, 2, 5}
  Physical = 9
  Limits = {0, 3, 6, 10}
  Blocks = {b1, b2, b3}
  MaxLost = 10
  HomeDir <- MCHomeDir
  StartDir <- MCStartDir
  Dirs <- MCDirs
  Paths <- MCPaths
  GoesTo <- MCGoesTo
  Contents <- MCContents
  Lines = {"r"}
  MaxLines = 2
  MaxNodes = 12
  MaxReads = 3
  ModulePaths <- MCModulePaths
  Defines <- MCDefines
  ProgramNames = {"v"}
  CommandLines <- MCCommandLines
  Programs <- MCPrograms
  Libraries <- MCLibraries
  Broken <- MCBroken
  Builtins = {"print"}
  InitialMem = 3
  Capacity = 6
  ExitValues = {}
INVARIANTS Accounted ReadsInOrder FindsNearest ScriptKnown
PROPERTIES LimitHeld ImportKeeps
CHECK_DEADLOCK FALSE
