\* 168 programs, each run once by both engines.
SPECIFICATION DifferentialSpec
CONSTANTS
  IntegerMax = 7
  ListCapacity = 16
  ArgumentLimit = 4
  FrameLimit = 12
  CallLimit = 11
  NoUnit = NoUnit
  Names <- MCNames
  Character <- MCCharacter
  Handle <- MCHandle
  Units <- MCUnits
  Programs <- MCPrograms
  Exprs <- MCExprs
  Stmts <- MCStmts
  Chunk <- MCChunk
  Depth <- MCDepth
INVARIANTS EnginesAgree BackInGlobals
PROPERTIES EveryProgramEnds CallersKeepVariables
CHECK_DEADLOCK FALSE
