\* 120 programs in which the engines may differ.
SPECIFICATION DifferentialSpec
CONSTANTS
  IntegerMax = 7
  ListCapacity = 16
  ArgumentLimit = 4
  FrameLimit = 12
  CallLimit = 11
  NoUnit = NoUnit
  Names <- MCNames
  Character <- MCCharacter
  Handle <- MCOtherHandle
  Units <- MCOtherUnits
  Programs <- MCOtherPrograms
  Exprs <- MCOtherExprs
  Stmts <- MCOtherStmts
  Chunk <- MCOtherChunk
  Depth <- MCOtherDepth
INVARIANTS LiftedAgrees InterpreterTypeOK ScopesAreLexical
CHECK_DEADLOCK FALSE
