\* Every session of up to five of nine programs.
SPECIFICATION SessionSpec
CONSTANTS
  IntegerMax = 7
  ListCapacity = 16
  ArgumentLimit = 4
  FrameLimit = 24
  CallLimit = 23
  SessionLength = 5
  NoUnit = NoUnit
  Names <- MCNames
  Character <- MCCharacter
  Handle <- MCEnteredHandle
  Units <- MCEnteredUnits
  Programs <- MCEnteredPrograms
  Exprs <- MCEnteredExprs
  Stmts <- MCEnteredStmts
  Chunk <- MCEnteredChunk
  Depth <- MCEnteredDepth
INVARIANTS SessionsAgree SessionIsOneProgram
CHECK_DEADLOCK FALSE
