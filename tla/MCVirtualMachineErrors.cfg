\* Programs that fail in every way the machine knows, each in any order after the
\* others: overflow, the remainder that traps, calls of what is no function, endless
\* recursion, a range that exhausts memory, operands of the wrong type.
SPECIFICATION FairSpec
CONSTANTS
  IntegerMax = 7
  ListCapacity = 16
  ArgumentLimit = 4
  FrameLimit = 3
  NoUnit = NoUnit
  Names <- MCNames
  Character <- MCCharacter
  Handle <- ErrorHandle
  Units <- ErrorUnits
  Chunk <- ErrorChunk
  Depth <- ErrorDepth
INVARIANTS TypeOK StackDiscipline NoInternalError
PROPERTIES CallsAreSeparate EveryProgramEnds
CHECK_DEADLOCK FALSE
