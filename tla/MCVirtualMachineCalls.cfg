\* Functions that are replaced while they run, nested functions, repeated
\* parameters, lists of functions, a loop; six programs in every order.
SPECIFICATION FairSpec
CONSTANTS
  IntegerMax = 7
  ListCapacity = 16
  ArgumentLimit = 4
  FrameLimit = 3
  NoUnit = NoUnit
  Names <- MCNames
  Character <- MCCharacter
  Handle <- CallHandle
  Units <- CallUnits
  Chunk <- CallChunk
  Depth <- CallDepth
INVARIANTS StackDiscipline NoInternalError ParametersBound NoDanglingFrame FunctionsKept
PROPERTIES CallersKeepOperands CallsAreSeparate EveryProgramEnds
CHECK_DEADLOCK FALSE
