SPECIFICATION Spec
CONSTANTS
  Lines <- AllLines
  LineLimit = 4
INVARIANTS TypeOK BufferIsBlock EveryLineOnce
PROPERTY PlainBlocksRunWhole
CHECK_DEADLOCK FALSE
