\* Small programs, step by step.
SPECIFICATION Spec
CONSTANTS
  IntegerMax = 7
  ListCapacity = 0
  ArgumentLimit = 4
  Echo = TRUE
  Names <- MCNames
  Character <- MCCharacter
  Handle <- MCHandle
  Exprs <- MCExprs
  Stmts <- MCStmts
  Programs <- MCPrograms
INVARIANTS CodeBalances FunctionsReturn OnlyTopLevelEchoes
CHECK_DEADLOCK FALSE
