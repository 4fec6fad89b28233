SPECIFICATION Spec
CONSTANTS
  Lines <- AllLines
  LineLimit = 2
PROPERTY BlocksRunWhole
CHECK_DEADLOCK FALSE
