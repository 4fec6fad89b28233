SPECIFICATION Spec
CONSTANT Sources <- Misplaced
INVARIANT ErrorsInTheirLine
CHECK_DEADLOCK FALSE
