SPECIFICATION Spec
CONSTANT Sources <- ReturnLines
INVARIANT BlocksFollowCode
CHECK_DEADLOCK FALSE
