SPECIFICATION FairSpec
CONSTANT Sources <- AllSources
INVARIANTS TypeOK ParsesTheLanguage ErrorsAreErrors
PROPERTY EveryTextEnds
CHECK_DEADLOCK FALSE
