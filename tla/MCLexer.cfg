SPECIFICATION FairSpec
CONSTANT Sources <- Everything
INVARIANTS TypeOK BlocksPair BlocksFollowLines PlacesAreRight NothingLost ParserCanRely
PROPERTY EveryTextEnds
CHECK_DEADLOCK FALSE
