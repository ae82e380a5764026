CONSTANTS
    LevelNum = 2
    LineNum = 3
    ReqNum = 3
    SegNum = 3
    InitCredits <- OnePerLevel
    SetNum <- DoublingSets
    WayNum <- TwoPerLevel
    MshrSize <- OnePerLevel
    PerfectLevel <- NoLevel
    AboveMemory <- LastLevel
SPECIFICATION FairSpec
INVARIANTS TypeOK AssertionsHold LinkCreditsConserved CachesAreInclusive
PROPERTIES IsMemoryPort EveryRequestIsAnswered CachesComeToRest
CHECK_DEADLOCK FALSE
