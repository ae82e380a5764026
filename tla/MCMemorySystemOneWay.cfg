CONSTANTS
    LevelNum = 2
    LineNum = 3
    ReqNum = 3
    SegNum = 2
    InitCredits <- OnePerLevel
    SetNum <- DoublingSets
    WayNum <- OnePerLevel
    MshrSize <- OnePerLevel
    PerfectLevel <- NoLevel
    AboveMemory <- LastLevel
SPECIFICATION Spec
INVARIANT ResponseIsAwaited
CHECK_DEADLOCK FALSE
