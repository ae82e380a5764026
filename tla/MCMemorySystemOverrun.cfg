CONSTANTS
    LevelNum = 2
    LineNum = 3
    ReqNum = 4
    SegNum = 2
    InitCredits <- TwoThenOne
    SetNum <- OnePerLevel
    WayNum <- TwoPerLevel
    MshrSize <- TwoThenOne
    PerfectLevel <- LastLevel
    AboveMemory <- EveryLevel
SPECIFICATION Spec
INVARIANT DeallocatedIdExists
CHECK_DEADLOCK FALSE
