CONSTANTS
    LevelNum = 2
    LineNum = 3
    ReqNum = 4
    SegNum = 2
    InitCredits <- TwoThenOne
    SetNum <- OnePerLevel
    WayNum <- TwoPerLevel
    MshrSize <- TwoThenOne
    PerfectLevel <- LastLevel
    AboveMemory <- EveryLevel
SPECIFICATION Spec
INVARIANTS MissQueueIsContiguous NoLostMshrWakeup
CHECK_DEADLOCK FALSE
