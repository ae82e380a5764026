CONSTANTS
    PcNum = 2
    Value = {0, 1}
    WordNum = 1
    WordBytes = 1
    InstNum = 3
    RobWidth = 2
SPECIFICATION LateFlushSpec
INVARIANT RegRollBackAssertion
CHECK_DEADLOCK FALSE
