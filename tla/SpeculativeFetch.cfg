CONSTANTS
    PcNum = 2
    Value = {0, 1}
    WordNum = 2
    WordBytes = 2
    InstNum = 5
    RobWidth = 2
SPECIFICATION Spec
INVARIANTS RegRollBackAssertion SimulatorsAgree LogLeadsBack CheckpointPerBranch
    NopsOnlyOnWrongPath
CHECK_DEADLOCK FALSE
