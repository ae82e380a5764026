CONSTANTS
    PipeNum = 2
    FetchWidth = 1
    InstNum = 9
    InstKind <- MCTwoBranches
    PhyRegNum = 4
    IsaRegNum = 3
    RenameWidth = 1
    RenameDepth = 1
    RobWidth = 1
    RobDepth = 9
    DispatchDepth = 1
    DispatchMap <- MCDispatchMap
    PipeIssueWidth = 1
    RsWidth = 1
    RsDepth = 1
    FuWidth = 1
    FuDepth = 1
    WbWidth = 1
SPECIFICATION FairSpeculativeSpec
PROPERTIES StallAssertion
CHECK_DEADLOCK FALSE
