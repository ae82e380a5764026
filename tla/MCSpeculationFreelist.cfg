CONSTANTS
    PipeNum = 1
    FetchWidth = 1
    InstNum = 3
    InstKind <- MCLinkingJumps
    PhyRegNum = 4
    IsaRegNum = 3
    RenameWidth = 1
    RenameDepth = 1
    RobWidth = 1
    RobDepth = 2
    DispatchDepth = 1
    DispatchMap <- MCDispatchMap
    PipeIssueWidth = 1
    RsWidth = 1
    RsDepth = 1
    FuWidth = 1
    FuDepth = 1
    WbWidth = 1
SPECIFICATION SpeculativeSpec
INVARIANTS FreelistAssertions
CHECK_DEADLOCK FALSE
