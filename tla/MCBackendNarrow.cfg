CONSTANTS
    PipeNum = 2
    FetchWidth = 1
    InstNum = 4
    InstKind <- MCTwoKinds
    PhyRegNum = 4
    IsaRegNum = 3
    RenameWidth = 1
    RenameDepth = 2
    RobWidth = 1
    RobDepth = 3
    DispatchDepth = 2
    DispatchMap <- MCDispatchMap
    PipeIssueWidth = 1
    RsWidth = 1
    RsDepth = 2
    FuWidth = 1
    FuDepth = 1
    WbWidth = 1
SPECIFICATION FairSpec
PROPERTIES ImplementsRegisterRenaming ProgramsEnd
CHECK_DEADLOCK FALSE
