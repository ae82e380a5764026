CONSTANTS
    PipeNum = 2
    FetchWidth = 2
    InstNum = 4
    InstKind <- MCMixedKinds
    PhyRegNum = 4
    IsaRegNum = 3
    RenameWidth = 2
    RenameDepth = 2
    RobWidth = 2
    RobDepth = 3
    DispatchDepth = 2
    DispatchMap <- MCDispatchMap
    PipeIssueWidth = 1
    RsWidth = 1
    RsDepth = 1
    FuWidth = 1
    FuDepth = 1
    WbWidth = 1
SPECIFICATION Spec
INVARIANTS TypeOK CreditsConserved RobAwaitsWhatIsUnderWay
    RobTagIsOwn BusyUntilBroadcast NoLostWakeup RegistersAreSafe StopsOnlyWhenDone
PROPERTY ImplementsDataflowCore
CHECK_DEADLOCK FALSE
