SPECIFICATION Spec
CONSTANTS
    Null = Null
    PtrTask = {p1, p2}
    TimePoint <- MCTimePoint
    LocalWorkers = {w1}
    MaxDescriptor = 1
    MaxConnection = 1
    LimitLocalTasks = 0
    MaxInputBufferLength = 3
    MaxOutputBufferLength = 3
    RecvLength = 2
    ScanWidth = 1
    MaxEvents = 2
    BodyLengths = {0, 1}
    KeepAliveAsked = {FALSE, TRUE}
    ResponseLengths = {2, 4}
    NoticeLength = 1
    TooLargeLength = 1
    RouteTypes = {"LOCAL_TASK", "STATIC_RESOURCES_TASK", "JSON_RPC_TASK"}
    SystemCallsFail = {FALSE, TRUE}
    MaxAllocFailures = 1
    MaxUnsent = 1
SYMMETRY Symmetry
INVARIANTS
    TimePointTestExact
    TaskHasOneOwner
    MutedHasTask
    ReadingStartsClean
    MixedOutputIsLast
    OutputFits
    ConnectionsBalance
