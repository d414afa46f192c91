SPECIFICATION FairSpec
CONSTANTS
    Null = Null
    PtrTask = {p1, p2}
    TimePoint <- MCTimePoint
    LocalWorkers = {w1}
    MaxDescriptor = 0
    MaxConnection = 1
    LimitLocalTasks = 0
    MaxInputBufferLength = 3
    MaxOutputBufferLength = 3
    RecvLength = 1
    ScanWidth = 1
    MaxEvents = 2
    BodyLengths = {0, 1}
    KeepAliveAsked = {FALSE, TRUE}
    ResponseLengths = {2}
    NoticeLength = 1
    TooLargeLength = 1
    RouteTypes = {"LOCAL_TASK"}
    SystemCallsFail = {FALSE}
    MaxAllocFailures = 0
    MaxUnsent = 1
PROPERTIES
    TimeLimitEnforced
