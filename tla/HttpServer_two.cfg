SPECIFICATION Spec
CONSTANTS
    Null = Null
    PtrTask = {p1, p2}
    TimePoint <- MCTimePoint
    LocalWorkers = {w1}
    MaxDescriptor = 2
    MaxConnection = 2
    LimitLocalTasks = 0
    MaxInputBufferLength = 2
    MaxOutputBufferLength = 2
    RecvLength = 1
    ScanWidth = 2
    MaxEvents = 2
    BodyLengths = {0}
    KeepAliveAsked = {TRUE}
    ResponseLengths = {1}
    NoticeLength = 1
    TooLargeLength = 1
    RouteTypes = {"LOCAL_TASK"}
    SystemCallsFail = {FALSE}
    MaxAllocFailures = 0
    MaxUnsent = 0
SYMMETRY Symmetry
INVARIANTS
    EventsNotStale
PROPERTIES
    AnswersPendingRequest
