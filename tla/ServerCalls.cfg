SPECIFICATION BoundedSpec
CONSTANTS
    h1 = h1
    h2 = h2
    s1 = s1
    Handler = {h1, h2}
    Request <- DeliveryRequests
    Idle = Idle
    NoHandler = NoHandler
    NULL = NULL
    MaxCalls = 6
    MaxFaults = 1
    Stream = {s1}
    User <- Users
SYMMETRY Handlers
INVARIANTS TypeOK AckedIsStored WritesAreWhole KeysStayPaired EventImpliesStored HistoryIsCommitted
           PagesLeaveNoGap StreamsTellOfCommitted ToldOnce ToldInOrder
PROPERTIES ImplementsAtomicServer HeardIsInHistory
CHECK_DEADLOCK FALSE
