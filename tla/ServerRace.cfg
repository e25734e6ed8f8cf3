SPECIFICATION RacySpec
CONSTANTS
    h1 = h1
    h2 = h2
    Handler = {h1, h2}
    Request <- RegisterRequests
    Idle = Idle
    NoHandler = NoHandler
    NULL = NULL
    MaxCalls = 2
    MaxFaults = 0
SYMMETRY Handlers
INVARIANTS AckedIsStored
CHECK_DEADLOCK FALSE
