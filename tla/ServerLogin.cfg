SPECIFICATION SerialSpec
CONSTANTS
    h1 = h1
    h2 = h2
    Handler = {h1, h2}
    Request <- LoginRequests
    Idle = Idle
    NoHandler = NoHandler
    NULL = NULL
    MaxCalls = 2
    MaxFaults = 0
SYMMETRY Handlers
INVARIANTS RegisteredCanLogIn
CHECK_DEADLOCK FALSE
