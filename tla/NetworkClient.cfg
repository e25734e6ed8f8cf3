SPECIFICATION FairClientSpec
CONSTANTS
    c1 = c1
    Chat = {c1}
    Nobody = Nobody
    MaxLoops = 2
    MaxEvents = 2
    MaxUses = 3
INVARIANTS ClientTypeOK OnlyTheHeldLoopRuns EveryReadMessageIsHandled AtMostOneAfterStop
           HeadersAreCurrent
PROPERTIES ClientLoopEndsWithStream
CHECK_DEADLOCK FALSE
