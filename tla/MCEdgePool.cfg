CONSTANTS
    Requests = {r1, r2}
    MaxConn = 2
    ChannelCap = 1
    MaxPending = 2
    Shutdown = TRUE
SPECIFICATION LiveSpec
INVARIANTS NotSentIsTruthful
PROPERTIES CancelNeverOvertakesRequest HandoverKeepsWaiters CancellationIsForwarded
CHECK_DEADLOCK FALSE
