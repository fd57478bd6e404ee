SPECIFICATION DiligentSpec
CONSTANTS
    k1 = k1
    k2 = k2
    Conns = {k1, k2}
    Stream <- Streams
    MaxFd = 2
    MaxChunk = 2
    None = None
CHECK_DEADLOCK FALSE
INVARIANTS
    WaitsForRequest
PROPERTIES
    EveryRequestAnswered
    PendingIsServiced
    DescriptorReturned
