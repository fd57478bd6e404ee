SPECIFICATION ReadingSpec
CONSTANTS
    k1 = k1
    k2 = k2
    k3 = k3
    A = A
    B = B
    Conns = {k1, k2, k3}
    Stream <- Mixed
    Leaving = {k2}
    MaxFd = 2
    MaxChunk = 2
    Callbacks = {A, B}
    None = None
CHECK_DEADLOCK FALSE
INVARIANTS
    AnswersInOrder
    SilentAfterEnd
    AnswersOwnRequest
    OwnCallback
PROPERTIES
    EveryRequestAnswered
    DescriptorReturned
