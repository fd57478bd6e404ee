SPECIFICATION Spec
CONSTANTS
    k1 = k1
    k2 = k2
    k3 = k3
    A = A
    B = B
    Conns = {k2}
    Stream <- SplitFields
    Leaving = {k2}
    MaxFd = 1
    MaxChunk = 3
    Callbacks = {A, B}
    None = None
CHECK_DEADLOCK FALSE
INVARIANTS
    AnswersWholeRequest
