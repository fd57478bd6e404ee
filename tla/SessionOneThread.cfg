SPECIFICATION Spec
CONSTANTS
    c1 = c1
    c2 = c2
    here = here
    Threads = {http}
    Clients = {c1, c2}
    IPs = {here}
    IPOf <- SameAddress
    Addrs = {a1, a2}
    MaxTime = 1
    FloatExact = 4
    None = None
    Empty = Empty
INVARIANTS
    TypeOK
    NoMisuse
    NoLeak
    RepliesCount
    StoredContext
PROPERTIES
    SettledSessionsLast
    ImplementsSessionStore
