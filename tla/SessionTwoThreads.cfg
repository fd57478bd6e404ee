SPECIFICATION Spec
CONSTANTS
    c1 = c1
    c2 = c2
    here = here
    Threads = {http, https}
    Clients = {c1}
    IPs = {here}
    IPOf <- SameAddress
    Addrs = {a1, a2}
    MaxTime = 0
    FloatExact = 0
    None = None
    Empty = Empty
INVARIANTS
    EmptyOnlyWhileCreated
