SPECIFICATION FairSpec
CONSTANTS
    v1 = v1
    v2 = v2
    v3 = v3
    h1 = h1
    h2 = h2
    Clients = {c1}
    Urls = {u1}
    Bodies = {v1, v2, v3}
    Hashes = {h1, h2}
    HashOf <- Collision
    Expire = 2
    Year = 3
    None = None
INVARIANTS
    HeaderOutlivesEntry
PROPERTIES
    NotModifiedIsRecent
    FullOncePerWindow
    CopyHeals
