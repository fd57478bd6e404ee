SPECIFICATION Spec
CONSTANTS
    c1 = c1
    c2 = c2
    c3 = c3
    int = int
    union = union
    Classes = {c1, c2, c3}
    Order <- CodeOrder
    Documents <- SmallDocuments
    Registered = int
    Unknown = union
    MaxDepth = 3
    None = None
INVARIANTS TypeOK CutsClosed ListsComplete
PROPERTY DecodingEnds
CHECK_DEADLOCK FALSE
