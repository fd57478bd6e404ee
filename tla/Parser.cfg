SPECIFICATION FairSpec
CONSTANTS
    Streams <- AllStreams
    Types = {"HTTP_REQUEST", "HTTP_RESPONSE", "HTTP_BOTH"}
    Cuts = {1, 2, 7, 50}
    MaxHeader = 120
    MaxLength = 255
CHECK_DEADLOCK FALSE
INVARIANTS
    AssertionsHold
    Delivers
PROPERTIES
    CallsReturn
