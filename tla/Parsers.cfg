CONSTANTS
    Hash = {"stored", "unknown"}
    Stored = {"stored"}
    First <- MCFirst
    Later <- MCLater
    BufferSize = 4
    MaxRequests = 2
    MaxReads = 3
    Scalar <- EveryKind
    Zeros = {0, 1, 2}
    MaxElements = 3
    MaxDepth = 3
SPECIFICATION ParsersSpec
INVARIANTS
    RoundTrip
PROPERTIES
    WrittenIsParsed
    WholeIsAnswered
CHECK_DEADLOCK FALSE
