CONSTANTS
    A = A
    B = B
    C = C
    D = D
    Node = {A, B, C, D}
    Links <- TriangleAndOne
    MESSAGE_HISTORY_SIZE = 3
    Window = 2
    MaxEvents = 4
    MaxDirect = 1
SPECIFICATION FairSpec
INVARIANTS
    TypeOK
    Remembered
PROPERTIES
    Delivered
CHECK_DEADLOCK FALSE
