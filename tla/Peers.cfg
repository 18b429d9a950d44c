CONSTANTS
    A = A
    B = B
    C = C
    Node = {A, B, C}
    Listening = {A, B, C}
    Seeds <- Joining
    Versions <- OneOther
    MaxConns = 5
SPECIFICATION FairSpec
INVARIANTS
    TypeOK
    SoleConnection
    NoSelfConnection
    OnlyDuplicatesClose
    SettledIsUsable
    Joined
PROPERTIES
    Settles
CHECK_DEADLOCK FALSE
