CONSTANTS
    A = A
    B = B
    C = C
    Node = {A, B}
    Txn <- PayBack
    Bases <- BothStarts
    Links <- AllPairs
    Priority <- MCPriority
    COINBASE_TRANSACTION = 1
    DELEGATE_VALUE = 1
    WAITING_PERIOD = 16
    U64 = 16
    U32 = 8
    MaxHeight <- Height3Or4
    MaxDrops = 1
SPECIFICATION FairSpec
INVARIANTS
    TypeOK
    PrincipalIsTrueLeaf
    SameBlocksSamePrincipal
    OneBlockPerParent
    StakerKeepsTimer
PROPERTIES
    Converges
CHECK_DEADLOCK FALSE
