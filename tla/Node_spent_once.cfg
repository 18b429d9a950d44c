CONSTANTS
    A = A
    B = B
    C = C
    Node = {A, B}
    Txn <- PayBack
    Bases <- WarmStart
    Links <- AllPairs
    Priority <- MCPriority
    COINBASE_TRANSACTION = 1
    DELEGATE_VALUE = 1
    WAITING_PERIOD = 16
    U64 = 16
    U32 = 8
    MaxHeight <- Height5
    MaxDrops = 0
SPECIFICATION Spec
INVARIANTS
    SpentOnce
CHECK_DEADLOCK FALSE
