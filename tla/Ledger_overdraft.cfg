CONSTANTS
    a = a
    b = b
    PublicKey = {a, b}
    Value = {1, 3}
    COINBASE_TRANSACTION = 2
    DELEGATE_VALUE = 2
    WAITING_PERIOD = 2
    U64 = 16
    U32 = 4
    MaxHeight = 5
    MaxTxns <- MCMaxTxns
SPECIFICATION Spec
SYMMETRY Symmetry
INVARIANTS
    NoOverdraft
CHECK_DEADLOCK FALSE
