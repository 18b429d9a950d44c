CONSTANTS
    Key <- MCKey
    Val = {v1, v2}
    NULL = NULL
    N_BUCKETS = 2
    hash <- MCHash
    MaxSize = 4
    Elem = {10, 11, 20, 30, 40}
    Rank <- MCRank
    HEAP_DEFAULT_CAPACITY = 2
    MaxElems = 6
    Txn = {1, 2}
    MaxTxns = 6
SPECIFICATION StructuresSpec
INVARIANTS
    KeysOwned
    HeaderCommits
PROPERTIES
    MapImplements
    HeapImplements
CHECK_DEADLOCK FALSE
