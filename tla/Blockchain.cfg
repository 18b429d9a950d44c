CONSTANTS
    Header <- MCHeader
    Block <- MCBlock
    Priority <- MCPriority
    Transactions <- MCTransactions
SPECIFICATION Spec
INVARIANTS
    TypeOK
    IndexesConsistent
    OrderIrrelevant
PROPERTIES
    RollbackIsFinal
    ImplementsForkChoice
