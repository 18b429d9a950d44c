CONSTANTS
    MAGIC_SIZE = 2
    TAIL_SIZE = 0
    BASE = 2
    SUGGESTED_SIZE = 8
    MaxMessages = 3
    MaxLength = 2
    MaxShortReads = 3
SPECIFICATION Spec
INVARIANTS
    HandledIsSent
CHECK_DEADLOCK FALSE
