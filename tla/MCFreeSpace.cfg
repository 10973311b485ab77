SPECIFICATION Spec
CONSTANTS
    BYTE = 2
    LONG = 2
    WORDS = 5
    DSTART = 2
    DIRS = 1
    Calls <- MCCalls
INVARIANTS
    TypeOK
    
    OneOwnerInRange
    InDataZone
    FoundFree
PROPERTIES
    IAllocEnds
CHECK_DEADLOCK FALSE
