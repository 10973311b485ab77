SPECIFICATION Spec
CONSTANTS
    U = 2
    NB = 4
    NI = 4
    Name = {sub, a, m}
    a = a
    m = m
    Sub = sub
    Paths <- MCPaths
    Zero = Zero
    MaxSize = 1
    MaxCrash = 1
INVARIANTS
    TypeOK
    KeptSurvives
    
    EntryLeads
CONSTRAINT Whole
CHECK_DEADLOCK FALSE
