SPECIFICATION Spec
CONSTANTS
    DIRECT = 1
    SINGLE = 1
    DOUBLE = 1
    PER = 2
    Inode = {f1, f2}
    OpenFile = {d1}
    Data = {w}
    Junk = junk
    NBLK = 12
    Counts = {3}
    Offsets <- MCOffsets
    MaxOffset = 14
INVARIANTS
    TypeOK
    
    NoneLost
PROPERTIES
    ImplementsFlatFile
    IOEnds
