CONSTANTS
    NBUF = 3
    Block = {k1, k2, k3, k4}
    Data = {d0, d1}
    Zero = d0
    NoBlk = NoBlk
    Depth = 1
    AfterHit = FALSE
SPECIFICATION Spec
INVARIANTS
    TypeOK
    UniqueCopy
    FreeListLinked
    FreeListWhole
    
    LeakIsClean
    DoneIsDisk
    FlushComplete
PROPERTY ImplementsStore
SYMMETRY BlockSymmetry
