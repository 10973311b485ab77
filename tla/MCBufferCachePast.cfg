CONSTANTS
    NBUF = 2
    Block = {k1, k2, k3}
    Data = {d0}
    Zero = d0
    NoBlk = NoBlk
    Depth = 2
    AfterHit = TRUE
SPECIFICATION Spec
INVARIANTS
    UniqueCopy
    HeldIsMine
PROPERTY RequestEnds
