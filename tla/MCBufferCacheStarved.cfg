CONSTANTS
    NBUF = 2
    Block = {k1, k2, k3}
    Data = {d0}
    Zero = d0
    NoBlk = NoBlk
    Depth = 1
    AfterHit = TRUE
SPECIFICATION Spec
PROPERTY RequestGranted
