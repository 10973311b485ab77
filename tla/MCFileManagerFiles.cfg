SPECIFICATION Spec
CONSTANTS
    a = a
    b = b
    i2 = i2
    i3 = i3
    NINODE = 2
    Ino = {root, i2, i3}
    RootIno = root
    Stray = stray
    NoEntry = none
    Dot = dot
    DotDot = dotdot
    Name = {dot, dotdot, a, b}
    NLINK = 2
    NFILE = 2
    NOFILES = 3
    Calls <- FileCalls
    Sub <- MCNoSub
    Kept = {dot, dotdot}
    MaxPath = 1
    MaxLost = 1
SYMMETRY InoSymmetry
INVARIANTS
    TypeOK
    CountIsRefs
    FileCountIsFds
    LocksAccounted
PROPERTIES
    ImplementsHandles
CHECK_DEADLOCK FALSE
