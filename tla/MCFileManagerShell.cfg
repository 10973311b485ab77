SPECIFICATION Spec
CONSTANTS
    a = a
    b = b
    i2 = i2
    i3 = i3
    NINODE = 3
    Ino = {root, i2, i3}
    RootIno = root
    Stray = stray
    NoEntry = none
    Dot = dot
    DotDot = dotdot
    Name = {dot, dotdot, a}
    NLINK = 2
    NFILE = 1
    NOFILES = 1
    Calls <- NamingCalls
    Sub <- MCNoSub
    Kept = {dot, dotdot}
    MaxPath = 1
    MaxLost = 2
INVARIANTS
    NlinkIsNames
    EntriesLive
SYMMETRY InoSymmetry
CHECK_DEADLOCK FALSE
