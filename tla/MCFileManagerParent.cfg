SPECIFICATION Spec
CONSTANTS
    a = a
    b = b
    i2 = i2
    i3 = i3
    NINODE = 3
    Ino = {root, i2, i3}
    RootIno = root
    Stray = stray
    NoEntry = none
    Dot = dot
    DotDot = dotdot
    Name = {dot, dotdot, a}
    NLINK = 2
    NFILE = 2
    NOFILES = 2
    Calls <- ShellCalls
    Sub <- MCSub
    Kept = {dot, dotdot}
    MaxPath = 2
    MaxLost = 1
INVARIANTS
    ParentNamed
CHECK_DEADLOCK FALSE
