SPECIFICATION Spec
CONSTANTS
    s = s
    c = c
    x = x
    y = y
    Nothing = Nothing
    Node = {s, c}
    Server = {s}
    Packet <- PacketsBothWays
    MaxSendTries = 2
    MaxThreads = 4
    MaxBreaks = 1
INVARIANTS
    TypeOK
    HeldOnce
    FoundSendersServe
PROPERTY NetworkSpec
SYMMETRY Alike
CHECK_DEADLOCK FALSE
