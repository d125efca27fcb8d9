SPECIFICATION Spec
CONSTANTS
    s = s
    c = c
    x = x
    y = y
    Nothing = Nothing
    Node = {s, c}
    Server = {s}
    Packet <- PacketsBothWays
    MaxSendTries = 2
    MaxThreads = 3
    MaxBreaks = 1
INVARIANT NothingStranded
SYMMETRY Alike
CHECK_DEADLOCK FALSE
