CONSTANTS
    h1 = h1
    h2 = h2
    h3 = h3
    c1 = c1
    c2 = c2
    Host = {h1, h2}
    Client = {c1}
    Acking = {c1}
    EndPoint = {h1, h2, c1}
    Root = h1
    Keys = 1
    Value = {"v"}
    Oversized = {}
    NoValue = "none"
    NoPacket = NoPacket
    MaxDelegations = 10
    MaxTable = 3
    Stubbed = {}
    Request <- GetSetOrShard
    MaxRequests = 4
    MaxSeqno = 4
SPECIFICATION FairSpec
INVARIANTS
    AnswersFit
    RepliesMatchRequests
PROPERTIES
    KeysComeToRest
    ServiceSpec
CHECK_DEADLOCK FALSE
