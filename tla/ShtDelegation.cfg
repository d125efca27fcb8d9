CONSTANTS
    h1 = h1
    h2 = h2
    h3 = h3
    c1 = c1
    c2 = c2
    Host = {h1, h2, h3}
    Client = {c1, c2}
    Acking = {}
    EndPoint = {h1, h2, h3, c1, c2}
    Root = h1
    Keys = 1
    Value = {"v"}
    Oversized = {}
    NoValue = "none"
    NoPacket = NoPacket
    MaxDelegations = 10
    MaxTable = 3
    Stubbed = {"remove"}
    Request <- ShardOrRemove
    MaxRequests = 4
    MaxSeqno = 1
SPECIFICATION Spec
SYMMETRY Alike
INVARIANTS
    EachKeyClaimedOnce
    RedirectsLeadToKey
PROPERTY ProtocolSpec
CHECK_DEADLOCK FALSE
