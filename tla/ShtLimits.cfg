CONSTANTS
    h1 = h1
    h2 = h2
    h3 = h3
    c1 = c1
    c2 = c2
    Host = {h1, h2}
    Client = {c1}
    Acking = {}
    EndPoint = {h1, h2, c1}
    Root = h1
    Keys = 2
    Value = {"v", "big"}
    Oversized = {"big"}
    NoValue = "none"
    NoPacket = NoPacket
    MaxDelegations = 5
    MaxTable = 2
    Stubbed = {}
    Request <- ToTheLimits
    MaxRequests = 4
    MaxSeqno = 4
SPECIFICATION Spec
INVARIANTS
    OnlyOwnedKeysStored
    TypeOK
    EachKeyClaimedOnce
PROPERTIES
    ServiceSpec
    ProtocolSpec
CHECK_DEADLOCK FALSE
