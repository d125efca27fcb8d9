CONSTANTS
    h1 = h1
    h2 = h2
    c1 = c1
    c2 = c2
    Host = {h1}
    Client = {c1}
    Acking = {c1}
    EndPoint = {h1, c1}
    Root = h1
    Keys = 1
    Value = {"v", "w"}
    Oversized = {}
    NoValue = "none"
    NoPacket = NoPacket
    MaxDelegations = 10
    MaxTable = 5
    Stubbed = {}
    Request <- NoRequest
    MaxRequests = 0
    MaxSeqno = 3
    Workload <- SetsOnly
    Second = h1
    Recipient = h1
    NumKeys = 1
    AckBatch = 2
    MaxSeqNum = 3
SPECIFICATION ClientSpec
INVARIANT WaitsForReply
CHECK_DEADLOCK FALSE
