CONSTANTS
    h1 = h1
    h2 = h2
    c1 = c1
    c2 = c2
    Host = {h1, h2}
    Client = {c1, c2}
    Acking = {}
    EndPoint = {h1, h2, c1, c2}
    Root = h1
    Keys = 1
    Value = {"v"}
    Oversized = {}
    NoValue = "none"
    NoPacket = NoPacket
    MaxDelegations = 10
    MaxTable = 5
    Stubbed = {}
    Request <- NoRequest
    MaxRequests = 0
    MaxSeqno = 3
    Workload <- ShardsOnly
    Second = h2
    \* A public key, which names no host and sends nothing.
    Recipient = c2
    NumKeys = 1
    AckBatch = 2
    MaxSeqNum = 0
SPECIFICATION ClientSpec
INVARIANT RedirectExpected
CHECK_DEADLOCK FALSE
