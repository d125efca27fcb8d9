CONSTANTS
    h1 = h1
    h2 = h2
    c1 = c1
    c2 = c2
    Host = {h1}
    Client = {c1, c2}
    Acking = {c1, c2}
    EndPoint = {h1, c1, c2}
    Root = h1
    Keys = 2
    Value = {"v", "w"}
    Oversized = {}
    NoValue = "none"
    NoPacket = NoPacket
    MaxDelegations = 10
    MaxTable = 5
    Stubbed = {}
    Request <- NoRequest
    MaxRequests = 0
    MaxSeqno = 4
    Workload <- SetupAndGets
    Second = h1
    Recipient = h1
    NumKeys = 2
    AckBatch = 2
    MaxSeqNum = 2
SPECIFICATION FairClientSpec
INVARIANTS
    WaitsForReply
    OneEncodingExecuted
PROPERTY SetupEnds
CHECK_DEADLOCK FALSE
