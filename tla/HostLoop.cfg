CONSTANTS
    a = a
    b = b
    EndPoint = {a, b}
    Payload = {"x", "y"}
    MaxSeqno = 2
    None = None
    ResendPeriod = 2
    Sender = {a}
    Refused = {"y"}
SPECIFICATION FairLoopSpec
INVARIANTS
    TypeOK
    AckedWereAccepted
    UndeliveredIsRetransmittable
    AcksAreTrue
    SeqnoNamesOneMessage
    IInv
    BufferEmptyAtReceive
PROPERTIES
    FifoSpec
    RefusedIsForever
    EventuallyDelivered
    EventuallyAcknowledged
\* Two loops that have ended do nothing more.
CHECK_DEADLOCK FALSE
