SPECIFICATION Spec
CONSTANTS
    A = A
    B = B
    NoData = NoData
    MsgLens = {3, 8}
    MaxMsgs <- TwoMessages
    Mtu = 3
    NewMtus <- LargerMtu
    SndWnd = 2
    RcvWnd = 3
    IKCP_WND_RCV = 3
    IKCP_OVERHEAD = 1
    IKCP_THRESH_INIT = 2
    IKCP_THRESH_MIN = 2
    FastResend = 0
    FastLimit = 0
    DeadLink = 1
    NoCwnd = TRUE
    Streams = {FALSE, TRUE}
    Repeats = {A}
    NetCap <- TwoToReader
    AckCap = 1
INVARIANTS
    MessagesInOrder
    BytesInOrder
    ReassemblyNeverStuck
PROPERTIES
    DatagramFits
CHECK_DEADLOCK FALSE
