SPECIFICATION Spec
CONSTANTS
    A = A
    B = B
    NoData = NoData
    MsgLens = {1}
    MaxMsgs <- ThreeMessages
    Mtu = 3
    NewMtus <- SameMtu
    SndWnd = 3
    RcvWnd = 2
    IKCP_WND_RCV = 2
    IKCP_OVERHEAD = 2
    IKCP_THRESH_INIT = 2
    IKCP_THRESH_MIN = 2
    FastResend = 1
    FastLimit = 1
    DeadLink = 1
    NoCwnd = FALSE
    Streams = {FALSE}
    Repeats = {A}
    NetCap <- TwoToReader
    AckCap = 1
INVARIANTS
    ListsSorted
PROPERTIES
    ArqSpec
    CwndStaysOpen
CHECK_DEADLOCK FALSE
