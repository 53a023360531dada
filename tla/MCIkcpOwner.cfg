SPECIFICATION MidSpec
CONSTANTS
    A = A
    B = B
    NoData = NoData
    MsgLens = {1}
    MaxMsgs <- SixMessages
    Mtu = 4
    NewMtus <- SameMtu
    SndWnd = 2
    RcvWnd = 2
    IKCP_WND_RCV = 2
    IKCP_OVERHEAD = 1
    IKCP_THRESH_INIT = 2
    IKCP_THRESH_MIN = 2
    FastResend = 0
    FastLimit = 0
    DeadLink = 1
    NoCwnd = TRUE
    Streams = {FALSE}
    Repeats = {}
    NetCap <- OneEachWay
    AckCap = 2
PROPERTIES
    EveryMessageArrives
CHECK_DEADLOCK FALSE
