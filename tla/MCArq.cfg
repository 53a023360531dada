SPECIFICATION Spec
CONSTANTS
    A = A
    B = B
    d1 = d1
    d2 = d2
    NoData = NoData
    Data <- MCData
    Batch <- MCBatch
    SndWnd = 2
    RcvWnd = 2
    IKCP_WND_RCV = 2
    MaxStream <- MCStream
    MaxNet = 2
INVARIANTS
    IInv
    NothingLost
    InOrder
    NotStranded
    UnaAheadOnlyWhenFull
PROPERTIES
    UnaNeverGoesBack
    ChanSpec
CHECK_DEADLOCK FALSE
