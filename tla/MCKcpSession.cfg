SPECIFICATION Spec
CONSTANTS
    A = A
    B = B
    Sizes = {0, 2, 3}
    IKCP_WND_RCV = 3
    RcvWnd = 3
    MaxSent <- ThreeMessages
    SocketCap = 2
    TaskCap = 2
INVARIANTS
    QueueKeepsAll
    CallbacksInOrder
    NoDatagramForgotten
CHECK_DEADLOCK FALSE
