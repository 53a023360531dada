SPECIFICATION Spec
CONSTANTS
    W = 64
    SlapMax = 10
    Interval = 3
    Nodelays = {0, 1}
    MinRto = 4
    IKCP_RTO_DEF = 6
    IKCP_RTO_MAX = 8
    IKCP_PROBE_INIT = 5
    IKCP_PROBE_LIMIT = 9
    Start = 56
    Gaps = {1, 4, 28, 35}
    MaxNow = 94
    MaxXmit = 2
INVARIANTS
    ResendNotLate
    ProbeInTime
    CheckNeverLate
    FlushRegular
PROPERTIES
    ResendNotEarly
CHECK_DEADLOCK FALSE
