SPECIFICATION FairSpec
CONSTANTS
    Threads = {t1, t2}
    Delays = {1, 2}
    Recycles = {0, 2}
    Cancels = FALSE
    Never = 1000
    NoThread = NoThread
    MaxTimers = 2
    MaxNow = 3
PROPERTIES
    EveryTimerFires
CHECK_DEADLOCK FALSE
