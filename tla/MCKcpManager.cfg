SPECIFICATION FairSpec
CONSTANTS
    Threads = {t1, t2}
    NoThread = NoThread
    k1 = k1
    k2 = k2
    Kcps = {k1, k2}
    NoKcp = NoKcp
    Setups <- AllSetups
INVARIANTS
    CountsRegistered
    AloneWithSession
    BoundOrNot
PROPERTIES
    WaitingIsBound
    OutputGoesOn
CHECK_DEADLOCK FALSE
