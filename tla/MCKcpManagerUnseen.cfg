SPECIFICATION Spec
CONSTANTS
    Threads = {t1, t2}
    NoThread = NoThread
    k1 = k1
    k2 = k2
    Kcps = {k1, k2}
    NoKcp = NoKcp
    Setups <- OneKcp
INVARIANTS
    NoneUnseen
CHECK_DEADLOCK FALSE
