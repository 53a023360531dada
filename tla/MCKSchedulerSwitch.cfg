SPECIFICATION Spec
CONSTANTS
    t1 = t1
    t2 = t2
    Threads = {t1, t2}
    AnyThread = AnyThread
    NoThread = NoThread
    NoJob = NoJob
    Application = Application
    j1 = j1
    j2 = j2
    Jobs = {j1, j2}
    Callbacks = {j1}
    Setups <- TimerSetup
INVARIANTS
    RunningIsExec
CHECK_DEADLOCK FALSE
