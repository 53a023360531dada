SPECIFICATION Spec
CONSTANTS
    Threads = {t1, t2}
    Delays = {1, 3}
    Recycles = {0, 2}
    Cancels = TRUE
    Never = 1000
    NoThread = NoThread
    MaxTimers = 2
    MaxNow = 4
INVARIANTS
    OnSchedule
    NoOversleep
    NothingForgotten
    DeletedStaysOut
PROPERTIES
    DueTakenInOrder
SYMMETRY Alike
CHECK_DEADLOCK FALSE
