SPECIFICATION Spec
CONSTANTS
    Threads = {t1, t2}
    Caps = {c1, c2}
    None = None
    NCounters = 1
    MaxDrops = 4
    MaxGuards = 3
    MaxPermits = 2
    MaxRecorded = 0
    MaxEmitted = 1
    MaxTickets = 1
SYMMETRY Symmetry
INVARIANTS
    SealInCallbackIsInProgress
