\* Two threads, two capabilities, both count fields full at one.
SPECIFICATION Spec
CONSTANTS
    Threads = {t1, t2}
    Caps = {c1, c2}
    None = None
    NCounters = 2
    MaxDrops = 4
    MaxGuards = 1
    MaxPermits = 1
    MaxRecorded = 1
    MaxEmitted = 1
    MaxTickets = 1
SYMMETRY Symmetry
INVARIANTS
    LiveKeepsOpen
    SnapshotIsFinal
    StreamIsTrue
    SealNeverWaits
PROPERTY
    Forward
