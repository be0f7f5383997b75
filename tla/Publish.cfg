\* A lone file, a directory and groups of up to three files; two threads and
\* three outputs, with every writer outcome.
SPECIFICATION BothSpec
CONSTANTS
    N = 3
    Interference = TRUE
    Threads = {t1, t2}
    NoThread = NoThread
    Effects = {"Installed"}
    MaxUnits = 3
SYMMETRY ThreadSymmetry
INVARIANTS
    PublicationKeepsGenerations
    
    UnitsDecidedInTurn
    CancelAnswersTrue
PROPERTY
    PublicationKeepsDestinations
CHECK_DEADLOCK FALSE
