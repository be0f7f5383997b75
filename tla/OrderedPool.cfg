\* Two workers, four tasks, a window of two and a one-slot channel.
SPECIFICATION Spec
CONSTANTS
    Workers = {w1, w2}
    NTasks = 4
    MaxWindow = 2
    Depth = 1
    Items <- MCItems
INVARIANTS
    TypeOK
    Bounded
    InTaskOrder
PROPERTY
    Termination
