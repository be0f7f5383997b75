\* The buffer: a window of three.  The streams: two workers, three tasks of up
\* to one item and a terminal, channels of one message.
SPECIFICATION BothSpec
CONSTANTS
    Items = {a, b}
    NoItem = None
    MaxWindow = 3
    MaxSeq = 5
    Workers = {w1, w2}
    NoWorker = NoWorker
    MaxTasks = 3
    MaxItems = 1
    Window = 2
    Depth = 1
SYMMETRY WorkerSymmetry
INVARIANTS
    LengthsAreTrue
    StreamsInTaskOrder
    StreamsNeverStuck
PROPERTY
    ImplementsMap
