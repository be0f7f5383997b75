\* Reads of up to three blobs with one raw slot, two permits and two decode
\* threads; folds of three blobs by two workers; merges of up to three change
\* files and four batches; scans of up to three blobs by two workers; one run of
\* a scratch directory and two scanners.
SPECIFICATION Spec
CONSTANTS
    N = 3
    ReadAhead = 1
    DecodeAhead = 2
    DecodeThreads = 2
    BlockQueue = 1
    Workers = {w1, w2}
    Cap = 3
    BatchMaxBlobs = 3
    BatchMaxBytes = 3
    MaxInputs = 3
    MaxBatches = 2
    MaxTotal = 4
    Budget = 2
    Runs = {r1}
    Scanners = {s1, s2}
    NoRun = NoRun
    ScanWorkers = {p1, p2}
    MaxBlobs = 3
    DescCap = 1
    ResultCap = 1
INVARIANTS
    IntakeBounded
    ReadDeliversTrue
    FoldCountsTrue
    MergeWritesTrue
    
    ScanIsTrue
PROPERTY
    IntakeReturns
CHECK_DEADLOCK FALSE
