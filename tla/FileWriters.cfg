\* gzip: two workers and enough jobs to exhaust the permits.  pwrite: two
\* workers, up to four operations of one or two bytes, one-slot queues.
SPECIFICATION BothSpec
CONSTANTS
    NoFailure = "no failure"
    Workers = {w1, w2}
    Items = {"chunk", "barrier", "dropped"}
    RawCap = 1
    CompressedCap = 1
    MaxWindow = 4
    MaxSeq = 5
    MaxCalls = 5
    PoolSize = 2
    Capacity = 1
    MaxOps = 4
    MaxLen = 2
INVARIANTS
    FileWritersTellTrue
PROPERTY
    FileWritersReturn
CHECK_DEADLOCK FALSE
