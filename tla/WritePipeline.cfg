SPECIFICATION FairSpec
CONSTANTS
    Runners = {r1, r2}
    Self = self
    Items = {TRUE, FALSE}
    Permits = 2
    WriteAhead = 2
    MaxWindow = 4
    MaxSeq = 5
    MaxCalls = 7
INVARIANTS
    FinishedIsComplete
PROPERTIES
    JoinedIsOver
    CallsReturn
CHECK_DEADLOCK FALSE
