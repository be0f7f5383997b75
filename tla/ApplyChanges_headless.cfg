SPECIFICATION Spec
CONSTANTS
  Workers = {w1, w2}
  Worlds <- MCHeadlessWorlds
  CandidateCap = 1
  DrainCap = 1
  Window = 2
  Faults = {"scanner", "worker", "write", "cancelled"}
  MaxFaults = 1
INVARIANT
  CreatesReachOutput
CHECK_DEADLOCK FALSE
