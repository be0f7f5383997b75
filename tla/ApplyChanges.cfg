SPECIFICATION Spec
CONSTANTS
  Workers = {w1, w2}
  Worlds <- MCWorlds
  CandidateCap = 1
  DrainCap = 1
  Window = 3
  Faults = {"scanner", "worker", "write", "cancelled"}
  MaxFaults = 2
INVARIANTS
  ResultIsTrue
  EverySeqOwed
PROPERTY
  Returns
CHECK_DEADLOCK FALSE
