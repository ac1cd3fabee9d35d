SPECIFICATION Spec
CONSTANTS
  Counts <- MCCounts
  Hardware <- MCHardware
  MayFail = {1, 2}
  MaxBatchN = 4
  MaxParallelThreads = 3
  Callers = {c1, c2}
  Nobody = Nobody
  ChunkRows = 3
INVARIANTS FailClosed TrueVerdict RoundTrip
PROPERTIES EveryCallEnds
CHECK_DEADLOCK FALSE
