SPECIFICATION Spec
CONSTANTS
  Callers = {c1, c2}
  None = None
  NWorkers = 3
  MCPieces = 2
  MCWidths = {1, 2, 3}
  Requests <- MCRequests
  MaxCalls = 1
  MaxSpurious = 1
SYMMETRY MCSymmetry
INVARIANTS NoDanglingFunction NoPieceTwice AnswerIsSerial QuietAtPost NoJobAtJoin
PROPERTY ParallelForSpec
