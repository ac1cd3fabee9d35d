SPECIFICATION ThrowSpec
CONSTANTS
  Callers = {c1}
  None = None
  NWorkers = 2
  MCPieces = 2
  MCWidths = {2}
  Requests <- MCRequests
  MaxCalls = 1
  MaxSpurious = 0
INVARIANT CompleteWhenOver
