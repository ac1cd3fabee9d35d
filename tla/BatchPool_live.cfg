SPECIFICATION FairSpec
CONSTANTS
  Callers = {c1, c2}
  None = None
  NWorkers = 3
  MCPieces = 2
  MCWidths = {3}
  Requests <- MCLiveRequests
  MaxCalls = 1
  MaxSpurious = 0
PROPERTIES EveryCallReturns ReleaseEnds
