SPECIFICATION CombSpec
CONSTANTS
  Order = 7
  Bits = 4
  MaxTeeth = 3
  Callers = {p1}
  OffCurve = OffCurve
  NoFile = NoFile
INVARIANT ReadyHasTable
CHECK_DEADLOCK FALSE
