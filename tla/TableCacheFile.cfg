SPECIFICATION FairSpec
CONSTANTS
  p1 = p1
  p2 = p2
  p3 = p3
  wide = wide
  narrow = narrow
  Procs = {p1, p2, p3}
  Shapes = {wide, narrow}
  Shape <- MCShape
  Size <- MCSize
  MinSize <- MCMinSize
  Pids = {n1, n2}
  Inodes = {i1, i2, i3}
  None = None
  Hole = Hole
  Ours = TRUE
  MaxStarts = 2
CHECK_DEADLOCK FALSE
INVARIANTS LoadedWhole NoLitter
PROPERTIES PublishesWhole ReadersUndisturbed GetsTable
