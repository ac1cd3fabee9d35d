SPECIFICATION FairSpec
CONSTANTS
  Threads = {t1, t2}
  Addrs = {a1, a2, a3}
  None = None
  w8 = w8
  w8glv = w8glv
  Shapes = {w8, w8glv}
  Dirs = {here}
  DefaultShape = w8glv
  DefaultDir = here
  Adapt <- MCAdapt
  EnvDir = None
  MaxVer = 2
INVARIANTS NoUseAfterFree AcquisitionIsFresh PublishedAgrees BuiltOnce
PROPERTY MutexIsReleased
