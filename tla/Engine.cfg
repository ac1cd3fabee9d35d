SPECIFICATION EngineSpec
CONSTANTS
  Order = 7
  Signers = {1, 2}
  Participants = 3
  Threshold = 2
  Polynomials <- MCPolynomials
  NoValue = NoValue
  Bits = 4
  MaxTeeth = 3
  Callers = {p1, p2}
  OffCurve = OffCurve
  NoFile = NoFile
  Contexts = {c1, c2}
  Threads = {t1, t2}
  Seeds = {0, 1, 3, 9}
  NoContext = NoContext
  Users = {u1, u2, u3}
  Worker = worker
  Nobody = nobody
  MaxReleases = 2
  Initiator = I
  Responder = R
  Other = other
  Degenerate = degenerate
  None = None
  Sizes = {0, 1, 2}
  MaxPayload = 1
  MaxPackets = 3
  SchnorrEntries <- MCSchnorrEntries
  EcdsaEntries <- MCEcdsaEntries
  Digests = {0, 3}
  XCoordinate <- MCXCoordinate
  FieldOrder = 11
  MaxBatch = 3
  SchnorrCutoff = 1
  EcdsaCutoff = 1
  PoolSize = 2
  MinRowsPerThread = 1
  StealFloor = 2
  StealCeiling = 2
CHECK_DEADLOCK FALSE
INVARIANTS
  
  SharesInterpolate FrostSignaturesVerify
  CombIsMultiple TableIsBuilt
  ResourcesAlive OneInstance
  BlindingNeutral
  SchnorrBatchSound EcdsaBatchAgrees
  NonceOnce
PROPERTIES  ChannelSpec EverythingOpens
