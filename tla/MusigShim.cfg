SPECIFICATION Spec
CONSTANTS
  Caches = {c1, c2}
  Sessions = {s1, s2}
  Signers = {a, b}
  Groups = {{a, b}}
  None = None
  MaxKaEntries = 2
  MaxTweaks = 1
  MaxTokens = 2
  MaxNonces = 2
  MaxSessions = 2
SYMMETRY MCSymmetry
INVARIANTS  NonceOnce OwnEntry AggregateVerifies
CHECK_DEADLOCK FALSE
