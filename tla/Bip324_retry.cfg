SPECIFICATION Bip324Spec
CONSTANTS
  Initiator = I
  Responder = R
  Other = other
  Degenerate = degenerate
  None = None
  Sizes = {0, 1, 2}
  MaxPayload = 1
  MaxPackets = 3
CHECK_DEADLOCK FALSE
INVARIANT RefusedCanBeRetried
