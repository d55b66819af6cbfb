SPECIFICATION Spec
CONSTANTS
  NumChunks = 2
  IdMod = 4
  SMax = 2
  RMax = 1
  NumChannels = 1
  Faults = {"loss", "dup", "idle", "reset", "sink"}
  Punctual = FALSE
INVARIANTS TypeOK Integrity NothingForgotten AckedIsDelivered ConfirmedExit ToAckBound IInv
PROPERTY ReliableStream
