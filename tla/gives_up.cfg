SPECIFICATION Spec
CONSTANTS
  NumChunks = 1
  IdMod = 4
  SMax = 2
  RMax = 2
  NumChannels = 1
  Faults = {"loss"}
  Punctual = TRUE
INVARIANT NoGiveUp
