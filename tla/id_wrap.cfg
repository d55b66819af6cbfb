SPECIFICATION Spec
CONSTANTS
  NumChunks = 1
  IdMod = 2
  SMax = 2
  RMax = 2
  NumChannels = 1
  Faults = {}
  Punctual = TRUE
INVARIANT EndingNeverSent
