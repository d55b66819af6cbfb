SPECIFICATION Spec
CONSTANTS
  NumChunks = 1
  IdMod = 4
  SMax = 2
  RMax = 2
  NumChannels = 1
  Faults = {"reset"}
  Punctual = TRUE
INVARIANT ConfirmedIsWhole
