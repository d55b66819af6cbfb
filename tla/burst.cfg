SPECIFICATION Spec
CONSTANTS
  NumChunks = 2
  IdMod = 5
  SMax = 3
  RMax = 3
  NumChannels = 3
  Faults = {"loss"}
  Punctual = TRUE
PROPERTY LeavesBurst
