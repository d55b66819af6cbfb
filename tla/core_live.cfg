SPECIFICATION FairSpec
CONSTANTS
  NumChunks = 2
  IdMod = 4
  SMax = 2
  RMax = 2
  NumChannels = 1
  Faults = {}
  Punctual = TRUE
PROPERTY TransferCompletes
