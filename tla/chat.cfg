SPECIFICATION FairSpec
CONSTANTS
  NumChunks = 1
  IdMod = 4
  SMax = 2
  RMax = 2
  NumChannels = 1
  Faults = {"idle"}
  Punctual = TRUE
PROPERTY ChatIsDelivered
