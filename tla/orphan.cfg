SPECIFICATION FairSpec
CONSTANTS
  NumChunks = 1
  IdMod = 4
  SMax = 1
  RMax = 1
  NumChannels = 1
  Faults = {"loss"}
  Punctual = TRUE
PROPERTY ReceiverFollows
