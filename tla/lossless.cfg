SPECIFICATION ListsSpec
CONSTANTS
  NumChunks = 3
  IdMod = 5
  SMax = 2
  RMax = 2
  NumChannels = 1
  Faults = {}
  Punctual = TRUE
  NumNodes = 5
INVARIANTS ListsAgree HeapsSound ForEachOnTrack ListsInv WindowBound CompleteExit NoGiveUp ExitsAgree LosslessInv
