SPECIFICATION RitFairSpec
CONSTANTS
  NumChunks = 0
  IdMod = 2
  SMax = 1
  RMax = 1
  NumChannels = 1
  Faults = {"loss", "dup"}
  Punctual = FALSE
  SecInMcsec = 3
  Delays = {1, 2}
  Idle = 1
  Bursts = {2}
  Sendings = {2}
  FirstSecs = 1
  StepSecs = 1
  MaxLoad = 3
  SentIds = {1}
  MaxLag = 1
  CommentedMax = 2
INVARIANTS RitTypeOK SortedWithinASecond RitInv
PROPERTIES ImplementsDelayNet ListDrains BurstsEnd
