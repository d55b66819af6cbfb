SPECIFICATION RitSpec
CONSTANTS
  NumChunks = 0
  IdMod = 2
  SMax = 1
  RMax = 1
  NumChannels = 1
  Faults = {"dup"}
  Punctual = FALSE
  SecInMcsec = 20
  Delays = {1, 2}
  Idle = 2
  Bursts = {40}
  Sendings = {60}
  FirstSecs = 5
  StepSecs = 10
  SentIds = {1}
  MaxLoad = 3
  MaxLag = 0
  CommentedMax = 3
INVARIANT HeldAsCommented
