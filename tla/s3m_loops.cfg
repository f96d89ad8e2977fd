CONSTANTS
  NumChannels = 2
  Bytes = 4
  Songs <- MCSongs
  NULL = NULL
SPECIFICATION LoopsSpec
INVARIANT
  LoopsFit
PROPERTY
  PlaysAsScreamTracker
