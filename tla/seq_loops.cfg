CONSTANTS
  NumChannels = 2
  Bytes = 4
  NULL = NULL
  Songs <- MCLoopSongs
SPECIFICATION HistorySpec
INVARIANTS
  LoopCountIsPasses
PROPERTIES
  LoopPlaysBody
  LoopIsReported
