CONSTANTS
  NumChannels = 1
  Bytes = 4
  NULL = NULL
  Songs <- MCCallSongs
SPECIFICATION CallsSpec
INVARIANTS
  RowIsStored
  EffectsHaveASlot
  SeekLands
