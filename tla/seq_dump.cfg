CONSTANTS
  NumChannels = 1
  Bytes = 4
  NULL = NULL
  Songs <- MCCallSongs
SPECIFICATION DumpSpec
INVARIANTS
  EffectsHaveASlot
