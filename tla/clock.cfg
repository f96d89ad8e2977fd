CONSTANTS
  TICK_SUBSAMPLES = 4
  Uint32 = 32
  Rates = {2, 3}
  Bpms = {3, 4, 5}
  Scale = 60
  MaxFrames = 14
SPECIFICATION Spec
INVARIANTS
  NothingIsLost
  DriftIsBounded
PROPERTIES
  ImplementsMetronome
