CONSTANTS
  MICROSTEPS = 4
  RAMPING_POINTS = 2
  Positions = 128
  Samples <- MCFitting
  Steps = {1, 4, 11}
  Offsets = {0, 1, 3}
  NoSample = NoSample
SPECIFICATION Spec
INVARIANTS
  IndexInSample
  InterpolatesTowardsNext
PROPERTIES
  ImplementsPlayhead
