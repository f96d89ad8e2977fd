CONSTANTS
  XMSlots <- MCXMSlots
  MODSlots <- MCMODSlots
  S3MSlots <- MCS3MSlots
  Lengths <- MCLengths
SPECIFICATION Spec
INVARIANTS
  EffectsAreFixed
  ArpeggiosAreWritten
  NotesAreWritten
  MemoryIsWritten
PROPERTIES
  FixupIsStable
