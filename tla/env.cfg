CONSTANTS
  MAX_ENVELOPE_POINTS = 3
  MAX_ENVELOPE_VALUE = 4
  MAX_FADEOUT_VOLUME = 4
  Counters = 6
  Files <- MCFiles
  Slots <- MCSlots
  Garbage = {255}
  NoInstrument = NoInstrument
  NoPosition = NoPosition
SPECIFICATION FairSpec
INVARIANTS
  TypeOK
  TickAssertions
PROPERTIES
  NotesAreHeld
  ReleasedNoteEnds
