CONSTANTS
  Bytes = 4
  Shorts = 16
  Words = 1024
  MAX_PATTERNS = 3
  MAX_ROWS_PER_PATTERN = 4
  EMPTY_PATTERN_NUM_ROWS = 2
  PATTERN_ORDER_TABLE_LENGTH = 3
  MAX_SAMPLE_LENGTH = 8
  MAX_NOTE = 2
  MIN_BPM = 2
  MAX_BPM = 3
  Waveforms = 3
  SAMPLE_HEADER_SIZE = 40
  MaxContextSize = 60
  Garbage = {0, 3}
  Files <- MCFiles
SPECIFICATION Spec
INVARIANTS
  WalksAgree
  HeadersAreFound
  AssertionsHold
  SongIsWhole
  SamplesAreWhole
CHECK_DEADLOCK FALSE
