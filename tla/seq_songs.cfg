CONSTANTS
  NumChannels = 2
  Bytes = 4
  NULL = NULL
  Songs <- MCSongs
SPECIFICATION HistorySpec
INVARIANTS
  PlaysInsidePattern
  PositionIsReported
PROPERTIES
  RowLastsAsAsked
  ImplementsRowOrder
  RowsKeepComing
