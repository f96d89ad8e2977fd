CONSTANTS
  Modules <- MCModules
  Random <- MCRandom
  Stray = {0, 2, 7}
SPECIFICATION HistorySpec
INVARIANTS
  TypeOK
  HandledOnce
  TremorKeepsTime
  NothingLingers
PROPERTIES
  RoundingIsUndone
  NeverOvershoots
  PortamentoArrives
