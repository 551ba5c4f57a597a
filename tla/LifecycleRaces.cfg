\* Both tasks close trades: the risk service publishes stop and TP1 events.
CONSTANTS
  Trades = {t1, t2}
  Symbols = {s1}
  Directions = {"LONG"}
  FillPrices <- MCFillPrices
  Prices <- MCFewPrices
  Size = 2
  PricedRows = TRUE
  MaxFaults = 1
  MaxCrashes = 1
SPECIFICATION Spec
SYMMETRY Symmetry
CHECK_DEADLOCK FALSE
INVARIANTS
  TypeOK
  OneOpenRowPerSymbol
  OpenRowsTracked
  NoNakedExposure
PROPERTIES
  BookedTP1NeverResold
  LedgerImplemented
