\* One failed write of the event log after the exchange filled the TP1 order.
CONSTANTS
  Trades = {t1}
  Symbols = {s1}
  Directions = {"LONG"}
  FillPrices <- MCFillPrices
  Prices <- MCFewPrices
  Size = 2
  PricedRows = FALSE
  MaxFaults = 1
  MaxCrashes = 0
SPECIFICATION Spec
CHECK_DEADLOCK FALSE
PROPERTIES
  TP1SoldOnce
