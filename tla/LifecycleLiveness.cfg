\* One trade at a time on two symbols would hide nothing: two trades compete
\* for the monitor loop.
CONSTANTS
  Trades = {t1, t2}
  Symbols = {s1, s2}
  Directions = {"LONG"}
  FillPrices <- MCFillPrices
  Prices <- MCFewPrices
  Size = 2
  PricedRows = FALSE
  MaxFaults = 1
  MaxCrashes = 0
SPECIFICATION FairSpec
CHECK_DEADLOCK FALSE
PROPERTIES
  StopLossCarriedOut
