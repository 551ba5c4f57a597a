\* No failure at all: the stop order of the exchange is enough.
CONSTANTS
  Trades = {t1}
  Symbols = {s1}
  Directions = {"LONG"}
  FillPrices <- MCFillPrices
  Prices <- MCFewPrices
  Size = 2
  PricedRows = FALSE
  MaxFaults = 0
  MaxCrashes = 0
SPECIFICATION FairSpec
CHECK_DEADLOCK FALSE
PROPERTIES
  VanishedRowsClosed
