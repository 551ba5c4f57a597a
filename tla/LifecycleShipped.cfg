\* The system as main.py starts it: only the monitor loop closes rows.  Both
\* directions, so that an unrecorded fill and a later trade may net out.
CONSTANTS
  Trades = {t1, t2}
  Symbols = {s1}
  Directions = {"LONG", "SHORT"}
  FillPrices <- MCFillPrices
  Prices <- MCPrices
  Size = 2
  PricedRows = FALSE
  MaxFaults = 2
  MaxCrashes = 1
SPECIFICATION Spec
SYMMETRY Symmetry
CHECK_DEADLOCK FALSE
PROPERTIES
  ClosedEventOnce
