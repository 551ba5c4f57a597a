------------------------- MODULE MCTradeLifecycle --------------------------
(* Instances of TradeLifecycle for TLC. *)
EXTENDS TradeLifecycle, TLC

\* Entry at 100: -6 % is beyond the hard stop of a long, +3 % is TP1, +7 % TP2.
MCFillPrices == {100}
MCPrices     == {94, 103, 107}

\* Stopped out, or at TP2.
MCFewPrices == {94, 107}

Symmetry == Permutations(Trades)

=============================================================================
