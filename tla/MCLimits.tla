------------------------------ MODULE MCLimits -------------------------------
(***************************************************************************)
(* An instance of what limits trading, for TLC: the risk control service,  *)
(* the regime of the market, the limits that the local engine and the      *)
(* simulations keep by themselves, the blacklist, and the scan of the      *)
(* markets.  They share no state: one of them runs in a behaviour (part    *)
(* says which), the others stay in an initial state.                       *)
(***************************************************************************)
EXTENDS RiskControl, MarketRegime, LocalEngine, Simulation, Blacklist, MarketScan, TLC

VARIABLE part

limitVars == <<vars, regimeVars, localVars, simVars>>

allVars == <<part, limitVars, blackVars, scanVars>>

MCMaxOpen == [d \in Directions |-> 2]

\* On both sides of each threshold of the detector.
MCTrends == {-9, -4, 0, 2, 4, 11}

MCOutcomes == {-2, -1, 1, 2}

MCVenues == <<"binance", "okx", "bybit">>

\* On both sides of each threshold of the scan.
MCQuotes ==
  [volume : {2, 3}, gain : {2, 3}, price : {1}] \cup
  {[volume |-> 1, gain |-> 2, price |-> 1], [volume |-> 3, gain |-> 1, price |-> 1],
   [volume |-> 2, gain |-> 3, price |-> 9]}

Symmetry == Permutations(Trades)

AllInit ==
  /\ part \in {"risk", "regime", "local", "simulation", "blacklist", "scan"}
  /\ Init /\ LocalInit /\ SimInit /\ BlackInit /\ ScanInit
  /\ RegimeInit /\ (part # "regime" => ~detecting)

Risk      == part = "risk" /\ Next
Regime    == part = "regime" /\ RegimeNext
Local     == part = "local" /\ LocalNext
Simulated == part = "simulation" /\ SimNext
Listed    == part = "blacklist" /\ BlackNext
Markets   == part = "scan" /\ ScanNext

AllNext ==
  \/ Risk      /\ UNCHANGED <<part, regimeVars, localVars, simVars, blackVars, scanVars>>
  \/ Regime    /\ UNCHANGED <<part, vars, localVars, simVars, blackVars, scanVars>>
  \/ Local     /\ UNCHANGED <<part, vars, regimeVars, simVars, blackVars, scanVars>>
  \/ Simulated /\ UNCHANGED <<part, vars, regimeVars, localVars, blackVars, scanVars>>
  \/ Listed    /\ UNCHANGED <<part, limitVars, scanVars>>
  \/ Markets   /\ UNCHANGED <<part, limitVars, blackVars>>

AllSpec == AllInit /\ [][AllNext]_allVars

-----------------------------------------------------------------------------
\* Every part keeps its variables to their types.
LimitsTypeOK ==
  /\ TypeOK /\ RegimeTypeOK /\ LocalTypeOK /\ SimTypeOK /\ BlackTypeOK /\ ScanTypeOK

=============================================================================
