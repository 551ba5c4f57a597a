----------------------------- MODULE WalkForward ------------------------------
(***************************************************************************)
(* The walk-forward analysis of a list of closed trades: the time between  *)
(* the first and the last of them is divided into folds of three weeks to  *)
(* choose the parameters and one week to test them, a week apart, and the  *)
(* folds together say whether what was chosen is stable enough to be       *)
(* published.                                                              *)
(*                                                                         *)
(* _execute_wfa and _validate_stability are functions of the list alone    *)
(* and are taken by themselves: the weekly loop that calls them, as it is  *)
(* shipped, never gets so far (see OptimisationLoop).                      *)
(*                                                                         *)
(* Trades are known by the day they were opened.  The evaluation does not  *)
(* look at the parameters, so the first of the grid is always chosen; only *)
(* the Sharpe ratio of each test is left to choose.                        *)
(***************************************************************************)
EXTENDS Integers, FiniteSets, FiniteSetsExt, Functions

CONSTANTS
  TradeDays,         \* days on which trades may have been opened
  Sharpes,           \* what a test may give
  SharpeThreshold

ASSUME WfaAssumption ==
  /\ TradeDays \subseteq Nat /\ IsFiniteSet(TradeDays)
  /\ Sharpes \subseteq Int /\ SharpeThreshold \in Int

VARIABLES
  trades,            \* the list
  window,            \* first day of the window that is next
  sharpe,            \* results: the Sharpe ratio of each fold, by its first day
  verdict            \* "none" until the folds are judged

wfaVars == <<trades, window, sharpe, verdict>>

-----------------------------------------------------------------------------
TrainDays == 21
TestDays  == 7
StepDays  == 7

FirstDay == Min(trades)
LastDay  == Max(trades)

\* Both bounds of a window belong to it.
Train(s) == trades \cap (s..(s + TrainDays))

Test(s) == trades \cap ((s + TrainDays)..(s + TrainDays + TestDays))

\* _create_windows goes on as long as a window fits.
TrainFits(s) == s + TrainDays <= LastDay
Fits(s)      == s + TrainDays + TestDays <= LastDay

AboveThreshold(results) ==
  SumFunction(results) > SharpeThreshold * Cardinality(DOMAIN results)

\* All folds have chosen the same parameters.
Stable(results) == Cardinality(DOMAIN results) >= 3 /\ AboveThreshold(results)

-----------------------------------------------------------------------------
NoResults == [s \in {} |-> 0]

WfaTypeOK ==
  /\ trades \subseteq TradeDays
  /\ window \in Nat
  /\ DOMAIN sharpe \subseteq Nat /\ sharpe \in [DOMAIN sharpe -> Sharpes]
  /\ verdict \in {"none", "stable", "unstable"}

WfaInit == trades = {} /\ window = 0 /\ sharpe = NoResults /\ verdict = "none"

\* The analysis is called with a list of trades.
BeginAnalysis ==
  /\ trades = {}
  /\ trades' \in (SUBSET TradeDays) \ {{}}
  /\ window' = Min(trades')
  /\ UNCHANGED <<sharpe, verdict>>

NextWindow ==
  /\ trades # {} /\ Fits(window)
  /\ window' = window + StepDays
  /\ UNCHANGED <<trades, verdict>>

\* A window without trades to choose by or to test with is passed over.
PassOver ==
  /\ NextWindow
  /\ Train(window) = {} \/ Test(window) = {}
  /\ UNCHANGED sharpe

TestFold ==
  /\ NextWindow
  /\ Train(window) # {} /\ Test(window) # {}
  /\ \E r \in Sharpes :
       sharpe' = [s \in DOMAIN sharpe \cup {window} |-> IF s = window THEN r ELSE sharpe[s]]

\* _select_best_params and _validate_stability
Judge ==
  /\ trades # {} /\ ~Fits(window) /\ verdict = "none"
  /\ verdict' = IF Stable(sharpe) THEN "stable" ELSE "unstable"
  /\ UNCHANGED <<trades, window, sharpe>>

WfaNext == BeginAnalysis \/ PassOver \/ TestFold \/ Judge

WfaSpec == WfaInit /\ [][WfaNext]_wfaVars

-----------------------------------------------------------------------------
(***************************************************************************)
(* Properties                                                              *)
(***************************************************************************)

\* Parameters are found stable only when the trades they were tested on span
\* six weeks, the length of three whole folds, wherever the trades lie and
\* whichever windows have none: with the thirty days of history that the
\* settings ask for, none ever are.
StableOnSixWeeks ==
  verdict = "stable" => LastDay - FirstDay >= TrainDays + 3 * TestDays

\* The windows leave no gap: a trade opened three weeks after the first one,
\* and a week before the last, is in the test of a fold, unless there were no
\* trades in the three weeks by which the window that tests it would choose.
LaterTradesTested ==
  verdict # "none" =>
    \A d \in trades :
      FirstDay + TrainDays <= d /\ d <= LastDay - TestDays =>
        \E s \in FirstDay..LastDay :
          /\ (s - FirstDay) % StepDays = 0
          /\ d \in Test(s)
          /\ s \in DOMAIN sharpe \/ Train(s) = {}

\* The folds are where they should be and judged as a whole.
FoldsAreSound == StableOnSixWeeks /\ LaterTradesTested

=============================================================================
