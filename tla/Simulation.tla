------------------------------ MODULE Simulation ------------------------------
(***************************************************************************)
(* The simulated runs of the backtests: the loop of run_sim, which is the  *)
(* same in run_simulation.py and run_90day_bt.py, and one resampling of    *)
(* monte_carlo.py with its drawdown.  What a trade brings is drawn at      *)
(* random; the fees may turn the profit of a won trade into a loss.        *)
(***************************************************************************)
EXTENDS Integers, Sequences, FiniteSetsExt

CONSTANTS
  Outcomes,          \* what a trade may bring
  SimCapital,        \* INITIAL_CAPITAL
  LeastCapital,      \* the run ends below it
  MaxSimLoss,        \* MAX_DAILY_LOSS
  TradesPerDay,
  SimStreak,         \* losses in a row that pause the run
  SimPause,          \* CONSECUTIVE_PAUSE
  MaxTurns,          \* turns of the loop: n_trades
  MaxSample          \* trades_per_sim

ASSUME SimAssumption ==
  /\ Outcomes \subseteq Int /\ Outcomes # {} /\ SimCapital \in Nat /\ LeastCapital \in Nat
  /\ MaxSimLoss \in Nat /\ TradesPerDay \in Nat \ {0} /\ SimStreak \in Nat \ {0}
  /\ SimPause \in Nat /\ MaxTurns \in Nat /\ MaxSample \in Nat

VARIABLES
  turn,
  simCapital,
  won, lostTrades,   \* wins and losses; together they are trades_done
  inARow,            \* consec_loss
  pauseLeft,         \* pause_remaining
  dailyLoss,
  path               \* cumulative: the sums of the returns drawn so far

simVars == <<turn, simCapital, won, lostTrades, inARow, pauseLeft, dailyLoss, path>>

-----------------------------------------------------------------------------
TradesDone == won + lostTrades

SimTypeOK ==
  /\ turn \in 0..MaxTurns
  /\ simCapital \in Int
  /\ won \in Nat /\ lostTrades \in Nat /\ TradesDone <= turn
  /\ inARow \in 0..SimStreak
  /\ pauseLeft \in 0..SimPause
  /\ dailyLoss \in Nat
  /\ path \in Seq(Int) /\ Len(path) <= MaxSample

SimInit ==
  /\ turn = 0 /\ simCapital = SimCapital
  /\ won = 0 /\ lostTrades = 0 /\ inARow = 0 /\ pauseLeft = 0 /\ dailyLoss = 0
  /\ path = <<>>

-----------------------------------------------------------------------------
(***************************************************************************)
(* run_sim                                                                 *)
(***************************************************************************)
\* A day is a number of trades, not of turns: a turn without a trade does not
\* bring its end nearer.
DayEnds == TradesDone > 0 /\ TradesDone % TradesPerDay = 0

LossToday == IF DayEnds THEN 0 ELSE dailyLoss

\* The two kinds of simulation share nothing: a behaviour is one of them.
Turn == /\ turn < MaxTurns /\ simCapital >= LeastCapital /\ path = <<>>
        /\ turn' = turn + 1
        /\ UNCHANGED path

AtTheLimit ==
  /\ LossToday >= MaxSimLoss
  /\ dailyLoss' = LossToday
  /\ Turn
  /\ UNCHANGED <<simCapital, won, lostTrades, inARow, pauseLeft>>

Paused ==
  /\ LossToday < MaxSimLoss /\ pauseLeft > 0
  /\ pauseLeft' = pauseLeft - 1
  /\ dailyLoss' = LossToday
  /\ Turn
  /\ UNCHANGED <<simCapital, won, lostTrades, inARow>>

BeginPause ==
  /\ LossToday < MaxSimLoss /\ pauseLeft = 0 /\ inARow >= SimStreak
  /\ pauseLeft' = SimPause /\ inARow' = 0
  /\ dailyLoss' = LossToday
  /\ Turn
  /\ UNCHANGED <<simCapital, won, lostTrades>>

MayTrade == LossToday < MaxSimLoss /\ pauseLeft = 0 /\ inARow < SimStreak

Win(pnl) ==
  /\ MayTrade
  /\ simCapital' = simCapital + pnl
  /\ won' = won + 1 /\ inARow' = 0
  /\ dailyLoss' = LossToday
  /\ Turn
  /\ UNCHANGED <<lostTrades, pauseLeft>>

\* A stake too small to trade with counts as a loss of nothing.
Lose(pnl) ==
  /\ MayTrade /\ pnl <= 0
  /\ simCapital' = simCapital + pnl
  /\ lostTrades' = lostTrades + 1 /\ inARow' = inARow + 1
  /\ dailyLoss' = LossToday - pnl
  /\ Turn
  /\ UNCHANGED <<won, pauseLeft>>

-----------------------------------------------------------------------------
(***************************************************************************)
(* MonteCarloSimulator.simulate                                            *)
(***************************************************************************)
\* A return is drawn, and added to the sum of those before.
Draw(r) ==
  /\ turn = 0 /\ Len(path) < MaxSample
  /\ path' = Append(path, r + IF path = <<>> THEN 0 ELSE path[Len(path)])
  /\ UNCHANGED <<turn, simCapital, won, lostTrades, inARow, pauseLeft, dailyLoss>>

FromTheLowest(s, i) == Min({s[j] : j \in 1..i})

\* The running maximum begins with the first return, not with the start.
RunningMax(s, i) == Max({s[j] : j \in 1..i})

MaxDrawdown(s) == Max({RunningMax(s, i) - s[i] : i \in 1..Len(s)})

-----------------------------------------------------------------------------
SimNext ==
  \/ AtTheLimit \/ Paused \/ BeginPause
  \/ \E pnl \in Outcomes : Win(pnl) \/ Lose(pnl)
  \/ \E r \in Outcomes : Draw(r)

SimSpec == SimInit /\ [][SimNext]_simVars

-----------------------------------------------------------------------------
(***************************************************************************)
(* Properties                                                              *)
(***************************************************************************)

At(s, i) == IF i = 0 THEN 0 ELSE s[i]

\* The largest fall from an earlier high, the start among them.
LargestFall(s) ==
  Max({At(s, p[1]) - At(s, p[2]) :
         p \in {p \in (0..Len(s)) \X (0..Len(s)) : p[1] <= p[2]}})

\* The drawdown of a simulated path is the largest fall from an earlier high;
\* it misses no more than a loss of the first trade, and nothing if the path
\* does not begin with a loss.
DrawdownMissesFirstLoss ==
  path # <<>> =>
    /\ MaxDrawdown(path) <= LargestFall(path)
    /\ LargestFall(path) <= MaxDrawdown(path) + Max({0, -path[1]})

=============================================================================
