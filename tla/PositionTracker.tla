-------------------------- MODULE PositionTracker --------------------------
(***************************************************************************)
(* The PositionTracker of the trade manager: what it keeps for a position, *)
(* how a price moves it, and which exit check_triggers asks for.           *)
(*                                                                         *)
(* Prices are integers.  The code computes percentages in floating point;  *)
(* here every comparison of two percentages is cleared of its             *)
(* denominators, so it is exact on integers.                               *)
(*                                                                         *)
(* A position is loaded either from the record built when the trade opens  *)
(* or from a row of the trades table.  Neither has the keys hard_stop_pct, *)
(* tp1_pct, tp2_pct, trail_activate_pct, trail_retrace_ratio or            *)
(* max_hold_minutes, so the defaults of check_triggers always apply and    *)
(* the maximum holding time is never examined.                             *)
(***************************************************************************)
EXTENDS Integers

CONSTANT Size           \* shares of a newly opened position

ASSUME SizeAssumption == Size \in Nat /\ Size > 0 /\ Size % 2 = 0

HardStopPct      == 5
TP1Pct           == 3
TP2Pct           == 6
TrailActivatePct == 2

Untracked == [tracked |-> FALSE]

Triggers == {"none", "hard_stop", "tp1", "tp2", "trail_stop"}

(***************************************************************************)
(* register(): a fresh entry starts at the entry price.  The best price is *)
(* not restored, only the TP1 flag of the row is, and the number of shares *)
(* is the one written when the trade was opened.                           *)
(***************************************************************************)
RegisterForgetful(row) ==
  [tracked |-> TRUE, shares |-> Size, tp1 |-> FALSE,
   cur |-> row.entry, best |-> row.entry]

Register(row) ==
  [tracked |-> TRUE, shares |-> Size, tp1 |-> row.tp1,
   cur |-> row.entry, best |-> row.entry]

\* update_price(): the current price, and the best one seen since register().
UpdatePrice(row, pos, price) ==
  LET better == IF row.dir = "LONG" THEN price > pos.best ELSE price < pos.best
  IN  [pos EXCEPT !.cur = price, !.best = IF better THEN price ELSE @]

-----------------------------------------------------------------------------
\* Price move in the direction of the position; pnl_pct is 100 * Gain / entry.
Gain(row, pos) ==
  IF row.dir = "LONG" THEN pos.cur - row.entry ELSE row.entry - pos.cur

Reaches(row, pos, pct) == 100 * Gain(row, pos) >= pct * row.entry

\* retrace > pnl_pct * trail_retrace_ratio, with the ratio at its default 1/2.
Retraced(row, pos) ==
  LET giveBack == IF row.dir = "LONG" THEN pos.best - pos.cur
                                      ELSE pos.cur - pos.best
  IN  2 * giveBack * row.entry > Gain(row, pos) * pos.best

(***************************************************************************)
(* check_triggers(): the first rule that applies, in the order of the      *)
(* code: hard stop, TP1, TP2 once TP1 was taken, then the trailing stop.   *)
(***************************************************************************)
TrailArmed(row, pos) == pos.tp1 \/ Reaches(row, pos, TrailActivatePct)

CheckTriggers(row, pos) ==
  IF 100 * Gain(row, pos) <= -HardStopPct * row.entry THEN "hard_stop"
  ELSE IF ~pos.tp1 /\ Reaches(row, pos, TP1Pct) THEN "tp1"
  ELSE IF pos.tp1 /\ Reaches(row, pos, TP2Pct) THEN "tp2"
  ELSE IF TrailArmed(row, pos) /\ Gain(row, pos) > 0 /\ Retraced(row, pos)
       THEN "trail_stop"
  ELSE "none"

=============================================================================
