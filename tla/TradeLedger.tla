---------------------------- MODULE TradeLedger ----------------------------
(***************************************************************************)
(* What the trades table promises to the rest of the system, whatever the  *)
(* tasks of the trade manager do to it and whenever the process dies:      *)
(* a trade is entered once, only while no other trade is open in its       *)
(* symbol; its first take-profit is booked at most once and only while it  *)
(* is open; it is closed once, and the closing entry is final.             *)
(***************************************************************************)
CONSTANTS Trades, Symbols, Directions

VARIABLE ledger    \* for each trade: "none", or what was entered for it

Blank == [status |-> "none"]

IsOpen(t) == ledger[t].status = "open"

OpenIn(s) == {t \in Trades : IsOpen(t) /\ ledger[t].sym = s}

LedgerInit == ledger = [t \in Trades |-> Blank]

Enter(t, s, d) ==
  /\ ledger[t] = Blank
  /\ OpenIn(s) = {}
  /\ ledger' = [ledger EXCEPT ![t] =
       [status |-> "open", sym |-> s, dir |-> d, tp1 |-> FALSE, reason |-> ""]]

BookTakeProfit(t) ==
  /\ IsOpen(t)
  /\ ~ledger[t].tp1
  /\ ledger' = [ledger EXCEPT ![t].tp1 = TRUE]

Closed(entry, why) == [entry EXCEPT !.status = "closed", !.reason = why]

Close(t, why) ==
  /\ IsOpen(t)
  /\ ledger' = [ledger EXCEPT ![t] = Closed(@, why)]

LedgerNext ==
  \E t \in Trades :
     \/ \E s \in Symbols, d \in Directions : Enter(t, s, d)
     \/ BookTakeProfit(t)
     \/ \E why \in {"hard_stop", "tp2", "trail_stop", "alert"} : Close(t, why)

LedgerSpec == LedgerInit /\ [][LedgerNext]_ledger

=============================================================================
