----------------------------- MODULE SelfHealing ------------------------------
(***************************************************************************)
(* The self-healing service: the reconciliation loop, which closes rows    *)
(* whose position the exchange no longer reports, the health loop, and the *)
(* circuit breaker of each exchange, which both of them move.  The two     *)
(* loops are tasks of one asyncio loop: each runs from one await to the    *)
(* next, and the trade manager opens and closes trades between the steps.  *)
(*                                                                         *)
(* The trade manager appears by what it does to positions and rows (see    *)
(* TradeLifecycle for the whole of it); rows and positions are compared by *)
(* exchange and symbol, as the code does.  The service needs the execution *)
(* router; main.py starts neither (the README says what that means).       *)
(***************************************************************************)
EXTENDS Integers, FiniteSets

CONSTANTS
  Rows,             \* the trades there may be
  Exchanges,
  ExchangeOf,       \* exchange and symbol of each trade
  SymbolOf,
  FailureThreshold, \* failures that open a breaker
  RecoveryTimeout,  \* how long it stays open
  MaxHealFaults     \* bound on failing calls

ASSUME HealAssumption ==
  /\ ExchangeOf \in [Rows -> Exchanges]
  /\ FailureThreshold \in Nat \ {0}
  /\ RecoveryTimeout \in Nat
  /\ MaxHealFaults \in Nat

VARIABLES
  routed,           \* exchanges for which the router holds an object
  held,             \* trades whose position the exchange holds
  row,              \* the row of each trade
  manager,          \* what the trade manager has done with each trade
  breaker,          \* _circuit_breakers
  recon,            \* _run_reconciliation
  health,           \* _check_exchange_health
  healFaults

healVars == <<routed, held, row, manager, breaker, recon, health, healFaults>>

-----------------------------------------------------------------------------
\* "none": the dictionary has no breaker for the exchange.  left is the time
\* until open_until.
Breaker == [state : {"none", "closed", "open", "half_open"},
            failures : Nat, left : 0..RecoveryTimeout]

Recon == [pc : {"idle", "check", "correct"}, rows : SUBSET Rows,
          todo : SUBSET Exchanges, found : SUBSET Rows]
  \cup [pc : {"fetch"}, rows : SUBSET Rows, todo : SUBSET Exchanges,
        found : SUBSET Rows, at : Exchanges]

Health == [pc : {"idle"}]
  \cup [pc : {"scan"}, keys : SUBSET Exchanges, todo : SUBSET Exchanges]
  \cup [pc : {"ask"}, keys : SUBSET Exchanges, todo : SUBSET Exchanges,
        at : Exchanges]

HealTypeOK ==
  /\ routed \subseteq Exchanges
  /\ held \subseteq Rows
  /\ row \in [Rows -> {"none", "open", "closed", "reconciled"}]
  /\ manager \in [Rows -> {"idle", "filled", "watching", "sold", "done"}]
  /\ breaker \in [Exchanges -> Breaker]
  /\ recon \in Recon
  /\ health \in Health
  /\ healFaults \in 0..MaxHealFaults

SameSymbol(t, u) == ExchangeOf[t] = ExchangeOf[u] /\ SymbolOf[t] = SymbolOf[u]

ReconIdle == [pc |-> "idle", rows |-> {}, todo |-> {}, found |-> {}]

\* The router connects the exchanges it has keys for, once, when it starts.
\* Rows that an earlier process has left open have their position, also at an
\* exchange that is not connected any more, and there is one open row of a
\* symbol (TradeLifecycle!OneOpenRowPerSymbol).
HealInit ==
  /\ routed \in SUBSET Exchanges
  /\ held \in SUBSET Rows
  /\ \A t, u \in held : SameSymbol(t, u) => t = u
  /\ row = [t \in Rows |-> IF t \in held THEN "open" ELSE "none"]
  /\ manager = [t \in Rows |-> IF t \in held THEN "watching" ELSE "idle"]
  /\ breaker = [e \in Exchanges |-> [state |-> "none", failures |-> 0, left |-> 0]]
  /\ recon = ReconIdle
  /\ health = [pc |-> "idle"]
  /\ healFaults = 0

HealFault == healFaults < MaxHealFaults /\ healFaults' = healFaults + 1

-----------------------------------------------------------------------------
(***************************************************************************)
(* The trade manager and the exchange                                      *)
(***************************************************************************)
\* One trade of a symbol at a time; the fill comes before the row.
Fill(t) ==
  /\ manager[t] = "idle" /\ ExchangeOf[t] \in routed
  /\ \A u \in Rows : SameSymbol(t, u) => row[u] # "open" /\ manager[u] # "filled"
  /\ held' = held \cup {t}
  /\ manager' = [manager EXCEPT ![t] = "filled"]
  /\ UNCHANGED <<row, breaker, recon, health, healFaults>>

Record(t) ==
  /\ manager[t] = "filled"
  /\ row' = [row EXCEPT ![t] = "open"]
  /\ manager' = [manager EXCEPT ![t] = "watching"]
  /\ UNCHANGED <<held, breaker, recon, health, healFaults>>

\* The close order is filled and its booking still to come.
Sell(t) ==
  /\ manager[t] = "watching" /\ t \in held /\ ExchangeOf[t] \in routed
  /\ held' = held \ {t}
  /\ manager' = [manager EXCEPT ![t] = "sold"]
  /\ UNCHANGED <<row, breaker, recon, health, healFaults>>

\* close_trade takes a row only while it is open.
Closed(t, how) == [row EXCEPT ![t] = IF @ = "open" THEN how ELSE @]

BookSale(t) ==
  /\ manager[t] = "sold"
  /\ row' = Closed(t, "closed")
  /\ manager' = [manager EXCEPT ![t] = "done"]
  /\ UNCHANGED <<held, breaker, recon, health, healFaults>>

\* The exchange's own stop order fires, or somebody closes the position there.
Vanish(t) ==
  /\ t \in held
  /\ held' = held \ {t}
  /\ UNCHANGED <<row, manager, breaker, recon, health, healFaults>>

Trading ==
  /\ \E t \in Rows : Fill(t) \/ Record(t) \/ Sell(t) \/ BookSale(t) \/ Vanish(t)
  /\ UNCHANGED routed

-----------------------------------------------------------------------------
(***************************************************************************)
(* Circuit breaker                                                         *)
(***************************************************************************)
FailedBackingOff(b) ==
  LET n == b.failures + 1
  IN  IF n >= FailureThreshold
      THEN [state |-> "open", failures |-> n, left |-> RecoveryTimeout * n]
      ELSE [b EXCEPT !.state = "closed", !.failures = n]

Failed(b) ==
  LET n == b.failures + 1
  IN  IF n >= FailureThreshold
      THEN [state |-> "open", failures |-> n, left |-> RecoveryTimeout]
      ELSE [state |-> IF b.state = "none" THEN "closed" ELSE b.state,
            failures |-> n, left |-> b.left]

NeverExpired(b) == FALSE

Expired(b) == b.state = "open" /\ b.left = 0

\* What both loops do to an open breaker whose time is over.
Tried(b) == IF Expired(b) THEN [b EXCEPT !.state = "half_open"] ELSE b

Recovered(b) == [state |-> "closed", failures |-> 0, left |-> 0]

\* Time passes for the breakers that are open.
Tick ==
  /\ \E e \in Exchanges : breaker[e].left > 0
  /\ breaker' = [e \in Exchanges |->
                  [breaker[e] EXCEPT !.left = IF @ > 0 THEN @ - 1 ELSE 0]]
  /\ UNCHANGED <<routed, held, row, manager, recon, health, healFaults>>

-----------------------------------------------------------------------------
(***************************************************************************)
(* Reconciliation                                                          *)
(***************************************************************************)
ReadRows ==
  /\ recon.pc = "idle"
  /\ LET open == {t \in Rows : row[t] = "open"}
     IN  /\ open # {}
         /\ recon' = [pc |-> "check", rows |-> open, found |-> {},
                      todo |-> {ExchangeOf[t] : t \in open}]
  /\ UNCHANGED <<held, row, manager, breaker, health, healFaults>>

\* An exchange whose breaker is open is passed over; one whose breaker has
\* been open for long enough is tried.
CheckExchange(e) ==
  /\ recon.pc = "check" /\ e \in recon.todo
  /\ breaker' = [breaker EXCEPT ![e] = Tried(@)]
  /\ recon' =
       IF breaker[e].state = "open" /\ ~Expired(breaker[e])
       THEN [recon EXCEPT !.todo = @ \ {e}]
       ELSE [pc |-> "fetch", rows |-> recon.rows, todo |-> recon.todo \ {e},
             found |-> recon.found, at |-> e]
  /\ UNCHANGED <<held, row, manager, health, healFaults>>

ReconGoesOn(found) ==
  recon' = [pc |-> "check", rows |-> recon.rows, todo |-> recon.todo,
            found |-> found]

\* An exchange that is not connected answers with no position at all.
Positions(e) == IF e \in routed THEN {u \in held : ExchangeOf[u] = e} ELSE {}

LocalOnly(e) ==
  {t \in recon.rows : /\ ExchangeOf[t] = e
                      /\ \A u \in Positions(e) : SymbolOf[u] # SymbolOf[t]}

FetchFailsEmpty ==
  /\ recon.pc = "fetch" /\ recon.at \in routed
  /\ HealFault
  /\ breaker' = [breaker EXCEPT ![recon.at] = Failed(@)]
  /\ ReconGoesOn(recon.found \cup {t \in recon.rows : ExchangeOf[t] = recon.at})
  /\ UNCHANGED <<held, row, manager, health>>

FetchPositions ==
  /\ recon.pc = "fetch"
  /\ ReconGoesOn(recon.found \cup LocalOnly(recon.at))
  /\ UNCHANGED <<held, row, manager, breaker, health, healFaults>>

FetchFails ==
  /\ recon.pc = "fetch" /\ recon.at \in routed
  /\ HealFault
  /\ breaker' = [breaker EXCEPT ![recon.at] = Failed(@)]
  /\ ReconGoesOn(recon.found)
  /\ UNCHANGED <<held, row, manager, health>>

\* Only when every exchange is done are the rows corrected.
BeginCorrection ==
  /\ recon.pc = "check" /\ recon.todo = {}
  /\ recon' = IF recon.found = {} THEN ReconIdle
              ELSE [recon EXCEPT !.pc = "correct"]
  /\ UNCHANGED <<held, row, manager, breaker, health, healFaults>>

\* close_trade, whose exception is caught: the row is left for the next pass.
CorrectRow(t) ==
  /\ recon.pc = "correct" /\ t \in recon.found
  /\ \/ row' = Closed(t, "reconciled") /\ UNCHANGED healFaults
     \/ HealFault /\ UNCHANGED row
  /\ recon' = IF recon.found = {t} THEN ReconIdle
              ELSE [recon EXCEPT !.found = @ \ {t}]
  /\ UNCHANGED <<held, manager, breaker, health>>

Reconciliation ==
  /\ \/ ReadRows
     \/ \E e \in Exchanges : CheckExchange(e)
     \/ FetchPositions \/ FetchFails
     \/ BeginCorrection
     \/ \E t \in Rows : CorrectRow(t)
  /\ UNCHANGED routed

-----------------------------------------------------------------------------
(***************************************************************************)
(* Health check.  It iterates over the dictionary of breakers with an      *)
(* await in the loop: a breaker entered meanwhile raises at the next step  *)
(* of the iteration and ends the pass.                                     *)
(***************************************************************************)
Breakers == {e \in Exchanges : breaker[e].state # "none"}

BeginHealthCheck ==
  /\ health.pc = "idle" /\ Breakers # {}
  /\ health' = [pc |-> "scan", keys |-> Breakers, todo |-> Breakers]
  /\ UNCHANGED <<held, row, manager, breaker, recon, healFaults>>

LookAt(e) ==
  /\ health.pc = "scan" /\ e \in health.todo /\ health.keys = Breakers
  /\ breaker' = [breaker EXCEPT ![e] = Tried(@)]
  /\ LET rest == health.todo \ {e}
     IN  health' = IF breaker'[e].state = "half_open"
                   THEN [pc |-> "ask", keys |-> health.keys, todo |-> rest, at |-> e]
                   ELSE [health EXCEPT !.todo = rest]
  /\ UNCHANGED <<held, row, manager, recon, healFaults>>

EndHealthCheck ==
  /\ health.pc = "scan" /\ (health.todo = {} \/ health.keys # Breakers)
  /\ health' = [pc |-> "idle"]
  /\ UNCHANGED <<held, row, manager, breaker, recon, healFaults>>

\* The answer counts whatever happened to the breaker while it was awaited.
AnswerHealth ==
  /\ health.pc = "ask"
  /\ \/ /\ health.at \in routed
        /\ breaker' = [breaker EXCEPT ![health.at] = Recovered(@)]
        /\ UNCHANGED healFaults
     \/ HealFault /\ UNCHANGED breaker
  /\ health' = [pc |-> "scan", keys |-> health.keys, todo |-> health.todo]
  /\ UNCHANGED <<held, row, manager, recon>>

(***************************************************************************)
(* The commands of the administrator                                       *)
(***************************************************************************)
\* reset_circuit_breaker
ResetBreaker(e) ==
  /\ breaker[e].state # "none"
  /\ breaker' = [breaker EXCEPT ![e] = Recovered(@)]
  /\ UNCHANGED <<held, row, manager, recon, health, healFaults>>

\* system_recover
RecoverAll ==
  /\ breaker' = [e \in Exchanges |->
       IF breaker[e].state \in {"open", "half_open"} THEN Recovered(breaker[e])
       ELSE breaker[e]]
  /\ UNCHANGED <<held, row, manager, recon, health, healFaults>>

Administrator ==
  /\ (\E e \in Exchanges : ResetBreaker(e)) \/ RecoverAll
  /\ UNCHANGED routed

HealthCheck ==
  /\ \/ BeginHealthCheck
     \/ \E e \in Exchanges : LookAt(e)
     \/ EndHealthCheck
     \/ AnswerHealth
  /\ UNCHANGED routed

-----------------------------------------------------------------------------
HealNext == Trading \/ Tick \/ Reconciliation \/ HealthCheck \/ Administrator

HealSpec == HealInit /\ [][HealNext]_healVars

\* Both loops catch every exception, sleep and go on; time passes.
HealFairness ==
  WF_healVars(Reconciliation) /\ WF_healVars(HealthCheck) /\ WF_healVars(Tick)

-----------------------------------------------------------------------------
(***************************************************************************)
(* Properties                                                              *)
(***************************************************************************)

\* Reconciliation closes a row only when the exchange holds no position for
\* it, although trades are opened and closed between the read of the rows,
\* the read of the positions and the correction.  Except at an exchange that
\* is not connected: its rows are closed while their positions are held.
ReconciledWereGone ==
  \A t \in Rows :
    row[t] = "reconciled" => t \notin held \/ ExchangeOf[t] \notin routed

\* A breaker lets requests through without trial only while fewer failures
\* than the threshold were counted since it recovered, whatever the order in
\* which the two loops fail, try and recover.
ClosedBelowThreshold ==
  \A e \in Exchanges :
    breaker[e].state \in {"none", "closed"} <=> breaker[e].failures < FailureThreshold

\* Where an exchange is connected, neither correction nor breaker acts on what
\* interleaving only makes look so.
HealingIsSafe == ReconciledWereGone /\ ClosedBelowThreshold

\* A row whose position is gone is closed in the end: failing calls, an open
\* breaker and other exchanges only put it off.
VanishedRowsReconciled ==
  \A t \in Rows : row[t] = "open" /\ t \notin held ~> row[t] # "open"

\* An opened breaker closes again once the exchange answers.
BreakersRecover ==
  \A e \in Exchanges : breaker[e].state = "open" ~> breaker[e].state = "closed"

\* Failures put reconciliation and requests off; they never end them.
HealingGoesOn == VanishedRowsReconciled /\ BreakersRecover

=============================================================================
