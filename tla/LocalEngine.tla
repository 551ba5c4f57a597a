----------------------------- MODULE LocalEngine ------------------------------
(***************************************************************************)
(* The engine of run_local.py: every tick it looks at each open trade, and *)
(* every few ticks it scans for signals and opens the best of them.  One   *)
(* task does all of it.                                                    *)
(*                                                                         *)
(* A price is known by what it means to a trade, a profit or a loss by a   *)
(* small number; the stake is in halves, as the first target books one of  *)
(* them.  Trades are looked at in any order, not only the order in which   *)
(* they were opened.                                                       *)
(***************************************************************************)
EXTENDS Integers, FiniteSets

CONSTANTS
  LocalSymbols,
  Places,            \* open trades there may be
  PerScan,           \* trades that one scan may open
  StartCapital,
  Amounts,           \* of a profit or a loss
  StreakLimit,       \* losses in a row that start a cooldown
  Cooldown,
  Expiry,            \* ticks after which a trade is closed
  ScanEvery,
  MaxTicks           \* bound on the clock

ASSUME LocalAssumption ==
  /\ IsFiniteSet(Places) /\ PerScan \in Nat /\ StartCapital \in Nat
  /\ Amounts \subseteq Nat /\ StreakLimit \in Nat \ {0} /\ Cooldown \in Nat
  /\ Expiry \in Nat /\ ScanEvery \in Nat \ {0} /\ MaxTicks \in Nat

VARIABLES
  tick,
  toManage,          \* trades not yet looked at in this tick
  scanned,           \* has this tick's scan been?
  trade,             \* _ot: place -> the trade or Closed
  capital,           \* _cap
  dayLost,              \* _dl
  streak,            \* _cl
  coolUntil,         \* _cd

  \* Observation that no action reads: the halves of the stake that the last
  \* trade of each place booked, and whether a stop booked them last.
  booked

localVars == <<tick, toManage, scanned, trade, capital, dayLost, streak, coolUntil, booked>>

-----------------------------------------------------------------------------
Closed == [sym |-> "none", tp1 |-> FALSE, opened |-> 0]

OpenPlaces == {p \in Places : trade[p] # Closed}

LocalTypeOK ==
  /\ tick \in 0..MaxTicks
  /\ toManage \subseteq OpenPlaces
  /\ scanned \in BOOLEAN
  /\ trade \in [Places -> {Closed} \cup
       [sym : LocalSymbols, tp1 : BOOLEAN, opened : 0..MaxTicks]]
  /\ capital \in Int
  /\ dayLost \in Nat
  /\ streak \in 0..(StreakLimit - 1)
  /\ coolUntil \in 0..(MaxTicks + Cooldown)
  /\ booked \in [Places -> [halves : 0..3, stopped : BOOLEAN]]

LocalInit ==
  /\ tick = 0 /\ toManage = {} /\ scanned = FALSE
  /\ trade = [p \in Places |-> Closed]
  /\ capital = StartCapital
  /\ dayLost = 0 /\ streak = 0 /\ coolUntil = 0
  /\ booked = [p \in Places |-> [halves |-> 0, stopped |-> FALSE]]

-----------------------------------------------------------------------------
(***************************************************************************)
(* _manage and _close                                                      *)
(***************************************************************************)
LocalTick ==
  /\ toManage = {} /\ tick < MaxTicks
  /\ tick' = tick + 1
  /\ toManage' = OpenPlaces
  /\ scanned' = FALSE
  /\ UNCHANGED <<trade, capital, dayLost, streak, coolUntil, booked>>

\* What the price means: at TP1, at TP2, beyond the stop, back from the best
\* price by enough for the trailing stop, or nothing.
Prices == {"tp1", "tp2", "stop", "back", "between"}

TakesTP1(p, price) == ~trade[p].tp1 /\ price \in {"tp1", "tp2"}

\* The reason for which a trade is closed, or "none".
Reason(p, price) ==
  IF price \in {"stop", "tp2"} THEN price
  ELSE IF price = "back" /\ trade[p].tp1 THEN "trail"
  ELSE IF tick - trade[p].opened > Expiry THEN "expire"
  ELSE "none"

HalvesOfTheWhole(p, price) ==
  IF Reason(p, price) = "none" THEN 0 ELSE 2

\* A stop books the whole stake, whatever TP1 has booked.
Halves(p, price) ==
  LET reason == Reason(p, price)
  IN  CASE reason = "none" -> 0
        [] reason = "stop" -> 2
        [] OTHER           -> IF trade[p].tp1 \/ TakesTP1(p, price) THEN 1 ELSE 2

Gains(reason) ==
  CASE reason = "stop" -> {-a : a \in Amounts}
    [] reason = "tp2"  -> Amounts
    [] OTHER           -> Amounts \cup {-a : a \in Amounts}

\* A trade that stays open, with or without its first target.
Hold(p, price) ==
  /\ p \in toManage /\ Reason(p, price) = "none"
  /\ toManage' = toManage \ {p}
  /\ IF TakesTP1(p, price)
     THEN /\ \E gain \in Amounts : capital' = capital + gain
          /\ streak' = 0
          /\ trade' = [trade EXCEPT ![p].tp1 = TRUE]
          /\ booked' = [booked EXCEPT ![p].halves = @ + 1]
     ELSE UNCHANGED <<capital, streak, trade, booked>>
  /\ UNCHANGED <<tick, scanned, dayLost, coolUntil>>

LossesAfter(pnl) == IF pnl < 0 THEN dayLost - pnl ELSE dayLost

Streak(pnl, before) == IF pnl >= 0 THEN 0 ELSE before + 1

Close(p, price) ==
  /\ p \in toManage /\ Reason(p, price) # "none"
  /\ toManage' = toManage \ {p}
  /\ trade' = [trade EXCEPT ![p] = Closed]
  /\ \E gain \in IF TakesTP1(p, price) THEN Amounts ELSE {0} :
       \E pnl \in Gains(Reason(p, price)) :
         LET losses == Streak(pnl, IF TakesTP1(p, price) THEN 0 ELSE streak)
         IN  /\ capital' = capital + gain + pnl
             /\ dayLost' = LossesAfter(pnl)
             /\ streak' = losses % StreakLimit
             /\ coolUntil' = IF losses = StreakLimit THEN tick + Cooldown ELSE coolUntil
  /\ booked' = [booked EXCEPT
       ![p] = [halves  |-> @.halves + Halves(p, price)
                             + (IF TakesTP1(p, price) THEN 1 ELSE 0),
               stopped |-> price = "stop"]]
  /\ UNCHANGED <<tick, scanned>>

-----------------------------------------------------------------------------
(***************************************************************************)
(* _scan and _open                                                         *)
(***************************************************************************)
\* 35 % of the capital of the moment, against all that was ever lost.
LossLimitReached == 100 * dayLost >= 35 * capital

MayOpen == tick >= coolUntil /\ ~LossLimitReached /\ capital >= 3

\* The symbols of open trades are looked up before the first trade of the scan
\* is opened: several strategies may have a signal for the same symbol.
Scan(new) ==
  /\ toManage = {} /\ ~scanned /\ tick % ScanEvery = 0 /\ MayOpen
  /\ scanned' = TRUE
  /\ new # {} /\ new \cap OpenPlaces = {}
  /\ Cardinality(new) <= PerScan
  /\ \E sym \in [new -> LocalSymbols \ {trade[p].sym : p \in OpenPlaces}] :
       trade' = [p \in Places |->
                   IF p \in new THEN [sym |-> sym[p], tp1 |-> FALSE, opened |-> tick]
                   ELSE trade[p]]
  /\ booked' = [p \in Places |->
                   IF p \in new THEN [halves |-> 0, stopped |-> FALSE] ELSE booked[p]]
  /\ UNCHANGED <<tick, toManage, capital, dayLost, streak, coolUntil>>

-----------------------------------------------------------------------------
LocalNext ==
  \/ LocalTick
  \/ \E p \in Places : \E price \in Prices : Hold(p, price) \/ Close(p, price)
  \/ \E new \in SUBSET Places : Scan(new)

LocalSpec == LocalInit /\ [][LocalNext]_localVars

-----------------------------------------------------------------------------
(***************************************************************************)
(* Properties                                                              *)
(***************************************************************************)

\* A trade books its stake once over its life, in halves or at one go, unless
\* the stop ends it after the first target: that books the whole stake again.
StakeBookedOnce ==
  \A p \in Places : booked[p].halves > 2 => booked[p].stopped

=============================================================================
