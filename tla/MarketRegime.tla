----------------------------- MODULE MarketRegime -----------------------------
(***************************************************************************)
(* The detector of the market's regime, the macro filter that turns the    *)
(* regime into multipliers, and the strategy engine that hears of changes. *)
(* Nothing in the repository creates a detector, and the filter is created *)
(* without one: detecting tells the two ways apart.                        *)
(*                                                                         *)
(* Multipliers are in tenths.  A detection that has no data changes        *)
(* nothing and is left out.                                                *)
(***************************************************************************)
EXTENDS Integers, Sequences

CONSTANTS
  Trends,            \* changes of the price of Bitcoin, in per cent
  MaxRegimeEvents    \* bound on events that wait

ASSUME RegimeAssumption == Trends \subseteq Int /\ MaxRegimeEvents \in Nat

VARIABLES
  detecting,         \* is there a detector that the filter knows?
  previous,          \* _previous_regime
  current,           \* _current_regime
  changing,          \* the regime being published, or "none"
  regimeEvents,      \* MARKET_REGIME_CHANGED on their way
  engineRegime,      \* _current_regime of the engine
  multiplier,        \* _regime_multiplier
  decision,          \* on the last confirmed signal

  \* Observation that no action reads: was the last change lost on its way, or
  \* the last event handled before the detector had put its change down?
  outrun

regimeVars == <<detecting, previous, current, changing, regimeEvents, engineRegime,
                multiplier, decision, outrun>>

-----------------------------------------------------------------------------
Regimes ==
  {"trending_up", "trending_down", "ranging", "high_vol", "crash", "recovery"}

Sides == {"SHORT", "LONG"}

Multipliers(regime) ==
  CASE regime = "trending_up"   -> [SHORT |-> 3,  LONG |-> 15]
    [] regime = "trending_down" -> [SHORT |-> 15, LONG |-> 3]
    [] regime = "high_vol"      -> [SHORT |-> 5,  LONG |-> 5]
    [] regime = "crash"         -> [SHORT |-> 0,  LONG |-> 0]
    [] regime = "recovery"      -> [SHORT |-> 5,  LONG |-> 12]
    [] OTHER                    -> [SHORT |-> 10, LONG |-> 10]

Undecided == [allow |-> TRUE, stake |-> 10]

\* Among the types: a stake of up to twice the usual one.
RegimeTypeOK ==
  /\ detecting \in BOOLEAN
  /\ {previous, current, changing} \subseteq Regimes \cup {"none"}
  /\ regimeEvents \in Seq(Regimes) /\ Len(regimeEvents) <= MaxRegimeEvents
  /\ engineRegime \in Regimes
  /\ multiplier \in [Sides -> 0..20]
  /\ decision \in [allow : BOOLEAN, stake : 0..20]
  /\ outrun \in BOOLEAN

RegimeInit ==
  /\ detecting \in BOOLEAN
  /\ previous = "none" /\ current = "none" /\ changing = "none"
  /\ regimeEvents = <<>>
  /\ engineRegime = "ranging"
  /\ multiplier = Multipliers("ranging")
  /\ decision = Undecided
  /\ outrun = FALSE

-----------------------------------------------------------------------------
(***************************************************************************)
(* The detector                                                            *)
(***************************************************************************)
\* A recovery is a rise right after a crash: a reading in between forgets it.
RecoveredFrom(trend) == previous = "crash" /\ trend > 0

\* The first of the tests that is passed.
Classified(trend, wild) ==
  IF trend < -8                THEN "crash"
  ELSE IF RecoveredFrom(trend) THEN "recovery"
  ELSE IF trend > 10           THEN "trending_up"
  ELSE IF wild                 THEN "high_vol"
  ELSE IF trend > 3            THEN "trending_up"
  ELSE IF trend < -3           THEN "trending_down"
  ELSE "ranging"

DetectSame(trend, wild) ==
  /\ detecting /\ changing = "none"
  /\ current = Classified(trend, wild)
  /\ previous' = current
  /\ UNCHANGED <<detecting, current, changing, regimeEvents, engineRegime, multiplier,
                 decision, outrun>>

\* The change is published first; the event may be lost.
DetectChange(trend, wild) ==
  /\ detecting /\ changing = "none"
  /\ current # Classified(trend, wild)
  /\ previous' = Classified(trend, wild)
  /\ changing' = Classified(trend, wild)
  /\ \/ /\ Len(regimeEvents) < MaxRegimeEvents
        /\ regimeEvents' = Append(regimeEvents, Classified(trend, wild))
        /\ UNCHANGED outrun
     \/ UNCHANGED regimeEvents /\ outrun' = TRUE
  /\ UNCHANGED <<detecting, current, engineRegime, multiplier, decision>>

PutDown ==
  /\ changing # "none"
  /\ current' = changing /\ changing' = "none"
  /\ UNCHANGED <<detecting, previous, regimeEvents, engineRegime, multiplier,
                 decision, outrun>>

-----------------------------------------------------------------------------
(***************************************************************************)
(* The operators' force_regime, the filter and the engine                  *)
(***************************************************************************)
ForceRegime(regime) ==
  /\ Len(regimeEvents) < MaxRegimeEvents
  /\ regimeEvents' = Append(regimeEvents, regime)
  /\ UNCHANGED <<detecting, previous, current, changing, engineRegime, multiplier,
                 decision, outrun>>

KnownRegime == IF detecting /\ current # "none" THEN current ELSE "ranging"

ByTheEvent(regime) == Multipliers(regime)

\* get_regime_multiplier asks the detector, whatever the event says.
ByTheDetector(regime) == Multipliers(KnownRegime)

OnRegimeChanged ==
  /\ regimeEvents # <<>>
  /\ regimeEvents' = Tail(regimeEvents)
  /\ engineRegime' = Head(regimeEvents)
  /\ multiplier' = ByTheDetector(Head(regimeEvents))
  /\ outrun' = (changing # "none")
  /\ UNCHANGED <<detecting, previous, current, changing, decision>>

\* evaluate, which the engine calls without external data.
Evaluated(side) ==
  [allow |-> KnownRegime # "crash", stake |-> Multipliers(KnownRegime)[side]]

ConfirmSignal(side) ==
  /\ decision' = Evaluated(side)
  /\ UNCHANGED <<detecting, previous, current, changing, regimeEvents, engineRegime,
                 multiplier, outrun>>

-----------------------------------------------------------------------------
RegimeNext ==
  \/ \E trend \in Trends : \E wild \in BOOLEAN :
       DetectSame(trend, wild) \/ DetectChange(trend, wild)
  \/ PutDown \/ OnRegimeChanged
  \/ \E regime \in Regimes : ForceRegime(regime)
  \/ \E side \in Sides : ConfirmSignal(side)

RegimeSpec == RegimeInit /\ [][RegimeNext]_regimeVars

-----------------------------------------------------------------------------
(***************************************************************************)
(* Properties                                                              *)
(***************************************************************************)

\* When every event has been handled, the engine scores candidates by the
\* regime that its filter judges signals by, unless a change was lost or
\* overtook the detector: a regime that an operator forces is never that of
\* the scores, and without a detector the scores stay as they are.
ScoredAsJudged ==
  (regimeEvents = <<>> /\ changing = "none" /\ ~outrun)
    => multiplier = Multipliers(KnownRegime)

=============================================================================
