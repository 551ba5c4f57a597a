----------------------------- MODULE MCEngineBus -----------------------------
(***************************************************************************)
(* An instance of the strategy engine and of the event bus, for TLC.  They *)
(* share no state, so one of them runs in a behaviour (part says which)    *)
(* and the other stays in its initial state; fairness is asked of the one  *)
(* that runs.                                                              *)
(***************************************************************************)
EXTENDS CandidatePool, EventBus

VARIABLE part

allVars == <<part, vars, busVars>>

MCStrategies == <<"short_overbought", "long_oversold">>

\* The pre-check and the trade manager share a channel.
MCHandlers  == {"precheck", "manager", "closed"}
MCChannels  == {"signal.triggered", "trade.closed"}
MCChannelOf ==
  [h \in MCHandlers |-> IF h = "closed" THEN "trade.closed" ELSE "signal.triggered"]

AllInit == part \in {"engine", "bus"} /\ Init /\ BusInit

Engine == part = "engine" /\ Next
Bus    == part = "bus" /\ BusNext

AllNext ==
  \/ Engine /\ UNCHANGED <<part, busVars>>
  \/ Bus /\ UNCHANGED <<part, vars>>

AllSpec ==
  /\ AllInit /\ [][AllNext]_allVars
  /\ WF_vars(part = "engine" /\ ScanLoop)
  /\ WF_vars(part = "engine" /\ ConfirmLoop)
  /\ WF_busVars(part = "bus" /\ Listen)
  /\ \A h \in Handlers : WF_busVars(part = "bus" /\ Answer(h))

-----------------------------------------------------------------------------
\* Engine and bus keep their variables to their types.
EngineBusTypeOK == TypeOK /\ BusTypeOK

=============================================================================
