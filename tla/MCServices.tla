----------------------------- MODULE MCServices ------------------------------
(***************************************************************************)
(* An instance of the services and of the parts of the web application     *)
(* that are checked by themselves, for TLC.  They share no state: one of   *)
(* them runs in a behaviour (part says which) and the others stay in one   *)
(* initial state; fairness is asked of the one that runs.                  *)
(***************************************************************************)
EXTENDS SelfHealing, SmartOrder, DataFeed, EventChain, Monitoring,
        WalkForward, WebSessions, Accounts, ConfigReload, Broadcast,
        ProcessStop

VARIABLE part

serviceVars ==
  <<healVars, orderVars, feedVars, chainVars, monitorVars, wfaVars>>

webAppVars == <<webVars, accountVars, configVars, castVars>>

vars == <<part, serviceVars, webAppVars, stopVars>>

\* The same symbol on two exchanges.
MCRows       == {"t1", "t2"}
MCExchangeOf == [t \in MCRows |-> IF t = "t1" THEN "binance" ELSE "okx"]
MCSymbolOf   == [t \in MCRows |-> "BTC"]

Parts == {"healing", "order", "feed", "chain", "monitor", "wfa",
          "sessions", "accounts", "config", "cast", "stop"}

Init ==
  /\ part \in Parts
  /\ HealInit /\ (part # "healing" => held = {} /\ routed = {})
  /\ OrderInit /\ FeedInit /\ ChainInit /\ MonitorInit /\ WfaInit
  /\ WebInit /\ AccountsInit /\ ConfigInit /\ CastInit /\ StopInit

Services ==
  \/ /\ part = "healing" /\ HealNext
     /\ UNCHANGED <<orderVars, feedVars, chainVars, monitorVars, wfaVars>>
  \/ /\ part = "order" /\ OrderNext
     /\ UNCHANGED <<healVars, feedVars, chainVars, monitorVars, wfaVars>>
  \/ /\ part = "feed" /\ FeedNext
     /\ UNCHANGED <<healVars, orderVars, chainVars, monitorVars, wfaVars>>
  \/ /\ part = "chain" /\ ChainNext
     /\ UNCHANGED <<healVars, orderVars, feedVars, monitorVars, wfaVars>>
  \/ /\ part = "monitor" /\ MonitorNext
     /\ UNCHANGED <<healVars, orderVars, feedVars, chainVars, wfaVars>>
  \/ /\ part = "wfa" /\ WfaNext
     /\ UNCHANGED <<healVars, orderVars, feedVars, chainVars, monitorVars>>

WebApp ==
  \/ part = "sessions" /\ WebNext /\ UNCHANGED <<accountVars, configVars, castVars>>
  \/ part = "accounts" /\ AccountsNext /\ UNCHANGED <<webVars, configVars, castVars>>
  \/ part = "config" /\ ConfigNext /\ UNCHANGED <<webVars, accountVars, castVars>>
  \/ part = "cast" /\ CastNext /\ UNCHANGED <<webVars, accountVars, configVars>>

Process == part = "stop" /\ StopNext

Next ==
  \/ Services /\ UNCHANGED <<part, webAppVars, stopVars>>
  \/ WebApp   /\ UNCHANGED <<part, serviceVars, stopVars>>
  \/ Process  /\ UNCHANGED <<part, serviceVars, webAppVars>>

\* HealFairness to StopFairness ask nothing of a part that stays in its
\* initial state.
Spec ==
  /\ Init /\ [][Next]_vars
  /\ HealFairness /\ OrderFairness /\ FeedFairness /\ ChainFairness
  /\ MonitorFairness /\ StopFairness
  /\ WF_configVars(part = "config" /\ Manager)
  /\ WF_configVars(part = "config" /\ EndEdit)
  /\ WF_configVars(part = "config" /\ OnConfigReloaded)

-----------------------------------------------------------------------------
\* Every part keeps its variables to their types.
ServicesTypeOK ==
  /\ HealTypeOK /\ OrderTypeOK /\ FeedTypeOK /\ ChainTypeOK /\ MonitorTypeOK /\ WfaTypeOK
  /\ WebTypeOK /\ AccountsTypeOK /\ ConfigTypeOK /\ CastTypeOK /\ StopTypeOK

=============================================================================
