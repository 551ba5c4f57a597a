------------------------------ MODULE Monitoring ------------------------------
(***************************************************************************)
(* The monitoring service: its health loop checks the database, the data   *)
(* feed and the event bus, publishes what it found, and panics when a      *)
(* critical component failed.  The execution router sells every position   *)
(* when it hears the panic (TradeLifecycle!Panic).                         *)
(*                                                                         *)
(* Its other loop reads the open rows and does nothing with them, and      *)
(* nothing calls recover_from_circuit_breaker; neither is an action here.  *)
(***************************************************************************)
EXTENDS Integers

CONSTANT MaxOutages     \* bound on outages of each component

ASSUME MonitorAssumption == MaxOutages \in Nat

VARIABLES
  up,             \* the components that are up; "redis" carries the events
  outages,
  pass,           \* _run_health_checks: where it is, what it found
  active,         \* _circuit_breaker_active
  overall,        \* _health_status

  \* Observations that no action reads.
  panics,         \* panics published, and those the router heard
  failedSince     \* has the database been seen down since the start?

monitorVars == <<up, outages, pass, active, overall, panics, failedSince>>

-----------------------------------------------------------------------------
Components == {"database", "datafeed", "redis"}

\* The checks in the order of the dictionary.
Steps == {"stopped", "sleep", "database", "datafeed", "event_bus", "publish", "breaker"}

MonitorTypeOK ==
  /\ up \subseteq Components
  /\ outages \in [Components -> 0..MaxOutages]
  /\ pass \in [pc : Steps, failed : SUBSET {"database", "datafeed", "event_bus"}]
  /\ active \in BOOLEAN
  /\ overall \in {"unknown", "healthy", "degraded"}
  /\ panics \in [sent : Nat, heard : Nat]
  /\ failedSince \in BOOLEAN

MonitorInit ==
  /\ up = Components
  /\ outages = [c \in Components |-> 0]
  /\ pass = [pc |-> "stopped", failed |-> {}]
  /\ active = FALSE
  /\ overall = "unknown"
  /\ panics = [sent |-> 0, heard |-> 0]
  /\ failedSince = FALSE

GoDown(c) ==
  /\ c \in up /\ outages[c] < MaxOutages
  /\ up' = up \ {c}
  /\ outages' = [outages EXCEPT ![c] = @ + 1]
  /\ UNCHANGED <<pass, active, overall, panics, failedSince>>

ComeBack(c) ==
  /\ c \notin up
  /\ up' = up \cup {c}
  /\ UNCHANGED <<outages, pass, active, overall, panics, failedSince>>

-----------------------------------------------------------------------------
StartMonitor ==
  /\ pass.pc = "stopped"
  /\ pass' = [pass EXCEPT !.pc = "sleep"]
  /\ UNCHANGED <<up, outages, active, overall, panics, failedSince>>

BeginChecks ==
  /\ pass.pc = "sleep"
  /\ pass' = [pc |-> "database", failed |-> {}]
  /\ UNCHANGED <<up, outages, active, overall, panics, failedSince>>

CheckDatabase ==
  /\ pass.pc = "database"
  /\ pass' = [pc |-> "datafeed",
              failed |-> IF "database" \in up THEN {} ELSE {"database"}]
  /\ failedSince' = (failedSince \/ "database" \notin up)
  /\ UNCHANGED <<up, outages, active, overall, panics>>

\* The data feed reports no "status", and _is_healthy finds it failed whether
\* its exchanges are connected or not.
CheckDatafeed ==
  /\ pass.pc = "datafeed"
  /\ pass' = [pc |-> "event_bus", failed |-> pass.failed \cup {"datafeed"}]
  /\ UNCHANGED <<up, outages, active, overall, panics, failedSince>>

\* is_running is TRUE from start() to stop(), whatever becomes of Redis.
CheckEventBus ==
  /\ pass.pc = "event_bus"
  /\ pass' = [pass EXCEPT !.pc = "publish"]
  /\ UNCHANGED <<up, outages, active, overall, panics, failedSince>>

Overall == IF pass.failed = {} THEN "healthy" ELSE "degraded"

PublishHealth ==
  /\ pass.pc = "publish"
  /\ overall' = Overall
  /\ pass' = IF pass.failed = {} THEN [pc |-> "sleep", failed |-> {}]
             ELSE [pass EXCEPT !.pc = "breaker"]
  /\ UNCHANGED <<up, outages, active, panics, failedSince>>

BusOnly == {"event_bus"}

Critical == {"database", "event_bus"}

\* The flag is set before the panic is published; publish() does not raise.
CheckBreaker ==
  /\ pass.pc = "breaker"
  /\ IF pass.failed \cap Critical # {} /\ ~active
     THEN /\ active' = TRUE
          /\ panics' = [sent |-> panics.sent + 1,
                        heard |-> panics.heard + IF "redis" \in up THEN 1 ELSE 0]
     ELSE UNCHANGED <<active, panics>>
  /\ pass' = [pc |-> "sleep", failed |-> {}]
  /\ UNCHANGED <<up, outages, overall, failedSince>>

HealthLoop ==
  BeginChecks \/ CheckDatabase \/ CheckDatafeed \/ CheckEventBus \/ PublishHealth
    \/ CheckBreaker

MonitorNext ==
  (\E c \in Components : GoDown(c) \/ ComeBack(c)) \/ StartMonitor \/ HealthLoop

MonitorSpec == MonitorInit /\ [][MonitorNext]_monitorVars

\* The loop catches every exception, sleeps and goes on.
MonitorFairness == WF_monitorVars(HealthLoop)

-----------------------------------------------------------------------------
(***************************************************************************)
(* Properties                                                              *)
(***************************************************************************)

\* The panic sells every position: it is sent only after the database was
\* found down, and once at most, however often the database comes and goes.
PanicsOnceWithReason == panics.sent <= IF failedSince THEN 1 ELSE 0

\* A database that stays down makes the running service panic.
OutagePanics ==
  <>[](pass.pc # "stopped" /\ "database" \notin up) => <>(panics.sent > 0)

\* The panic comes when it has to, and only then.
PanicsRightly == []PanicsOnceWithReason /\ OutagePanics

=============================================================================
