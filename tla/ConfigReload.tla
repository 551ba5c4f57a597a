----------------------------- MODULE ConfigReload -----------------------------
(***************************************************************************)
(* The reload of configuration files.  The manager runs in the process of  *)
(* the web application, once somebody has asked for its status; the risk   *)
(* service runs in the trading process and hears of a reload by an event.  *)
(* Each process keeps the settings it has read in a cache of its own.      *)
(*                                                                         *)
(* Settings are known by the version of the file they were read from;      *)
(* Defaults stands for those without the file.  An editor empties the file *)
(* and then writes it: a file read in between is not YAML of any version.  *)
(***************************************************************************)
EXTENDS Integers

CONSTANTS
  MaxEdits,           \* bound on edits
  MaxConfigRestarts   \* bound on restarts of each process

ASSUME ConfigAssumption == MaxEdits \in Nat /\ MaxConfigRestarts \in Nat

VARIABLES
  file,            \* its version, modification time, and whether it is whole
  cached,          \* get_settings() of the web and of the trading process
  watch,           \* the manager: where it is and the time it knows, or -1
  notices,         \* CONFIG_RELOADED events on their way
  riskSettings,    \* self.settings of the risk service
  configRestarts

configVars == <<file, cached, watch, notices, riskSettings, configRestarts>>

-----------------------------------------------------------------------------
Defaults == -1

Versions == Defaults..MaxEdits

\* Among the types: there is no more than one notice for each change of the
\* file's time, whatever the order of edits, restarts and checks.
ConfigTypeOK ==
  /\ file \in [version : 0..MaxEdits, time : 0..(2 * MaxEdits), whole : BOOLEAN]
  /\ cached \in [{"web", "trading"} -> Versions]
  /\ watch \in [pc : {"absent"}, known : {-1}]
       \cup [pc : {"sleep", "reload", "publish"}, known : 0..(2 * MaxEdits)]
  /\ notices \in 0..(2 * MaxEdits)
  /\ riskSettings \in Versions
  /\ configRestarts \in [{"web", "trading"} -> 0..MaxConfigRestarts]

ConfigInit ==
  /\ file = [version |-> 0, time |-> 0, whole |-> TRUE]
  /\ cached = [p \in {"web", "trading"} |-> 0]
  /\ watch = [pc |-> "absent", known |-> -1]
  /\ notices = 0
  /\ riskSettings = 0
  /\ configRestarts = [p \in {"web", "trading"} |-> 0]

\* load_yaml_overrides passes over a file that it cannot read.
Loaded == IF file.whole THEN file.version ELSE Defaults

-----------------------------------------------------------------------------
BeginEdit ==
  /\ file.whole /\ file.version < MaxEdits
  /\ file' = [file EXCEPT !.time = @ + 1, !.whole = FALSE]
  /\ UNCHANGED <<cached, watch, notices, riskSettings, configRestarts>>

EndEdit ==
  /\ ~file.whole
  /\ file' = [version |-> file.version + 1, time |-> file.time + 1, whole |-> TRUE]
  /\ UNCHANGED <<cached, watch, notices, riskSettings, configRestarts>>

\* A process reads the file anew when it starts.
RestartWeb ==
  /\ configRestarts["web"] < MaxConfigRestarts
  /\ configRestarts' = [configRestarts EXCEPT !["web"] = @ + 1]
  /\ cached' = [cached EXCEPT !["web"] = Loaded]
  /\ watch' = [pc |-> "absent", known |-> -1]
  /\ UNCHANGED <<file, notices, riskSettings>>

RestartTrading ==
  /\ configRestarts["trading"] < MaxConfigRestarts
  /\ configRestarts' = [configRestarts EXCEPT !["trading"] = @ + 1]
  /\ cached' = [cached EXCEPT !["trading"] = Loaded]
  /\ riskSettings' = Loaded
  /\ UNCHANGED <<file, watch, notices>>

-----------------------------------------------------------------------------
\* get_config_manager.  What was edited since the process has read the file
\* counts as known.
StartManager ==
  /\ watch.pc = "absent"
  /\ watch' = [pc |-> "sleep", known |-> file.time]
  /\ UNCHANGED <<file, cached, notices, riskSettings, configRestarts>>

\* The time is noted before the file is read.
CheckChanges ==
  /\ watch.pc = "sleep" /\ file.time > watch.known
  /\ watch' = [pc |-> "reload", known |-> file.time]
  /\ UNCHANGED <<file, cached, notices, riskSettings, configRestarts>>

ReloadSettings ==
  /\ watch.pc = "reload"
  /\ cached' = [cached EXCEPT !["web"] = Loaded]
  /\ watch' = [watch EXCEPT !.pc = "publish"]
  /\ UNCHANGED <<file, notices, riskSettings, configRestarts>>

\* publish() does not raise; the event may be lost.
Published == {notices, notices + 1}

NotedAfterwards == [pc |-> "sleep", known |-> file.time]

Afterwards == [watch EXCEPT !.pc = "sleep"]

PublishReload ==
  /\ watch.pc = "publish"
  /\ notices' \in Published
  /\ watch' = Afterwards
  /\ UNCHANGED <<file, cached, riskSettings, configRestarts>>

\* _on_config_reloaded asks the cache of its own process.
OnConfigReloaded ==
  /\ notices > 0
  /\ notices' = notices - 1
  /\ riskSettings' = cached["trading"]
  /\ UNCHANGED <<file, cached, watch, configRestarts>>

-----------------------------------------------------------------------------
Manager == CheckChanges \/ ReloadSettings \/ PublishReload

ConfigNext ==
  \/ BeginEdit \/ EndEdit \/ RestartWeb \/ RestartTrading
  \/ StartManager \/ Manager \/ OnConfigReloaded

ConfigSpec == ConfigInit /\ [][ConfigNext]_configVars

\* The watch loop catches every exception and goes on; an edit comes to an
\* end; the bus delivers.
ConfigFairness ==
  /\ WF_configVars(Manager) /\ WF_configVars(EndEdit)
  /\ WF_configVars(OnConfigReloaded)

-----------------------------------------------------------------------------
(***************************************************************************)
(* Properties                                                              *)
(***************************************************************************)

\* An edit that the manager has not seen yet reaches the settings of the web
\* process, although the file may be edited again between the look at its
\* time and the reading, or be read half written; a restart reads it as well,
\* unless the file was not whole then and no manager is started after.
EditsReachWeb ==
  (watch.pc # "absent" /\ file.time > watch.known)
    ~> (cached["web"] = file.version \/ watch.pc = "absent")

=============================================================================
