-------------------------- MODULE OptimisationLoop ---------------------------
(***************************************************************************)
(* The weekly loop around the walk-forward analysis, as it is shipped: it  *)
(* waits for the scheduled hour, asks the database for the closed trades   *)
(* with an argument that the query does not take, logs the exception and   *)
(* sleeps for an hour.  What a run would do with the trades (WalkForward)  *)
(* appears by its end only, for the case that there are enough of them.    *)
(***************************************************************************)
EXTENDS Integers

CONSTANT HoursPerWeek

VARIABLES
  hour,              \* hour of the week
  loop               \* where _wfa_loop is

loopVars == <<hour, loop>>

-----------------------------------------------------------------------------
\* The parameters of TradeRepository.get_closed, and the arguments it is
\* called with.  Python binds them before anything of the query runs.
Parameters == {"account_id", "exchange", "limit"}
Arguments  == {"since", "limit"}

Binds == Arguments \subseteq Parameters

ScheduledHour == hour = 0

LoopInit == hour = 0 /\ loop = "wait"

\* The sleep after an exception takes an hour.
HourPasses ==
  /\ hour' = (hour + 1) % HoursPerWeek
  /\ loop' = IF loop = "asleep" THEN "awake" ELSE loop

BeginRun ==
  /\ loop = "wait" /\ ScheduledHour
  /\ loop' = "fetch"
  /\ UNCHANGED hour

FetchRaises ==
  /\ loop = "fetch" /\ ~Binds
  /\ loop' = "asleep"
  /\ UNCHANGED hour

\* What would follow if the arguments were taken.
EndRun ==
  /\ loop = "fetch" /\ Binds
  /\ loop' = "recorded"
  /\ UNCHANGED hour

\* The loop goes on at once, and runs again while the hour lasts.
GoOn ==
  /\ loop \in {"recorded", "awake"}
  /\ loop' = "wait"
  /\ UNCHANGED hour

LoopNext == HourPasses \/ BeginRun \/ FetchRaises \/ EndRun \/ GoOn

\* The loop catches every exception, its calls return, time goes on, and the
\* loop looks at it once an hour.
LoopSpec ==
  /\ LoopInit /\ [][LoopNext]_loopVars
  /\ SF_loopVars(BeginRun) /\ WF_loopVars(FetchRaises \/ EndRun)
  /\ WF_loopVars(GoOn) /\ WF_loopVars(HourPasses)

-----------------------------------------------------------------------------
\* A weekly run comes to a result that is recorded, when the database answers
\* and there are trades enough for the analysis.
RunsRecorded == loop = "fetch" ~> loop = "recorded"

=============================================================================
