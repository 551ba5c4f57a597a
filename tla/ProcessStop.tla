----------------------------- MODULE ProcessStop ------------------------------
(***************************************************************************)
(* The start and the stop of the trading process.  A signal starts a task  *)
(* that stops the system; the main task sees that it no longer runs and    *)
(* stops it as well.  All stops are tasks of one asyncio loop: each runs   *)
(* from one await to the next.  The process ends with the main task.       *)
(*                                                                         *)
(* get_event_bus() makes a bus when there is none, also in the stop of a   *)
(* service.  A bus is known by a number, 0 stands for None.                *)
(***************************************************************************)
EXTENDS Integers, FiniteSets, Sequences, SequencesExt

CONSTANT Signals     \* the signals that may arrive

ASSUME StopAssumption == IsFiniteSet(Signals) /\ "main" \notin Signals

VARIABLES
  life,              \* of the process
  listening,         \* services whose handlers the first bus calls
  looping,           \* services whose tasks run
  theBus,            \* _bus
  busTasks,          \* buses whose listener runs
  busesMade,
  dbOpen,
  stopper            \* each stop, by the signal or by the main task

stopVars ==
  <<life, listening, looping, theBus, busTasks, busesMade, dbOpen, stopper>>

-----------------------------------------------------------------------------
StartOrder ==
  <<"datafeed", "router", "risk", "trade", "strategy", "monitor", "optimization">>

OrderOfTheStart == StartOrder

StopOrder == Reverse(StartOrder)

ServiceNames == Range(StartOrder)

Subscribers == {"router", "risk", "trade", "strategy"}

WithTasks == ServiceNames \ {"datafeed", "router"}

Stoppers == Signals \cup {"main"}

NotStopping == [pc |-> "none", at |-> 0, bus |-> 0]

StopTypeOK ==
  /\ life \in [pc : {"starting"}, at : 0..Len(StartOrder)]
       \cup [pc : {"running", "stopping", "ended", "failed"}]
  /\ listening \subseteq Subscribers
  /\ looping \subseteq WithTasks
  /\ theBus \in 0..busesMade
  /\ busTasks \subseteq 1..busesMade
  /\ busesMade \in 1..(Cardinality(Stoppers) + 1)
  /\ dbOpen \in BOOLEAN
  /\ stopper \in [Stoppers -> [at : 0..Len(StopOrder), bus : 0..busesMade,
       pc : {"none", "service", "connect", "unsubscribe", "cancel", "bus", "closing",
             "db", "done"}]]

\* main.py has opened the database and the bus.
StopInit ==
  /\ life = [pc |-> "starting", at |-> 0]
  /\ listening = {} /\ looping = {}
  /\ theBus = 1 /\ busTasks = {1} /\ busesMade = 1
  /\ dbOpen = TRUE
  /\ stopper = [t \in Stoppers |-> NotStopping]

-----------------------------------------------------------------------------
(***************************************************************************)
(* NexusSystem.start and run                                               *)
(***************************************************************************)
\* A service subscribes and then starts its tasks.
StartService ==
  /\ life.pc = "starting" /\ life.at < Len(StartOrder)
  /\ LET s == StartOrder[life.at + 1]
     IN  /\ listening' = listening \cup ({s} \cap Subscribers)
         /\ looping' = looping \cup ({s} \cap WithTasks)
  /\ life' = [life EXCEPT !.at = @ + 1]
  /\ UNCHANGED <<theBus, busTasks, busesMade, dbOpen, stopper>>

\* A failing start ends the process: nothing is stopped.
StartFails ==
  /\ life.pc = "starting"
  /\ life' = [pc |-> "failed"]
  /\ UNCHANGED <<listening, looping, theBus, busTasks, busesMade, dbOpen, stopper>>

Started ==
  /\ life = [pc |-> "starting", at |-> Len(StartOrder)]
  /\ life' = [pc |-> "running"]
  /\ UNCHANGED <<listening, looping, theBus, busTasks, busesMade, dbOpen, stopper>>

BeginStop == [pc |-> "service", at |-> 1, bus |-> 0]

\* The handler of a signal, which stays in place.
SignalArrives(t) ==
  /\ life.pc \in {"running", "stopping"} /\ stopper[t] = NotStopping
  /\ life' = [pc |-> "stopping"]
  /\ stopper' = [stopper EXCEPT ![t] = BeginStop]
  /\ UNCHANGED <<listening, looping, theBus, busTasks, busesMade, dbOpen>>

MainStops ==
  /\ life.pc = "stopping" /\ stopper["main"] = NotStopping
  /\ stopper' = [stopper EXCEPT !["main"] = BeginStop]
  /\ UNCHANGED <<life, listening, looping, theBus, busTasks, busesMade, dbOpen>>

-----------------------------------------------------------------------------
(***************************************************************************)
(* NexusSystem.stop                                                        *)
(***************************************************************************)
Stopping(t) == StopOrder[stopper[t].at]

Moved(t, pc) == [stopper EXCEPT ![t].pc = pc]

NextService(t) ==
  IF stopper[t].at = Len(StopOrder) THEN Moved(t, "bus")
  ELSE [stopper EXCEPT ![t].pc = "service", ![t].at = @ + 1]

StopPlain(t) ==
  /\ stopper[t].pc = "service" /\ Stopping(t) \notin Subscribers
  /\ stopper' = Moved(t, "cancel")
  /\ UNCHANGED <<listening, looping, theBus, busTasks, busesMade>>

AskBus(t) ==
  /\ stopper[t].pc = "service" /\ Stopping(t) \in Subscribers
  /\ \/ /\ theBus # 0
        /\ stopper' = [stopper EXCEPT ![t].pc = "unsubscribe", ![t].bus = theBus]
        /\ UNCHANGED <<theBus, busesMade>>
     \/ /\ theBus = 0
        /\ busesMade' = busesMade + 1
        /\ theBus' = busesMade + 1
        /\ stopper' = [stopper EXCEPT ![t].pc = "connect", ![t].bus = busesMade + 1]
  /\ UNCHANGED <<listening, looping, busTasks>>

\* The end of the new bus's start().
Connect(t) ==
  /\ stopper[t].pc = "connect"
  /\ busTasks' = busTasks \cup {stopper[t].bus}
  /\ stopper' = Moved(t, "unsubscribe")
  /\ UNCHANGED <<listening, looping, theBus, busesMade>>

\* Another bus does not know the subscription.
StopListening(t) ==
  /\ stopper[t].pc = "unsubscribe"
  /\ listening' = IF stopper[t].bus = 1 THEN listening \ {Stopping(t)} ELSE listening
  /\ stopper' = Moved(t, "cancel")
  /\ UNCHANGED <<looping, theBus, busTasks, busesMade>>

\* The tasks have ended when the stop goes on.
AllCancelled(t) == looping \ {Stopping(t)}

StopTasks(t) ==
  /\ stopper[t].pc = "cancel"
  /\ looping' = AllCancelled(t)
  /\ stopper' = NextService(t)
  /\ UNCHANGED <<listening, theBus, busTasks, busesMade>>

\* A bus that was never started has no listener to stop.
CloseBus(t) ==
  /\ stopper[t].pc = "bus"
  /\ IF theBus = 0
     THEN stopper' = Moved(t, "db") /\ UNCHANGED busTasks
     ELSE stopper' = Moved(t, "closing") /\ busTasks' = busTasks \ {theBus}
  /\ UNCHANGED <<listening, looping, theBus, busesMade>>

\* Whichever bus _bus is by now.
ForgetBus(t) ==
  /\ stopper[t].pc = "closing"
  /\ theBus' = 0
  /\ stopper' = Moved(t, "db")
  /\ UNCHANGED <<listening, looping, busTasks, busesMade>>

StopStep(t) ==
  /\ life.pc = "stopping"
  /\ StopPlain(t) \/ AskBus(t) \/ Connect(t) \/ StopListening(t) \/ StopTasks(t)
       \/ CloseBus(t) \/ ForgetBus(t)
  /\ UNCHANGED <<life, dbOpen>>

EndsWithTheLastStop(t) ==
  IF \A u \in Stoppers \ {t} : stopper[u].pc \in {"none", "done"}
  THEN [pc |-> "ended"] ELSE life

EndsWithMain(t) == IF t = "main" THEN [pc |-> "ended"] ELSE life

CloseDb(t) ==
  /\ life.pc = "stopping" /\ stopper[t].pc = "db"
  /\ dbOpen' = FALSE
  /\ stopper' = Moved(t, "done")
  /\ life' = EndsWithMain(t)
  /\ UNCHANGED <<listening, looping, theBus, busTasks, busesMade>>

-----------------------------------------------------------------------------
MainTask == MainStops \/ StopStep("main") \/ CloseDb("main")

StopNext ==
  \/ StartService \/ StartFails \/ Started
  \/ MainStops
  \/ \E t \in Signals : SignalArrives(t)
  \/ \E t \in Stoppers : StopStep(t) \/ CloseDb(t)

StopSpec == StopInit /\ [][StopNext]_stopVars

\* The calls of a stop return.
StopFairness == WF_stopVars(MainTask)

-----------------------------------------------------------------------------
(***************************************************************************)
(* Properties                                                              *)
(***************************************************************************)

\* While the trade manager listens to signals, the risk service checks them
\* and the router carries out a panic; while the strategies signal, the trade
\* manager listens: through the start, and through stops that overtake each
\* other.
GuardedWhileTrading ==
  life.pc # "failed" =>
    /\ "trade" \in listening => {"risk", "router"} \subseteq listening
    /\ "strategy" \in looping => "trade" \in listening

\* However the stops overtake each other, the process ends with nothing that
\* listens or loops, with the database closed, and with no bus running but
\* one that a stop has made while another was closing the bus.
EndsClosed ==
  life.pc = "ended" =>
    listening = {} /\ looping = {} /\ ~dbOpen /\ 1 \notin busTasks

\* Stops that overtake each other neither leave a trader unguarded nor a
\* service behind.
StopsInOrder == GuardedWhileTrading /\ EndsClosed

\* The first signal ends the process, however many follow.
SignalEnds == (life.pc = "stopping") ~> (life.pc = "ended")

=============================================================================
