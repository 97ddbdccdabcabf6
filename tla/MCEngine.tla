------------------------------- MODULE MCEngine -------------------------------
(* The process for TLC: its start, its windows and its end, one of them at *)
(* a time.                                                                 *)
EXTENDS Naturals, Sequences

CONSTANTS
  NoOne, Turn,
  overlay, loop, worker, MaxConns, MaxEvents,
  Main, Handler, None, jobs, index, speech, MaxTurns

VARIABLES
  part,
  sequential, autostart, task, phase, model, holder, place, loads, server, answers, handle, ending,
  dlg, notice, tasks, told, reach, clients, conn, open, handler, lost, up, down, setting, setBy,
  events, shown,
  requested, cleaned, main, at, done, turn, turns, queue, writing, draining, dropped, cleaner

suVars == <<sequential, autostart, task, phase, model, holder, place, loads, server, answers, handle,
            ending>>
dbVars == <<dlg, notice, tasks, told, reach, clients, conn, open, handler, lost, up, down, setting,
            setBy, events, shown>>
shVars == <<requested, cleaned, main, at, done, turn, turns, queue, writing, draining, dropped,
            cleaner>>
vars == <<part, suVars, dbVars, shVars>>

\* Some of the steps that stop the other components.
Steps == <<jobs, index, speech>>

SU == INSTANCE Startup WITH
        at <- place, up <- answers, stopping <- ending, Critical <- {"wake_word", "stt"},
        Background <- {"stt_optional", "llm"}, Sequential <- BOOLEAN, Autostart <- {TRUE}
DB == INSTANCE DesktopBridge WITH Windows <- {overlay}, Turners <- {loop, worker}
SH == INSTANCE Shutdown

\* The threads are different ones, and neither a thread nor a step is what stands for none.
ASSUME EngineAssumption ==
  /\ NoOne \notin SU!Threads /\ Turn \notin SU!Tasks
  /\ Main # Handler /\ None \notin {Main, Handler} /\ None \notin Seq({"start", jobs, index, speech})
  /\ "start" \notin {jobs, index, speech}
  /\ MaxTurns \in Nat /\ MaxConns \in Nat

Init ==
  /\ part \in {"startup", "bridge", "shutdown"}
  /\ SU!Init /\ DB!Init /\ SH!Init
  /\ part # "startup" => sequential /\ server = "none"

OfStartup(A)  == part = "startup" /\ A /\ UNCHANGED <<part, dbVars, shVars>>
OfBridge(A)   == part = "bridge" /\ A /\ UNCHANGED <<part, suVars, shVars>>
OfShutdown(A) == part = "shutdown" /\ A /\ UNCHANGED <<part, suVars, dbVars>>

Next == OfStartup(SU!Next) \/ OfBridge(DB!Next) \/ OfShutdown(SH!Next)

\* Every thread that can go on does: the tasks of the start and the turns that load, the loop
\* of the bridge and its window, the threads of the shutdown and the turn they wait for.
Fairness ==
  /\ WF_vars(OfStartup(SU!Works)) /\ WF_vars(OfBridge(DB!Works))
  /\ WF_vars(OfShutdown(SH!HandlerWorks)) /\ WF_vars(OfShutdown(SH!MainWorks))
  /\ WF_vars(OfShutdown(SH!TurnEnds))

Spec == Init /\ [][Next]_vars /\ Fairness

\* A window shows what it was told and what was chosen, see DesktopBridge.
WindowsFollow == DB!TypeOK /\ DB!ToldIsShown /\ DB!VisibleWhileActive /\ DB!ChoiceIsEngines /\ DB!KeeperIsGone

\* What is loaded, started and stopped is so once, and nothing is left: see Startup and Shutdown.
StartsAndStopsOnce ==
  /\ SU!TypeOK /\ SU!LoadedOnce /\ SU!OwnServerHeld
  /\ SH!TypeOK /\ SH!StoppedOnce /\ SH!NothingDropped

\* The start comes to listening, a window to its answer and a signal to the end of the process:
\* see Startup, DesktopBridge and Shutdown.
EngineGoesOn ==
  /\ part = "startup" => SU!ListeningComes
  /\ part = "startup" => SU!TurnGoesOn
  /\ DB!TypedIsAnswered /\ DB!DeadLeave
  /\ SH!ShutdownEnds
=============================================================================
