------------------------------ MODULE Shutdown -----------------------------
(***************************************************************************)
(* The end of the program: core/shutdown.py, the finally block of run() in *)
(* core/orchestrator.py, and the write queue of VectorMemoryStore that the *)
(* last step of the cleanup drains.                                        *)
(*                                                                         *)
(* Main runs the loop, Handler is the thread the signal handler starts (a  *)
(* daemon: it ends with the process), a turn runs in the thread pool, whose *)
(* threads the interpreter waits for, and Writer stores embeddings (also a *)
(* daemon).  The steps of the cleanup that stop other components are one   *)
(* step each; what they do is in the modules of those components.          *)
(***************************************************************************)
EXTENDS Naturals, Sequences, FiniteSets

CONSTANTS
  Main, Handler, None,
  Steps,      \* the steps of the cleanup before the drain, in order
  MaxTurns    \* turns of the conversation; each may leave something to remember

Cleaners == {Main, Handler}

VARIABLES
  requested,  \* _shutdown_event
  cleaned,    \* _cleanup_done
  main,       \* "loop", "finally", "exit", "ended"
  at,         \* cleaner -> steps it has still to do, or None
  done,       \* steps done, in order
  turn,       \* a turn is under way in the pool
  turns,
  queue,      \* _write_queue, as the number of items
  writing,    \* the worker has taken an item and not finished it
  draining,   \* who waits in drain()
  dropped,    \* HISTORY: why writes may be pending when the process ends
  cleaner     \* HISTORY: who cleans

shVars == <<requested, cleaned, main, at, done, turn, turns, queue, writing, draining, dropped, cleaner>>

Init ==
  /\ requested = FALSE /\ cleaned = FALSE
  /\ main = "loop"
  /\ at = [t \in Cleaners |-> None]
  /\ done = <<>>
  /\ turn = FALSE /\ turns = 0
  /\ queue = 0 /\ writing = FALSE
  /\ draining = None
  /\ dropped = {} /\ cleaner = None

Alive == main # "ended"
memory == <<queue, writing>>
talk == <<turn, turns>>

(***************************************************************************)
(* A turn, and what it leaves to remember.                                 *)
(***************************************************************************)
TurnStarts ==
  /\ main = "loop" /\ ~turn /\ turns < MaxTurns
  /\ turn' = TRUE /\ turns' = turns + 1
  /\ UNCHANGED <<requested, cleaned, main, at, done, memory, draining, dropped, cleaner>>

TurnEnds ==
  /\ Alive /\ turn
  /\ turn' = FALSE
  /\ queue' \in {queue, queue + 1}
  /\ dropped' = IF queue' > queue /\ cleaner # None /\ at[cleaner] = None
                THEN dropped \cup {"late"} ELSE dropped
  /\ UNCHANGED <<requested, cleaned, main, at, done, turns, writing, draining, cleaner>>

TakeWrite ==
  /\ Alive /\ ~writing /\ queue > 0
  /\ queue' = queue - 1 /\ writing' = TRUE
  /\ UNCHANGED <<requested, cleaned, main, at, done, talk, draining, dropped, cleaner>>

EndWrite ==
  /\ Alive /\ writing
  /\ writing' = FALSE
  /\ UNCHANGED <<requested, cleaned, main, at, done, talk, queue, draining, dropped, cleaner>>

(***************************************************************************)
(* perform_shutdown_cleanup(): the first caller does the steps, each in a  *)
(* try block of its own; a second caller returns at once.                  *)
(***************************************************************************)

First == ~cleaned

Enter(t) ==
  IF First
  THEN /\ cleaned' = TRUE /\ requested' = TRUE
       /\ at' = [at EXCEPT ![t] = Steps]
       /\ cleaner' = t
  ELSE UNCHANGED <<cleaned, requested, at, cleaner>>

Step(t) ==
  /\ Alive /\ at[t] # None /\ at[t] # <<>>
  /\ done' = Append(done, Head(at[t]))
  /\ at' = [at EXCEPT ![t] = Tail(@)]
  /\ UNCHANGED <<requested, cleaned, main, talk, memory, draining, dropped, cleaner>>

\* drain() looks at the length of the queue only: an item the worker has taken is not in it.
Drains == queue > 0

Drain(t) ==
  /\ Alive /\ at[t] = <<>> /\ draining # t
  /\ IF Drains
     THEN draining' = t /\ UNCHANGED <<at, dropped>>
     ELSE /\ at' = [at EXCEPT ![t] = None]
          /\ dropped' = IF writing THEN dropped \cup {"in flight"} ELSE dropped
          /\ UNCHANGED draining
  /\ UNCHANGED <<requested, cleaned, main, done, talk, memory, cleaner>>

\* queue.join() returns, or its two seconds are over.
Drained(t) ==
  /\ Alive /\ draining = t
  /\ draining' = None
  /\ at' = [at EXCEPT ![t] = None]
  /\ dropped' = IF queue > 0 \/ writing THEN dropped \cup {"timeout"} ELSE dropped
  /\ UNCHANGED <<requested, cleaned, main, done, talk, memory, cleaner>>

(***************************************************************************)
(* handle_exit() starts the handler's thread once; _deferred_shutdown().   *)
(***************************************************************************)
Signal ==
  /\ Alive /\ ~requested
  /\ requested' = TRUE
  /\ at' = [at EXCEPT ![Handler] = <<"start">>]
  /\ UNCHANGED <<cleaned, main, done, talk, memory, draining, dropped, cleaner>>

HandlerStarts ==
  /\ Alive /\ at[Handler] = <<"start">>
  /\ IF First
     THEN /\ cleaned' = TRUE /\ requested' = TRUE /\ cleaner' = Handler
          /\ at' = [at EXCEPT ![Handler] = Steps]
     ELSE at' = [at EXCEPT ![Handler] = None] /\ UNCHANGED <<cleaned, requested, cleaner>>
  /\ UNCHANGED <<main, done, talk, memory, draining, dropped>>

(***************************************************************************)
(* run(): the loop ends on the event, or with the text fallback or an      *)
(* exception; the finally block cleans up; the interpreter then waits for  *)
(* the pool and ends the daemons.                                          *)
(***************************************************************************)

LeaveLoop(event) ==
  /\ main = "loop"
  /\ event = requested
  /\ main' = "finally"
  /\ UNCHANGED <<requested, cleaned, at, done, talk, memory, draining, dropped, cleaner>>

MainCleans ==
  /\ main = "finally" /\ at[Main] = None
  /\ Enter(Main)
  /\ main' = "exit"
  /\ UNCHANGED <<done, talk, memory, draining, dropped>>

End ==
  /\ main = "exit" /\ at[Main] = None /\ ~turn
  /\ main' = "ended"
  /\ UNCHANGED <<requested, cleaned, at, done, talk, memory, draining, dropped, cleaner>>

HandlerWorks == \/ at[Handler] # <<"start">> /\ (Step(Handler) \/ Drain(Handler) \/ Drained(Handler))
                \/ HandlerStarts
MainWorks == LeaveLoop(TRUE) \/ MainCleans \/ Step(Main) \/ Drain(Main) \/ Drained(Main) \/ End
WriterWorks == TakeWrite \/ EndWrite

Next ==
  \/ TurnStarts \/ TurnEnds \/ WriterWorks
  \/ Signal \/ HandlerWorks \/ LeaveLoop(FALSE) \/ MainWorks

-----------------------------------------------------------------------------
TypeOK ==
  /\ main \in {"loop", "finally", "exit", "ended"}
  /\ Len(done) <= Len(Steps)
  /\ queue \in 0 .. MaxTurns
  /\ dropped \subseteq {"in flight", "timeout", "late"}

\* The components are stopped once, in order, whoever calls the cleanup first; and when the
\* process ends, either all are, or the signal's thread was still at it (the main thread
\* does not wait for a cleanup that has begun).
StoppedOnce ==
  /\ done = SubSeq(Steps, 1, Len(done))
  /\ main = "ended" => cleaned /\ (done = Steps \/ (cleaner = Handler /\ at[Handler] # None))

\* What is to be remembered is written before the process ends, unless the drain ran out of
\* its two seconds, found only an item the worker had already taken, came before the end of
\* the last turn, or was cut with the signal's thread.
NothingDropped ==
  main = "ended" /\ (queue > 0 \/ writing) => dropped # {} \/ at[Handler] # None

\* A signal ends the program.
ShutdownEnds == requested ~> main = "ended"
=============================================================================
