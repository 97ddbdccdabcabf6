------------------------------- MODULE Startup -------------------------------
(***************************************************************************)
(* From run() to "Jarvis ready" (core/orchestrator.py): the critical tasks, *)
(* one after the other on a small machine and at once on a larger one, the  *)
(* background tasks, the two speech models every thread may be the first    *)
(* to load (audio/stt.py), and the model server, which Jarvis starts if     *)
(* none answers and stops if it is the one it started.                      *)
(***************************************************************************)
EXTENDS Naturals, FiniteSets

CONSTANTS
  Critical,     \* the critical tasks, of which "stt" loads the local model
  Background,   \* the background tasks, of which "stt_optional" loads the partial one and "llm" the server
  Sequential,   \* four cores or fewer: a set of BOOLEANs
  Autostart,    \* LLM_OLLAMA_AUTOSTART
  NoOne, Turn   \* no holder of a lock; the thread of the first spoken turn

Tasks   == Critical \cup Background
Threads == Tasks \cup {Turn}
Models  == {"local", "partial"}

VARIABLES
  sequential, autostart,
  task,       \* for each task: "new", "running" or "ended"
  phase,      \* of the main thread: "warm", "listening" or "stopped"
  model,      \* _LOCAL_MODEL and _PARTIAL_MODEL: "none", "wanted" or "fallback"
  holder,     \* of each model's lock
  at,         \* where a thread is in a getter: [model, step], or a step of its own
  loads,      \* times a model was built as it is wanted
  server,     \* "none", "foreign" or "own"
  up,         \* the server answers
  handle,     \* _OLLAMA_AUTOSTART_PROCESS is set
  stopping    \* the cleanup: "no", "asked", and of the server "took" or "done"

suVars == <<sequential, autostart, task, phase, model, holder, at, loads, server, up, handle, stopping>>
ollama == <<server, up, handle, stopping>>
caches == <<model, holder, loads>>
fixed  == <<sequential, autostart>>

Nowhere == [model |-> "none", step |-> "none"]
Step(m, s) == [model |-> m, step |-> s]

Init ==
  /\ sequential \in Sequential /\ autostart \in Autostart
  /\ task = [t \in Tasks |-> "new"] /\ phase = "warm"
  /\ model = [m \in Models |-> "none"] /\ holder = [m \in Models |-> NoOne]
  /\ at = [t \in Threads |-> Nowhere] /\ loads = [m \in Models |-> 0]
  /\ server \in {"none", "foreign"} /\ up = (server = "foreign") /\ handle = FALSE /\ stopping = "no"

\* What a task does first; the local model is left to the first turn unless that is sure to need it.
First(t) == CASE t = "stt" -> Step("local", "look")
              [] t = "stt_optional" -> Step("partial", "look")
              [] t = "llm" -> Step("server", "reach")
              [] OTHER -> Step("none", "work")

StartTask(t) ==
  /\ task[t] = "new" /\ phase # "stopped"
  /\ IF t \in Critical THEN sequential => \A u \in Critical : task[u] # "running"
                       ELSE phase = "listening"
  /\ task' = [task EXCEPT ![t] = "running"]
  /\ \/ at' = [at EXCEPT ![t] = First(t)]
     \/ t = "stt" /\ at' = [at EXCEPT ![t] = Step("none", "work")]
  /\ UNCHANGED <<fixed, phase, caches, ollama>>

\* A task that ends or crashes: the caller logs a crash and goes on.
Leave(t) ==
  /\ at' = [at EXCEPT ![t] = Nowhere]
  /\ task' = IF t \in Tasks THEN [task EXCEPT ![t] = "ended"] ELSE task

Work(t) ==
  /\ at[t].step = "work" /\ Leave(t)
  /\ UNCHANGED <<fixed, phase, caches, ollama>>

Ready == phase = "warm" /\ \A t \in Critical : task[t] = "ended"

Listen ==
  /\ Ready /\ phase' = "listening"
  /\ UNCHANGED <<fixed, task, at, caches, ollama>>

-----------------------------------------------------------------------------
(* _get_local_whisper_model and _get_partial_whisper_model: a look without *)
(* the lock, the lock, another look, the load.  The partial model is kept   *)
(* under the name of what it runs on; a fallback has another name, and is   *)
(* not found again.                                                        *)

Found(m) == model[m] = "wanted" \/ (m = "local" /\ model[m] = "fallback")

\* The first spoken turn: a final text needs the local model, a partial one the other.
SpokenTurn(m) ==
  /\ phase = "listening" /\ at[Turn] = Nowhere
  /\ at' = [at EXCEPT ![Turn] = Step(m, "look")]
  /\ UNCHANGED <<fixed, task, phase, caches, ollama>>

\* Deviation: the look under the lock is left out.
LookOnce(t) ==
  /\ at[t].step \in {"look", "relook"}
  /\ IF at[t].step = "look" /\ Found(at[t].model) THEN Leave(t)
     ELSE at' = [at EXCEPT ![t].step = IF @ = "look" THEN "lock" ELSE "load"] /\ UNCHANGED task
  /\ holder' = holder
  /\ UNCHANGED <<fixed, phase, model, loads, ollama>>

Look(t) ==
  /\ at[t].step \in {"look", "relook"}
  /\ LET m == at[t].model IN
     IF Found(m)
     THEN Leave(t) /\ holder' = IF at[t].step = "relook" THEN [holder EXCEPT ![m] = NoOne] ELSE holder
     ELSE /\ at' = [at EXCEPT ![t].step = IF @ = "look" THEN "lock" ELSE "load"]
          /\ UNCHANGED <<task, holder>>
  /\ UNCHANGED <<fixed, phase, model, loads, ollama>>

Lock(t) ==
  /\ at[t].step = "lock" /\ holder[at[t].model] = NoOne
  /\ holder' = [holder EXCEPT ![at[t].model] = t]
  /\ at' = [at EXCEPT ![t].step = "relook"]
  /\ UNCHANGED <<fixed, task, phase, model, loads, ollama>>

\* The wanted runtime, else the smallest one, else an exception.
Load(t) ==
  /\ at[t].step = "load"
  /\ LET m == at[t].model IN
     /\ \E made \in {"wanted", "fallback", "none"} :
          /\ model' = IF made = "none" THEN model ELSE [model EXCEPT ![m] = made]
          /\ loads' = IF made = "wanted" THEN [loads EXCEPT ![m] = @ + 1] ELSE loads
     /\ holder' = [holder EXCEPT ![m] = NoOne]
  /\ Leave(t)
  /\ UNCHANGED <<fixed, phase, ollama>>

-----------------------------------------------------------------------------
(* _prepare_llm_runtime in the thread of the task "llm".                   *)

Go(s) == at' = [at EXCEPT !["llm"].step = s] /\ UNCHANGED <<task, fixed, phase, caches>>

At(s) == "llm" \in Tasks /\ at["llm"] = Step("server", s)

\* _ensure_ollama_running; its answer is not looked at, the selection follows in any case.
Reach ==
  /\ At("reach") /\ Go(IF up \/ ~autostart THEN "select" ELSE "spawn") /\ UNCHANGED ollama

\* The process runs before its handle is kept.
Spawn ==
  /\ At("spawn")
  /\ \/ /\ server = "none" /\ server' = "own" /\ up' = FALSE
        /\ Go("keep") /\ UNCHANGED <<handle, stopping>>
     \/ Go("select") /\ UNCHANGED ollama

Keep == At("keep") /\ handle' = TRUE /\ Go("wait") /\ UNCHANGED <<server, up, stopping>>

\* It answers, it exited, or the time is up; or the handle, read twice, was taken in between.
Wait ==
  /\ At("wait")
  /\ \/ Go("select")
     \/ ~handle /\ Leave("llm") /\ UNCHANGED <<fixed, phase, caches>>
  /\ UNCHANGED ollama

\* _detect_and_set_runtime_model and _pull_model, then the load of the model; each asks the
\* server and takes a failure for an answer.
Select == At("select") /\ Go("warm") /\ UNCHANGED ollama
Warm ==
  /\ At("warm") /\ Leave("llm") /\ UNCHANGED <<fixed, phase, caches, ollama>>

ServerAnswers == server = "own" /\ ~up /\ up' = TRUE /\ UNCHANGED <<fixed, task, phase, caches, at, server, handle, stopping>>

\* Somebody starts or ends a server by hand.
ByHand ==
  /\ server \in {"none", "foreign"}
  /\ server' = (IF server = "foreign" THEN "none" ELSE "foreign")
  /\ up' = (server # "foreign")
  /\ UNCHANGED <<fixed, task, phase, caches, at, handle, stopping>>

-----------------------------------------------------------------------------
\* A signal, during the warm-up or later: the cleanup runs in a thread of its own, or in the main
\* one, and waits for no task.  A warm-up goes on to its end, and starts the background tasks.
Signal ==
  /\ phase # "stopped" /\ stopping = "no" /\ stopping' = "asked"
  /\ UNCHANGED <<fixed, task, phase, caches, at, server, up, handle>>

LoopEnds ==
  /\ phase = "listening" /\ stopping # "no" /\ phase' = "stopped"
  /\ UNCHANGED <<fixed, task, caches, at, ollama>>

TakeHandle ==
  /\ stopping = "asked"
  /\ stopping' = (IF handle THEN "took" ELSE "done")
  /\ handle' = FALSE
  /\ UNCHANGED <<fixed, task, phase, caches, at, server, up>>

\* terminate, a wait of five seconds, kill; when both fail there is a line in the log, and the
\* server runs on with nobody to hold it.
EndServer ==
  /\ stopping = "took" /\ stopping' = "done"
  /\ \/ server = "own" /\ server' = "none" /\ up' = FALSE
     \/ UNCHANGED <<server, up>>
  /\ UNCHANGED <<fixed, task, phase, caches, at, handle>>

OwnExits ==
  /\ server = "own" /\ server' = "none" /\ up' = FALSE
  /\ UNCHANGED <<fixed, task, phase, caches, at, handle, stopping>>

ThreadStep(t) == Work(t) \/ Look(t) \/ Lock(t) \/ Load(t)
LlmStep       == Reach \/ Spawn \/ Keep \/ Wait \/ Select \/ Warm
MainStep      == Listen \/ LoopEnds \/ TakeHandle \/ EndServer

Works ==
  \/ \E t \in Tasks : StartTask(t)
  \/ \E t \in Threads : ThreadStep(t)
  \/ LlmStep \/ MainStep

Next ==
  \/ Works
  \/ \E m \in Models : SpokenTurn(m)
  \/ ServerAnswers \/ ByHand \/ Signal \/ OwnExits

\* The machine runs some thread that can go on; none is favoured, each task is short.
Spec == Init /\ [][Next]_suVars /\ WF_suVars(Works)

-----------------------------------------------------------------------------
\* The tasks, the caches and the server have their types.
TypeOK ==
  /\ task \in [Tasks -> {"new", "running", "ended"}] /\ phase \in {"warm", "listening", "stopped"}
  /\ model \in [Models -> {"none", "wanted", "fallback"}] /\ holder \in [Models -> Threads \cup {NoOne}]
  /\ loads \in [Models -> 0 .. 2] /\ server \in {"none", "foreign", "own"}

\* A model is built once as it is wanted, whichever threads ask for it first.
LoadedOnce == \A m \in Models : loads[m] <= 1

\* A cleanup that has not yet looked finds the handle of the server Jarvis started, but for the
\* moment between the start and the assignment.
OwnServerHeld == server = "own" /\ stopping \in {"no", "asked"} => handle \/ At("keep")

\* Jarvis listens in the end, whichever critical tasks crash, and also after an early signal.
ListeningComes == <>(phase = "listening")

\* A turn that asks for a model goes on, whoever is loading it and however that ends.
TurnGoesOn == at[Turn] # Nowhere ~> at[Turn] = Nowhere

\* Not so in this code, see README section 4.
\* No server that Jarvis started is left when the cleanup is over.
NoServerLeft == stopping = "done" => server # "own"
=============================================================================
