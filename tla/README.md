# Jarvis: models, checks and proofs

TLA+ modules for the Jarvis voice assistant, TLC instances that model-check
them, and TLAPS proofs of what holds for every instance. Paths are relative to
the repository; line numbers are those of the commit the modules were written
from.

    VoiceLoop        core/orchestrator.py, core/runtime_coordinator.py,
                     core/dialogue_manager.py, audio/wake_word.py
    SpeechCapture    audio/streaming_stt.py
    Transcriber      audio/stt.py
    EarlyExecution   core/orchestrator.py (ConcurrentPipeline)
    LiveLookup       tools/live_data.py, core/orchestrator.py
    CommandParser    core/command_parser.py
    Understanding    core/command_router.py, nlp/, core/intent_confidence.py
    KeywordScore     nlp/intent_classifier.py, nlp/keyword_engine.py
    SpokenNumber     system_ops.py, command_parser.py, command_classifier.py
    CommandRouter    core/command_router.py, core/session_memory.py
    ToolPlan         llm/tool_caller.py, core/action_planner.py
    LlmAnswer        llm/ollama_client.py, core/command_router.py
    SentenceBuffer   llm/sentence_buffer.py
    SpeechOutput     audio/tts.py, core/orchestrator.py
    PinConfirmation  os_control/confirmation.py, second_factor.py
    FileOperations   os_control/file_ops.py, batch_ops.py, persistence.py
    AuditLog         os_control/action_log.py, persistence.py
    SystemControls   os_control/system_ops.py, powershell_bridge.py
    LevelControls    os_control/native_ops.py
    WindowsToggles   os_control/windows_toggles.py
    Radios           os_control/radio_ops.py
    ScreenRecorder   os_control/capture_ops.py
    AppCatalog       os_control/app_scanner.py
    AppControl       os_control/app_ops.py
    JobQueue         os_control/job_queue.py, persistence.py; implements JobLedger
    Timers           os_control/timer_ops.py
    Reminders        os_control/reminder_ops.py
    SessionMemory    core/session_memory.py, core/memory_store.py
    KnowledgeBase    core/knowledge_base.py
    SearchIndex      os_control/search_index.py
    AdaptiveWake     core/adaptive_wake.py, audio/wake_word.py
    Startup          core/orchestrator.py, audio/stt.py
    DesktopBridge    ui/bridge.py, desktop/src
    Shutdown         core/shutdown.py

## 1. Inventory

Jarvis is one Python process. A microphone thread waits for a wake word, records
an utterance and hands it to a pipeline thread, which transcribes it, routes it
through a cascade (parser, semantic router, classifiers, language model) to an
action or an answer, and speaks. Beside it run the job worker, timer and
reminder threads, background indexing, the retraining of the wake word and a
web-socket bridge for the desktop client, whose typed commands take the same
router on a thread of their own.

| Component | State | Operations | Talks to | Hard behaviour | Correct when |
|---|---|---|---|---|---|
| Conversation loop (`core/orchestrator.py`) | futures in flight, wake source | `run`, `_process_utterance` | everything below | two threads share phase, dialogue state, LLM event | turns do not overlap; an interrupt reaches the turn it was meant for |
| Runtime phase (`core/runtime_coordinator.py`) | `_phase` | `set_phase`, `request_interrupt` | speech engine, LLM event | read and set by both threads and the listener | a transcription cannot be cut, an interrupted answer stays silent |
| Dialogue state (`core/dialogue_manager.py`) | state, time of entry, follow-up event | `transition`, `state`, `time_remaining`, `reset_window` | loop, listener, bridge | windows expire by being looked at | a window that is announced can be used |
| Wake listener (`audio/wake_word.py`) | cached model, last detection | `listen_for_wake_word` | coordinator, dialogue | phase and model read before they are used | the model in use is one that exists |
| Speech capture (`audio/streaming_stt.py`) | chunk queue, pre-roll, counters | `capture`, callback, windows | early execution | callback, loop and window thread | no hole, onset kept, ends at a pause |
| Recognisers (`audio/stt.py`) | cooldown, models | `transcribe` chain | cloud, local models | fall from one to the next, language lock | a text handed on was checked |
| Early execution (`orchestrator.py` 175-384) | intent already run | `on_partial`, `cancel_early_if_possible` | router, speech | partial and final transcript disagree, three threads | a command runs once, and is answered |
| Live data (`tools/`) | a future, a thread-local context | prefetch, `gather_live_data` | network | begun for one text, used for another | what is used was looked up in this turn |
| Command parser (`core/command_parser.py`) | none | `parse_command` | router | two copies of the text, nested calls, a cascade that takes the first match | a negation never runs the opposite |
| Understanding (`nlp/`, `core/command_router.py` 5027-5430) | lazily loaded models, alias caches | six tiers, slots, confidence | parser, LLM | tiers veto and override each other; the model changes | a question stays one; what runs is complete and no guess |
| Routing and clarification (`core/command_router.py`, `core/clarification_builder.py`) | pending question, task, references in session memory | `route_command`, `_dispatch` | all handlers | many turns, three threads, memory locked call by call | a reply answers the question that was asked, once |
| Tool plans (`llm/tool_caller.py`, `core/action_planner.py`) | results of the steps | `plan_and_execute` | router | a step fails; references to results | a failure ends the plan |
| LLM client (`llm/ollama_client.py`) | cancel event, cache | `ask_llm_streaming`, `ask_llm` | speech | cut by the wake word or a timeout while a piece is held | what is spoken is what is returned |
| Sentence buffer (`llm/sentence_buffer.py`) | buffer | `add_token`, `flush` | LLM stream, speech | two limits, connectors | no piece lost or doubled |
| Speech output (`audio/tts.py`) | handles, stop event, queue | `speak_async`, `speak_sentence_queue`, `interrupt` | loop, timers, bridge | interrupt, clear and start are not one step | one voice, in order; what was stopped stays stopped |
| PIN confirmation (`confirmation.py`, `second_factor.py`) | one pending action, two counters | request, verify, cancel | session memory, router | slot read, verified and discarded separately | what is executed is what was confirmed, once |
| File operations, batches (`file_ops.py`, `batch_ops.py`, `persistence.py`) | plan, rollback rows | operate, undo, commit | disk, database | a step fails; other threads push rows; restarts | nothing is lost; a failed batch undoes its own |
| Action log (`action_log.py`) | rows in a hash chain, text log | insert, verify, reseal | all handlers | two logs, two locks | a changed row is named |
| System commands (`system_ops.py`, `powershell_bridge.py`) | none | request, confirm, execute | Windows | effect before a failure, retry | done once and logged |
| Levels, toggles, radios, recorder (`native_ops.py`, `windows_toggles.py`, `radio_ops.py`, `capture_ops.py`) | snapshot of the radios, recording process | set, verify, toggle | Windows, the user's hand | backends fall through, late windows | "done" is said when it is so |
| Applications (`app_ops.py`, `app_scanner.py`) | catalog, cache, process snapshot | scan, resolve, open, close | Windows | overlapping scans, old snapshots, scores | a tie is asked about; the shell lives |
| Job queue (`job_queue.py`) | worker thread, stop event, table | enqueue, cancel, retry, start, stop, claim, finish | database, router | two command threads, several workers, restart | a job runs as often as it was asked for |
| Timers (`timer_ops.py`) | table, lock, `timers.json` | set, cancel, fire, save, reload | speech, file | a thread per timer, a file written in place, restart | an accepted timer rings once |
| Reminders (`reminder_ops.py`) | in-process table, OS tasks | create, cancel, fire | OS scheduler | recurrence registers itself again | canceled means silent |
| Session memory (`session_memory.py`, `memory_store.py`) | turns, slots, vectors | get and set, persist, import | router, both command threads | the database fails in the middle, restart | what was answered was saved |
| Knowledge base, file index (`knowledge_base.py`, `search_index.py`) | rows, vectors, signatures | sync, query | files | listing without the lock, crash between files | rows and vectors agree; the folder is followed |
| Adaptive wake word (`adaptive_wake.py`) | counters, model file | record, retrain, promote | listener | a copy that is no swap | there is a model on the disk |
| Desktop bridge (`ui/bridge.py`, `desktop/src`) | clients, settings, overlay | text command, mute, broadcast | router, dialogue | connections break; told after the lock | what was told last is shown |
| Startup (`core/orchestrator.py`, `audio/stt.py`) | models, the server's handle | tasks, ensure, start | threads | two threads load at once | a model is loaded once, listening begins |
| Shutdown (`core/shutdown.py`) | event, done flag | `perform_shutdown_cleanup` | every service | two callers, daemon threads | every service stops once, nothing queued is dropped |

`PROJECT.json` lists every component with its status, and the hazards of this
code, each with its line, the properties that watch it or the reason why none does.

### Not modelled, and why

* Texts: the regular expressions and word lists of the parser, the response
  templates, personas, dialect and voice normalisation, the prompts, and the
  dates of `temporal_parser.py`. They are functions of a string without state; a
  model of them would be a transliteration. What depends on them in a model (which
  matcher recognises a text, how alike two names are) is an input.
* Numerical code: acoustic features, voice activity scores, embeddings, ranking of
  search results and documents, `calculator.py`. TLC cannot evaluate them.
* Voices: the backends of `tts.py` and the settings of voices and personas; a
  backend is a step that succeeds or fails.
* Single calls into Windows without state of their own: windows, media keys,
  browser tabs, Explorer, clipboard, screenshots, mail and calendar, notes.
* Preferences, habits and statistics in session memory: one slot among others.
* Configuration, logging, metrics, diagnosis, evaluation, and the scripts under
  `scripts/` (documents, training, downloads): they keep no state a run shares.

## 2. Modules

In all of them one action is the stretch between two points at which somebody
else can see or change something shared: a lock released, a file written, a call
that may fail, a thread that waits. Variables carry the names of the code where
TLA+ allows it; history variables that nothing reads but the properties are said
to be so beside their declaration. Bounds are named constants.

### The voice turn

**VoiceLoop.** The main thread (`run` with `listen_for_wake_word` inside it), one
pipeline thread (`_process_utterance`) and the environment (other speakers, the
mute switch, time). `mpc` and `tpc` say where the two threads are. `ReadPhase` and
`AdoptPhase` are the two halves of `orchestrator.py` 1747-1751. `request_interrupt()`
is four actions: `WakeInterrupt` looks at the phase again under the lock, `StopVoice`,
`CancelAnswer` and, last, `AcceptInterrupt`, which sets the phase; meanwhile whoever
sets a phase waits and whoever reads it does not. `FinishTurn` and `ReleasePhase` are
the `finally` clause. An utterance is one of seven kinds, by how it is parsed and what
it does. Time is the age of a dialogue window: open, closing (under the half
second `run` insists on), over. Speech is one flag.
`REALTIME_MAX_PENDING_UTTERANCES` is 1 and `REALTIME_DROP_WHEN_BUSY` is on, as
configured by default. The wait for speech to finish may end early (it has a
limit). `barged`, `promised` and `cut` are history variables.

**SpeechCapture.** The audio callback, the bounded queue, the recording loop with
its pre-roll, onset, silence counters and limits, and the thread that transcribes
a window. A chunk is its number and whether its energy is over the threshold.

**Transcriber.** The chain cloud, local, other language; the cooldown, the
language lock, the floor of confidence, the status. A decoded text is its script,
whether it is short and whether its confidence is low, and is open otherwise: a
model that is forced into a language makes one up.

**EarlyExecution.** The window thread, the early-command thread and the turn. The
reservation, the run, the cancellation, the comparison of intents and the spoken
flag are separate steps, as in the code.

**LiveLookup.** Turns one after the other on one thread, the prefetch beside them:
what a partial transcript starts, what the turn takes in time, the router's own
lookup with its executor, the fallback to the default city, and the context that
is put on the thread and taken away.

**LlmAnswer.** The stream line by line with the reasoning filter, the hold-back,
both timeouts, the cancel event, the second way with one request per model, and
the cache of short answers. A word is its position and kind.

**SentenceBuffer.** `add_token` and `flush`; a piece begins a word or goes on with
one, may be a connector and may end with a mark.

**SpeechOutput.** The sentence queue, the pool, the playing thread, plain speech,
the stop event, the two handles and the device, with the turn, an announcer and
the listener as callers.

### From a text to a command

**CommandParser.** The cascade as a table: place, which copy of the text the
matcher reads, the commands its rows make, and whether it searches behind other
words. Nested calls after a stripped courtesy are a stack.

**Understanding.** `route_command` from the parse to the dispatch: fast path,
code-switching, semantic router, keywords, tools, structured model, the verifier,
missing arguments, confidence. What a tier makes of the words is a choice out of
all readings that its code can return; what becomes of it is not. The model's tier
and the semantic router's readiness change underneath.

**KeywordScore.** Points, quality, shared words and the near tie of
`classify_intent`, and what the router does with a setting found that way.

**SpokenNumber.** Three copies of the number reader, word by word, and what they
make of counts, percentages and durations.

**CommandRouter.** The voice thread, the desktop's and the job worker in the
router; session memory is locked call by call, so each call is an action. The
pending question with its rounds, chains, batches, the last app and file.

**ToolPlan.** Calls of the model, their conversion and the planner. A reference is a
number, a number counted from the end, or no number; conversion and resolution stand
outside every try, so each of them may raise before a step.

### What is done

**PinConfirmation.** The slot, both counters, the flag in session memory, and
every path of the router that reads or clears them, with two threads.

**FileOperations, AuditLog.** Threads that create, move, copy, delete and wipe;
the rows that say how to take it back; undo and batches; policy switches and
restarts. The rows of the log with their chain, resealed or changed from outside.

**SystemControls.** A command from request over policy and confirmation to the
native call, the template, its second try and the log. A native call may act several
times (`Families` counts) and, for levels and settings, raise out of the command.
**LevelControls** opens the native call for volume, mute and brightness: one action
per backend and per reading back, the adjustment from a reading, the template that
follows, the script of presses that may be cut between two of them, and a hand that
moves the level. **WindowsToggles** does the same for night light, do not disturb,
energy saver and live captions, whose window is looked for by an enumeration that
may fail. **Radios** is an order as jobs of a pool with two threads: each job tries
its two ways, each way switches and reads back (`CONTROLS_VERIFY_STATE`) or not; the
snapshot may hold a third radio, and a hand may switch one at any moment.
**ScreenRecorder** is the one process, which a stop may fail to end, and the Game
Bar's hotkey.

**AppCatalog.** Scans of four origins, the cache file and what each applies.
**AppControl.** Resolving a name by its score, twice (the router, then the
operation), with the 8-second process snapshot; opening, and closing with its
confirmation, while programs come and go.

### What runs beside

**JobQueue and JobLedger.** Threads that execute commands, worker threads and the
table. All database functions hold the one `_db_lock` and each is one action;
`dbWedged` says that a thread waits for that lock while it holds it, and every
database action is then disabled. `stop()` is two actions because it signals
outside the service's lock. A worker's claim, its execution and the mark at its
end are separate. `run_at` is abstracted to who became due before whom (`due`,
`ahead`). A restart keeps the table and boots one worker; rows that were running
stay running, as in the code, which never picks them up again. The executor is
configured before the first worker starts (`initialize_command_services`), so the
branch without one is unreachable and left out, and so is the log entry a worker
writes after marking a row. `JobLedger` is what the user is promised, in three
variables: a request buys at most `Allowance` executions of a job, an execution
costs one, nothing else adds. `JobQueue` implements it with
`Allowance = MaxRetries + 1`; the budget of a job is computed from its row and from
the workers that hold it.

**Timers.** Command threads and one thread per timer over `_active_timers`, `_lock`
and `timers.json`. Saving is a snapshot under the lock, then `open` (truncates) and
`write`; two threads may save at once, and one that writes into a file rewritten
since it opened it may leave a torn file. `wedged` is the lock held by a thread that
waits for it. A restart may find any of these states; meanwhile the time of any
timers may have passed. The three ways `cancel_timer` finds a timer are one choice.

**Reminders.** Tasks of the scheduler, which expire after five minutes, and entries
with timer threads: one step reads the entry under the lock, the next shows it
without, or fails to, and recurrence registers again. `inHand` is what was canceled
in between, `missed` what came and was not shown.

**SessionMemory.** The transaction, the slots and the pending question as separate
writes, the JSON fallback (`open` empties the file, either step may fail), the import
of an earlier version, restarts. **KnowledgeBase.** Listing, reading, storing and
pruning by polling threads and a caller; the thread that `stop_auto_sync` did not
wait for goes on beside the next one when `start` clears the event they share. Three
files, writes that fail, crashes between them. **SearchIndex.** Walks of overlapping roots.
**AdaptiveWake.** Retraining, the promotion that copies and then unlinks, each of which
may fail, the cache and two loaders.

**Startup, DesktopBridge, Shutdown.** The tasks of the start and the locks of two
speech models, the model server, which neither terminate nor kill need end, and the
signal, which may come during the warm-up: the warm-up goes on, and the loop that
follows ends at once. Connections, broadcasts and the overlay's timer of each window;
`lost` are the connections that a broadcast has found closed, and a handler that comes
back from another thread to one of them is `"spinning"`: the loop serves nobody else
(`Free`). The cleanup by two callers and the queue that is drained.

### Compositions

`MCRequests`, `MCTurn`, `MCServices`, `MCEngine` and `MCCommands` put the modules
of one area under one specification. A variable `part` says which is played; the
variables of the others stay as they are, starting in one state. Their
properties are conjunctions of the properties of the modules, with the names the
modules give them. The other runs check a module by itself.
Modules that share state are composed where it matters: the turn and the speech
engine in `SpeechOutput`, memory and router in `CommandRouter`, the rollback store
and batches in `FileOperations`, the dialogue's listeners and the windows in
`DesktopBridge`, job rows and workers in `JobQueue`.

## 3. Runs

| Run | Instance | Checks |
|---|---|---|
| `voice_loop` | one announcer, follow-up on | `TypeOK`, `RecordingIsExclusive`, `TranscriptionProtected`, `InterruptSilencesAnswer`, `FollowUpSignalServed` |
| `voice_loop_follow_up` | same | counterexample to `FollowUpWindowHonoured`: the state is LISTENING when `time_remaining()` is asked |
| `job_queue` | 2 jobs, 2 workers, 2 command threads, 1 restart | `TypeOK`, `NoDoubleRun`, `QueueIsServed` |
| `job_queue_served` | 2 jobs, 2 workers, 1 command thread, 1 restart, fair | `RunsArePaidFor` (refinement of `JobLedger`), `DueJobIsClaimed` |
| `timers` | 2 timers, 2 command threads, 1 restart, fair | `TypeOK`, `RingsOnce`, `CanceledStaysSilent`, `TimerRings` |
| `requests` | PIN: 2 requests, 2 threads, 2 and 3 attempts; files: a file, its copy, two folders, 2 paths, 2 threads, 2 rows, 3 steps, 1 policy change or restart; log: 2 loggers, 3 entries | `PinIsGuarded`, `FilesAreSafe`, `LogTellsEdits`, `ReadOnlyHolds` |
| `router` | 2 targets, 2 rounds, chains of 2, 4 sessions | `QuestionsMatch`, `RepliesAreSound` |
| `speech` | 2 speech threads, 2 sentences, 2 voices | `SpeechIsSound`, `Hushed` |
| `turn` | see below | `EarlyIsHandledOnce`, `RecordingIsWhole`, `TranscriptIsChecked`, `AnswerIsSpoken`, `TurnEnds` |
| `services` | 2 documents, 2 polling threads, 2 changes and 2 orders, or a change and 3 orders, or a change, 2 orders and a failed write (`Spent`); 2 turns kept, 3 changes, 3 runs, 2 faults; 2 roots, one in the other; 2 reminders; 3 retrains | `StoresAreSound`, `RemindersComeDue`, `WakeModelIsKept`, `ServicesFollow` |
| `engine` | 2 critical and 2 background tasks; 1 window, 2 connections, 3 events, 2 threads that turn the dialogue; 3 steps of the cleanup, 2 turns | `WindowsFollow`, `StartsAndStopsOnce`, `EngineGoesOn` |
| `commands` | see below | `NegationIsKept`, `UnderstoodSafely`, `PlanStops`, `PiecesAreWhole`, `DeedsAreKnown`, `CommandsComeTrue` |

What each conjunction says, by the names in the modules:

| Property | Conjuncts |
|---|---|
| `PinIsGuarded` | a dead action stays dead, one release per request and per thread, attempts bounded, what was asked is heard as a PIN (`PinConfirmation`) |
| `FilesAreSafe` | `UndoneOnce`, `TrashIsReachable`, `StepsRunOnce`, `BatchUndoesItsOwn`; `ReadOnlyHolds` is the action property beside them |
| `LogTellsEdits` | `ChainTellsEdits`, `LinesMatchRows` |
| `QuestionsMatch`, `RepliesAreSound` | `QuestionIsPending`, `PendingWasAsked`; `RoundsBounded`, `AnsweredOnce`, `FollowUpIsFresh` |
| `SpeechIsSound` | `SpeakingIsSeen`, `OneVoice`, `InOrder`, `TailBounded`, `HandedOnce`; `Hushed`: speech that is stopped ends |
| `EarlyIsHandledOnce` | `HandledOnce`, `OneAtATime`, `EarlyIsStable`, `RouteIsAnswered` |
| `RecordingIsWhole` | `NothingLost`, `OnsetKept`, `PauseEnds`, `ArabicConfirmed` |
| `TranscriptIsChecked` | `OkIsChecked`, `EnglishStaysHere`, `TextIsOk` |
| `AnswerIsSpoken` | `ReasoningIsSilent`, `SpokenIsReturned`, `AskedInSilence`; `ContextIsOfTheTurn`, `AnsweredFromFound` |
| `TurnEnds` | `Ends`, `TranscriptionEnds`, `LookupEnds`, `QuestionEnds` |
| `StoresAreSound` | `Aligned`, `Durable` (`KnowledgeBase`), `SavedWhenAnswered`, `FreshStart`, `RestartRemembers` (`SessionMemory`), `FoundUnderItsRoot`, `NothingStale` (`SearchIndex`) |
| `RemindersComeDue`, `WakeModelIsKept` | `ListedIsLive`, `ShownOrDue`; `ModelOnDisk`, `SwapIsSeen` |
| `ServicesFollow` | `KnowledgeFollows`, `IndexFollows`, `ReminderComes`, `CancelHolds` |
| `WindowsFollow` | `ToldIsShown`, `VisibleWhileActive`, `ChoiceIsEngines`, `KeeperIsGone` |
| `StartsAndStopsOnce` | `LoadedOnce`, `OwnServerHeld`, `StoppedOnce`, `NothingDropped` |
| `EngineGoesOn` | `ListeningComes`, `TurnGoesOn`, `TypedIsAnswered`, `DeadLeave`, `ShutdownEnds` |
| `NegationIsKept` | `NegatedFilesStay`, `InvertedOnce`, `CourtesyIsIdle` |
| `UnderstoodSafely` | `ExplainingRunsNothing`, `InformationIsAnswered`, `TieIsSettled`, `ModelRunsSafely`, `NothingRunsBare`; `NamedIsNotSwitched`, `OppositesCancel`, `ResemblanceIsIdle`; `SaidIsMeant`, `DurationsAgree`, `PercentsAgree` |
| `PlanStops`, `PiecesAreWhole` | `FailureIsLast`, `OnlyEarlierResults`, `ConvertedFirst`; `NothingLost` |
| `DeedsAreKnown` | `EffectOnce`, `EffectIsLogged`, `RecordingIsHeld`, `UnknownIsTrue`, `NoTieIsActedOn`, `ShellLives`, `NeverBackwards` |
| `CommandsComeTrue` | `ParseEnds`, `TextIsUnderstood`, `CatalogFollows`; `LimitGivesChunk`, `NoPartialSuccess`, `RestoresBefore`, `SaidWhenTrue`, `VerifiedIsTrue`, `AskedWhileRunning` |

Every property of a passing run has a mutant in `PROJECT.json`: a small change to
one definition, kept beside it as a "Deviation", under which TLC finds the
property violated. Type invariants are conjuncts of the first property of their part.

**Bounds.** Two of each kind of actor are enough for every pairwise race: two
command threads for a start inside a stop, two workers for what a stop leaves
behind, two jobs for an order between them, two timers for writes that overtake
each other, two requests for a PIN that finds another action in the slot.
`MaxRestarts = 1` puts a restart at every point of an execution and leaves
everything after it. `MaxRetries = 1` is the configured default and has both sides
of the comparison. `attempts` stays finite because a claim is followed by a mark or
a retry that resets it. The two PIN limits differ, so that either may be first.

* `router`: the kinds of commands that are used together are bounded by `Sessions`;
  three sessions of the voice alone (asking, referring, batching) and one with a
  desktop beside it. The age of what "it" refers to is fresh or stale; the app before
  the last is left out.
* `turn`: recordings of 7 chunks with limits of 2 to 6 chunks, so that each limit
  is the first in some of them, and a queue of 2; 3 windows, 2 passes and 2 early
  runs of 2 commands; 2 recordings through the recognisers, every setting; 2
  questions, 2 models, lines of 3 items, six replies (empty, plain, reasoning first,
  in the middle, never closed, closed twice); 3 turns with lookups in 2 cities.
* `commands`: up to 3 leading words with every row of every matcher alone and three
  kinds of texts that two matchers know; 40 texts by their features, one reading of
  each kind that the thresholds tell apart, one change of the model's tier; 3 words
  with qualities 90, 92, 93 and 100, the borders of the comparison; every plan of 1
  or 2 calls and plans of 3 that use results; 6 pieces at limits 2 and 3; 3 orders or
  hands for three radios, one of them a modem; 3 recorder processes and hotkeys; 3 system commands; 1 application, 2
  installations and 2 scans; 2 orders over 3 programs, one of them the shell and one
  from the Store, 4 likenesses on either side of the thresholds, one program that
  moves; levels of 0 to 3 with a command and a hand, or two commands; 3 requests or
  switches by hand; 27 numbers around every border of the readers.
* `FileOperations`: the check of the policy and the change right after it are one
  step; a wider gap is not in the code.

Jobs, workers and command threads are interchangeable in `job_queue`, targets in
`router`, the two requests and the two file threads in `requests`; these check no
liveness and no refinement, and nowhere else is symmetry used.

**Deadlock** is checked for `VoiceLoop`, which never stops. Everywhere else a bound
is used up in the end, or (jobs and timers) a lock is stuck.

**Fairness.** Weak fairness of what the code schedules and what its own timeouts
bound, never of a user, a clock, a network or a failure. `VoiceLoop`: either thread
as a whole, because every wait of theirs is bounded (`MAX_RECORD_DURATION`, the
timeouts of LLM and tools). `JobQueue`: each worker; an executor returns; commands
are never owed. `Timers`: each timer's thread, which includes that its time passes.
`SpeechOutput`: the speech threads and the turn. `SpeechCapture`: the recording
loop, whose wait for a chunk has a timeout. `Transcriber`, `LlmAnswer`,
`LiveLookup`: the call, each of whose requests has a timeout. `CommandParser`,
`Understanding`: the one thread that runs them. `KnowledgeBase`, `SearchIndex`,
`AppCatalog`: each polling thread, the walk, each scan and the watcher's timer.
`Reminders`: the timers. `Startup`, `DesktopBridge`, `Shutdown`: tasks, event loop
and both cleaners.

## 4. Findings

One run is kept as a counterexample (`voice_loop_follow_up`). The other statements
below marked with a name stand in their module as a definition "not so in this
code". Where the run's module is the module itself, the name goes into the run's cfg in
the place of a property and TLC shows how it fails; where it is a composition, one line
there names it through the instance (`UpIsNotDown == Levels!UpIsNotDown`).

**The loop.**
1. `FollowUpWindowHonoured`: the follow-up window cannot be used, because
   `transition(LISTENING)` (`orchestrator.py:1779`) comes before `time_remaining()`
   (1800), which is then 0.
2. `ExecutingPhaseIsCurrent`: EXECUTING_COMMAND stays set if something speaks when a
   turn ends (`orchestrator.py:1023`); the loop replaces only IDLE and LISTENING, and
   the listener blocks the wake word.
3. `InterruptSparesCommands`: a command that the first parse took for a question runs
   under THINKING and can be interrupted (`orchestrator.py:942`). The comment at
   `runtime_coordinator.py:4-5` also lists ROUTING as blocked; `_INTERRUPTIBLE` says
   otherwise.
4. `InterruptIsHeard`: the wake word that interrupts a turn is dropped while that
   turn unwinds (`orchestrator.py:1813`).
5. `AcceptedIsSilent`: an interrupt that is accepted stops the voice first, for up to
   four seconds, and sets the phase last (`runtime_coordinator.py:92-114`). A turn whose
   answer comes in between still reads THINKING (`orchestrator.py:1010`), waits for the
   lock, replaces LISTENING by SPEAKING and speaks the answer.
   `InterruptSilencesAnswer` is about the interrupts that have set the phase before the
   turn reads it.

**Jobs and timers.**
1. `CancelAnswers`: `cancel_job()` deadlocks on a finished job (`persistence.py:535`).
2. `CanceledIsFinal`: a canceled job that was running becomes succeeded, failed or
   queued again (`persistence.py:483`).
3. `CancelReturns`: `cancel_timer()` deadlocks whenever it finds a timer
   (`timer_ops.py:315`, 323, 332).
4. `ActiveTimersSurvive`: `timers.json` is rewritten in place; a restart may lose
   every timer (`timer_ops.py:142`).
5. `CancelSilences`: a reminder canceled after its thread has read the entry is shown
   all the same, and a recurring one comes back (`reminder_ops.py:246`, 255, 268).
   `NoneIsDropped`: a message whose process does not start, or whose task comes five
   minutes late, is dropped with a line in the log (237, 294). Canceling
   without an identifier takes the last in-process entry, else whichever task was
   listed last, where the docstring says the most recent one.

**PIN.**
1. `NextUtteranceIsPin`: a chain of commands loses the token; and after a wrong PIN
   in Arabic the flag is cleared though `confirmation.py:78` says a retry is allowed.
2. A PIN asked for one request releases another that was stored silently after it.
   Two threads may execute one request twice. "Only ever one outstanding"
   (`confirmation.py:16-18`) is not enforced.
3. The slot's type "pending_confirmation" differs from the policy's key; the lock
   after too many attempts is erased with the action at once.

**Routing.**
1. `AskedIsPending`: a command that answers a question or comes from the tool tier may
   ask something itself; the question is spoken and not stored.
2. `BatchRefusesRisky`: a chain inside a batch runs commands the batch refuses.
3. Choices are asked again without `CLARIFY_MAX_ROUNDS`; "cancel" said to a missing
   value becomes the value; a clarification preference is never dropped.
4. The route verifier's decision is only logged. The dry run does not cover undo,
   notes, timers, reminders and a payload confirmed by PIN. A job's mail task takes
   the reply of an open question. The desktop may refresh the time of an app that was
   stale to the voice turn.

**Parser and understanding.**
1. `NegationIsMarked`: a stripped courtesy before a negation loses the mark ("please
   don't shut down"); nobody but the parser reads it anyway. "don't shut down" is a
   shutdown marked negated, "don't undo" an undo; wifi, bluetooth and brightness are
   not inverted. The parser makes `volume_unmute`, which no command is called.
2. `CancelIsWhole`: `REQUIRED_SLOTS` asks for seconds by intent (`nlp/nlu.py:67`), so
   "cancel the timer" ends in a question for a duration;
   `tests/fixtures/nlu_eval_cases.jsonl:15` expects it to be executed.
3. `FoundIsOpened`: `{result_0}` of a search is a printed dictionary; the "search_files
   → open_folder" pattern of `action_planner.py:134-136` does not work. A search that
   finds nothing is a success; a number counted from the end is taken. Arguments are
   converted before anything runs, so one bad number stops all steps
   (`command_router.py:5171`). `NothingUntold`: `{result_-2}` after one step raises
   outside the try (`action_planner.py:75`, 144), and the user hears of an error but not
   of the step that was done.
4. The fast path's assessment is used after missing arguments were added. Readings
   under the fast path's gate are dispatched by a later tier. The alias lookups
   (`command_router.py:288`, `nlu.py:164`) are built once. The tool tier without usable
   tools is followed by a second call of the model (~5307 says one). One exact action
   word alone moves the volume.
5. Numbers: two of the three readers do not know "thousand" ("two thousand seconds"
   is two seconds); all lose the second part of an Arabic number joined by an attached
   و; digits beyond four are cut; "1 hour 30 minutes" is an hour; a bare duration has
   no limits.

**A turn.**
1. A late partial (its thread outlives the recording) may reserve after the check, and
   the command runs twice (comment near `orchestrator.py:337`); an early failure after
   the comparison is retried by nobody; an early run that cannot be canceled may set
   the spoken flag after the reset, and the routed answer is never spoken. Only intents
   are compared, so arguments may differ, and a final text that would not have run early (dangerous, of low confidence) may
   compare as the same, like one whose intent cannot be told (`orchestrator.py:831`). A
   text the guards reject may have run early.
2. `FloorIsSilence`: the confidence floor is skipped on the first decoding. A
   fallback's status is overwritten by the cloud's error; the cloud's text is not
   validated even with `STT_FORBID_OTHER_LANGUAGES`.
3. The first voiced chunk is captured twice; empty and English windows do not reset
   the Arabic gate (`streaming_stt.py:270`).
4. Errors and canceled answers are cached for short questions; the cancel event is not
   cleared for typed turns; `ask_llm` ignores it; an answer with the words "timed out"
   counts as an error; a stray `</think>` is spoken.
5. `CityIsKept`: a prefetch for a partial text is used for the final one, and the
   fallback asks for the default city whatever was asked. `LateIsNotAwaited`: leaving
   the executor's `with` waits for the fetch beyond `_LIVE_DATA_TIMEOUT`.
6. Speech: `join(timeout=2)` leaves a thread alive that the next `clear()` revives; two
   speakers may both pass; the interrupt may take a handle after its `set()`; an
   announcer kills a streamed answer; an error after some sentences is never spoken; an
   interrupted playback counts as failed and the next voice is tried.
7. The sentence buffer may cut after a connector at the hard limit, and inside a word
   whose first token arrives there. After a run of connectors more than the limit may be
   held, and with a hard limit of one word it would cut nothing: `LimitGivesChunk` is
   about a word that fills the buffer and is no connector.

**Deeds.**
1. A batch step may be an undo; a failing batch undoes by count, also rows of other
   threads; confirming re-checks policy and source only; undoing overwrites what took
   the old place; a crash between the change and its row orphans the backup; a newest
   row that cannot be undone blocks the older ones; a copy in a batch only creates a
   pending confirmation and counts as done.
2. The text log's order may differ from the rows', and its hashes go stale after a reseal.
3. `MuteToggles`: `toggle_mute` returns the new state as its success, so an unmute
   "fails" and the template mutes again. Brightness succeeds despite a mismatch; a set
   that could not be verified may make "up" more than one step; the clipboard always
   succeeds. `UpIsNotDown`: the PowerShell setter presses "down" 55 times first
   (`powershell_bridge.py:68-76`); cut there by its timeout, it leaves a volume near
   nothing, to which the template of "up" adds a step and reports success. The template
   of `brightness_down` has a floor of ten per cent and brightens a darker screen.
4. `DeedIsLogged`: native calls stand outside every try (`system_ops.py:2051`, 2150, 2168);
   one that raises after its effect (the energy saver's second way, a level that cannot
   be read back, `native_ops.py:585`), and a template's `subprocess.TimeoutExpired`, leave
   what was done without a row in the action log.
5. `NeverRaises`: `winreg.HKLM` does not exist (`windows_toggles.py:285`; line 5 says it
   never raises). `OffIsSeen`: an enumeration of the windows that fails finds none
   (`windows_toggles.py:351-353`), which verifies captions that are open to be off.
   `LateWindowStays`: the second hotkey is sent without looking and
   closes a captions window that came late.
6. `RestoredIsBefore`: the snapshot holds every kind of radio, and whatever is not Wi-Fi is
   restored as Bluetooth (`radio_ops.py:379`): with a mobile modem two jobs give Bluetooth
   two states. `OffIsOff`: PowerShell reads whether the Wi-Fi adapter is up, where the
   docstring says enabled (`radio_ops.py:201-216`); one that is on and not connected is
   reported as off. With `CONTROLS_VERIFY_STATE` off, success is said of what was not
   read. A second `airplane_on` overwrites the snapshot, which is cleared before it is
   restored. `StoppedIsOver`: a terminate that fails is passed over and the handle dropped
   (`capture_ops.py:223-230`), so "stopped" is said of a recording that goes on, and the
   next one starts beside it. The Game Bar's second "start" stops it.
7. Overlapping scans may apply the older result last. A program to be closed is named
   when it is asked about and killed by name later. A Store program's process is found
   by the beginning of its name: closing Notepad may name `notepad++.exe`. The music
   chain reads `canonical_name`, which `resolve_app_request` does not return.

**Stores and services.**
1. `AutoSyncAnswers`: `start_auto_sync` takes the lock that `_ensure_initialized` holds.
   A torn save is never repaired; after a write that fails the files stay behind the
   memory until the next save; a thread left over by `stop_auto_sync` is never stopped
   when another one is started before it looks; an emptied file keeps its old chunks; a document may be
   missed until its next change; search reads rows and vectors without the lock.
2. `AnsweredIsSaved`: an error of the JSON file is logged and the change answered
   (`session_memory.py:439`). The fallback is permanent for the run and ignored by the
   next; a stale one can bring back cleared turns; `clear()` leaves the vectors; a failed
   import is marked as done; a pending confirmation's token survives restarts.
3. Overlapping roots keep one row per path; rows of untracked roots stay; a walk cut by
   `stop()` is committed in part.
4. `shutil.move` onto a file copies on Windows (the comment says atomic swap); two failed
   promotions lose model and backup; resetting the counter forgets samples confirmed
   meanwhile; a load in progress may store the old model after the invalidation. When only
   the last unlink of the move fails the new model is in place and the cache is not
   emptied, so the old one is used on (`adaptive_wake.py:344-350`).
5. The cleanup flag is set first, so main returns while the signal's daemon thread still
   cleans; `drain()` looks at the queue's size only. `NoServerLeft`: a model server spawned
   after the cleanup took the empty handle survives, also when the signal came during the
   warm-up, which goes on and starts its background tasks; so does one that neither
   terminate nor kill ends, with a warning (`orchestrator.py:1251-1255`).
6. `LoopIsFree`: `handle_client` catches every exception inside its loop
   (`ui/bridge.py:177-190`). When a broadcast has found the connection closed (432-437)
   while the handler ran a command in another thread (213, 242), the handler's next
   `receive_text` raises `RuntimeError` instead of `WebSocketDisconnect`, the error cannot
   be sent, and the loop goes round without ever waiting: the bridge's event loop serves
   no other window. This rests on what Starlette documents of a closed connection; its
   source is not in the repository. `TypedIsAnswered` and `DeadLeave` are therefore about a
   loop that is not kept.
7. `OverlaySinks`: that a window of the dialogue ran out is told to nobody, so the overlay
   stays. Notifications leave after the lock and may overtake each other; the settings go
   to the asking window only (`docs/UI_IMPLEMENTATION_PLAN.md:287`); typed commands of two
   windows run at once and their answers carry no name.

## 5. Proofs

Every theorem holds for all values of the constants that satisfy the named
assumptions of its module: sets of threads, requests, files, jobs and timers of any
size (workers and the threads that route commands finite), any number of retries,
restarts, rows, steps, sentences and rounds. The assumptions say that limits are
numbers and that what stands for nothing is none of the things it stands beside;
`FilesAssumption` says besides that the files of a scene lie at different paths and
that none lies in the rollback folder yet, `PinAssumption` that the voice is one of
the threads, `NameAssumption` that the words for no command are none and that a
window may be heard as nothing, `ServicesAssumption` that a memory has room for a
turn, `CommandsAssumption` that a word's quality is from 90 to 100, that the two radios are
different, that the programs are finitely many and include the shell, and that the limits of
the sentence buffer are not 0. TLC evaluates them in the runs.

* `VoiceLoop` (the proofs follow the model). `TypeCorrect`. `RecordingsAreExclusive` and
  `TranscriptionsAreProtected` follow from `TurnInv`, which adds
  `ReadingIsHarmless`: the main thread sets the phase from a reading that may be
  stale, and the invariant says what a stale reading can be while a turn is
  transcribed. While an interrupt is under way no turn is transcribed, because it was accepted.
  `InterruptSilences` uses `CutInv`: a turn can only be cut before it has read the
  phase, and from then on the phase stays LISTENING until it has,
  because the only step that would replace it needs somebody speaking.
* `Timers` (the proofs follow the model). `TypeCorrect`. `AnnouncedOnce` uses `RingInv`: who may still
  ring has not rung, and whose bell rang, or is about to, has a time that is past,
  which is why a restart does not arm it, however old the file it reads.
  `CanceledSilent` uses `SilentInv` on top of it.
* `RequestsProofs`, about the composition `MCRequests`; each step of one part is
  shown to leave the others alone.
  * `PinGuarded` uses `PinInv`. `SlotInv`: a request enters the slot once, and what
    was buried is neither there nor held by a thread that could still execute it.
    `ChanceInv` counts: what a request has executed and the threads that hold it are
    together no more than the threads, which is all that two threads verifying at
    once leave of "once" (finding 2 of PIN). `AloneInv`, `CountInv` and `FlagInv` say
    what is true with the voice alone at each point of `verify_pin_and_execute`: what
    is held is what is in the slot, the counter has counted every wrong PIN, the flag
    is set for what was asked.
  * `EditsAreTold` uses `ChainInv` (each row seals its predecessor's seal and itself,
    unless it was changed from outside) and `LinesInv`. That the verification names
    the oldest changed row, and that resealing yields a chain again, is by induction
    over the rows, done by a least counterexample (`Least`), because the induction
    rules of the library cannot be instantiated here.
  * `FilesSafe` uses `FilesInv`: `UndoInv` (a row in the hands of a thread is marked,
    and of no other thread), `TrashInv` (of whatever lies in the rollback folder a
    row, or a thread about to push one, knows where it came from, unless a crash
    came between), `StepInv` (a step is planned, held by one commit, or
    dropped, and what is ahead was not run) and `BatchInv`: a batch that nobody
    disturbs counts its own rows, which are the newest, so undoing by count takes
    back exactly those.
  * `ReadOnlyIsKept` is an action property: each change of the disk comes from a step
    whose guard reads the policy.
* `SpeechOutputProofs`. `SpeechSound` uses `SpeechInv`. `ThreadEffect` sums up what a
  step of a speech thread does, and is all that the parts of the invariant are shown
  from. `OrderInv` bounds what was played by where the thread is; `TailInv` says that
  who was counted after a stop has no text at hand; `SeenInv` that threads begin in
  order, and that the newest is in a handle; `VoiceInv` that a living
  thread is in the handle or awaited; `HandedInv` relates what the turn holds to what
  the queue got.
* `CommandRouterProofs`, about the router and about the composition `MCCommands`, the way
  from a text to the machine.
  * `QuestionsAreMatched` and `RepliesSound` use `RouterInv`, which is about the turn of the
    voice when there is no desktop: at each point of the turn it says whether a question
    or a task can be stored (`AwaitedInv`: none from the cascade on, but for the one a
    note asks at the very end), that what the user was asked is stored (`AskedInv`), that
    the useless replies are no more than the stored question has counted, also in the
    copy that was read (`CountInv`), and that a reference not blocked was fresh
    (`FreshInv`: it can only age between the two readings). TLC checked it on the
    instance of `router` first.
  * The theorems about the commands use `CommandsInv`: of each part, played one at a time,
    an invariant of its own. `CommandsHold` shows all of them along `CommandsSpec`.
  * `NegationKept`, with `ParserInv`. `CallsInv`: whatever the nesting, a call reads a rest
    of the leading words (`Tails`). `UnderstoodInv`: an outer call comes to its matchers
    only when the last one has found nothing, and what is answered is what the words without
    courtesies are matched to; that a matcher reads the body alike in both is `KeywordsHeed`,
    `RegexHeeds` and their neighbours, one for each kind of table. The tables that change
    files read the words before a courtesy is taken away, and see the "don't".
  * `UnderstandingIsSafe`, with `TiersInv`, `KeywordsInv` and `SpokenInv`. `Sound`: a reading
    lacks nothing that it is sure of, so what a tier executes is complete. `NearInv`: a tie
    stays open until it is asked about or a better reading has come; `ExplainsInv` and
    `InformsInv` follow a question through the tiers, `ModelInv` what the model proposed.
    `SpokenInv` says that what was read and what is left to read lead to the number that
    was said (`Leaves`), and `PhraseCounts`, by cases on the size of the number, that its
    words do, for every number that the readers know.
  * `PlansStop`: results end at the first failure, each result that is used is one of an
    earlier call, and who raises after a step has come to a number before the first
    (`PlannerInv`). `AnswerIsWhole`: what was cut and what is held is what
    was received (`BufferInv`); that the flattened pieces grow by the piece cut off is
    `FlattenAppend`, from the recursive function of the community modules.
  * `DeedsKnown`, with `ControlsInv` (each way has its number of tries and each try its
    number of effects, and only an exception ends without a row), `RecorderInv`, `CatalogInv`, `ProgramsInv` and `LevelsInv`. `CatalogInv`
    follows the scan that the request itself has started: unless a second scan has overtaken
    it, what it found, or will find, includes what is there. `MatchInv`: who was chosen by
    resemblance is alone in it; the likenesses are compared as numbers, so ties are
    exact.
  * Action properties: `LimitChunks`, `RadiosAreTrue` (`RadiosInv`: the snapshot is of every
    radio and after a single "on" it is what they were; without a hand and without an
    opposite job a radio that was read as wanted stays so, because whatever another job
    leaves behind half-way is that same state), `LevelIsSaid`, `SettingIsVerified`,
    `AskedOfRunning` (`ProcessesInv`: what a snapshot shows has run lately). They are the
    conjuncts of `CommandsComeTrue` that are not about liveness.
* `EngineProofs`, about the composition `MCEngine` (one overlay, two threads that change
  the dialogue). TLC checked the three invariants on the instance of `engine` first.
  * `StartsAndStops` uses `StartInv` and `EndInv`. `LoadInv`: a thread past the lock of a
    model holds it and, having looked again, has not found the model, so whoever loads is
    alone and loads what is not there. `PlacesInv`: only the running `llm` task is on the
    way to the server, so the moment in which the own server has no handle is its own.
    `CleanInv`: `_cleanup_done` is set for one thread, who alone has steps left, and what
    is done and what is left make up the list (`Cut`); `WriteInv`: only he drains, last.
  * `WindowsFollowed` uses `WindowInv`. What counts in a line of events is the last of a
    kind (`LastOf`): `ToldInv` says that the last state told is the last one scheduled on
    the loop, else the last on its way to a window that was told, else shown. `TruthfulInv`
    follows a choice from the window to the handler and back: the value shown is the
    engine's unless a command or an answer is still under way. `MadeInv` is needed for a
    new connection: nothing knows of it yet. `KeeperInv`: a connection that a broadcast
    has found closed is open to nobody and no client again.
* `TurnProofs`, about the composition `MCTurn`, whose parts are played one at a time: for
  each part an invariant of its own, which TLC checked on the instance of `turn` first.
  * `EarlyHandledOnce` uses `EarlyInv`. `ReservedInv`: until the final transcript is
    checked, and while it is compared, the flag `executed` tells whether a run counts,
    and then exactly one does, of the reserved intent, which is why no second hearer can
    submit; `SettledInv` carries this over the check: what is routed was executed by no
    run that counts, what is not routed by exactly one. That "exactly one" is a
    cardinality of one is `EarlyCount` and a lemma of the library.
  * `RecordingWhole` uses `CaptureInv`. `Pending` is what relates callback and loop: the
    queue and the held chunk are what came after the last chunk taken, in order, without
    what was dropped, also between the two halves of the callback. `Roll` and `Onset`
    carry it into the pre-roll and the speech. `SpeechInv` says that `silence_chunks` is
    the number of quiet chunks since the voice was last heard twice in a row (`LastPair`,
    `QuietFrom`), and `TimeInv` that it is below its target while recording; that
    target depends on `samples`, so the counters are bounded together.
  * `TranscriptChecked` uses `TextInv` (a text is valid; a local one in its language, or
    yet to be looked at), `WayInv` (the order of the backends, and that the cloud is not
    on the way for English) and `StatusInv`.
  * `AnswerSpoken` uses `AnswerInv` and `LookupInv`. `CallInv`: where a mark of the
    reasoning is still open (`TagOpen`), the parser's flag is set, and what was
    accumulated, held, said or cached is words that are not reasoning (`Heard`);
    `WordsInv`: what came is what was said and what waits in the buffer, and the second
    way begins in silence. `KthNumber` and `GreatestNumber`, about finite sets of numbers,
    are shown with a least counterexample. The replies are the set `Replies` of `MCTurn`;
    of it only is used that they are items and that their reasoning is marked.
* `ServicesProofs`, about the composition `MCServices`, whose parts are played one at a
  time, and about `JobQueue`. TLC checked the invariants of the services on the instance
  of `services` first.
  * `StoresAreKept` uses `KnowledgeInv`, `MemoryInv` and `IndexInv`. Of the knowledge
    base `Aligned` and `Durable` are inductive with the types, but that `Without` and
    `With` keep rows, vectors and sources together rests on what `Pick` does: it keeps
    the chosen positions in order. `KthNumber`, `MoreUpTo` and `PickIs` show that a
    position is found by the number of chosen ones up to it, with a least
    counterexample in place of an induction. The
    failing branch of `Fails` needs fewer vectors than rows, so only a store torn by a
    cut or failed save may raise. `NewIsSaved`: a process that has not loaded yet has no
    thread and has saved nothing, so what it loads is sound unless it is `torn`.
    `StoredInv` says of the memory, while its database works, where the turns are that a
    restart must find: in the database, or in the legacy file as long as that is still to
    be imported (`Wanted`), step by step of the import. `IndexInv` adds to
    `FoundUnderItsRoot` and `NothingStale` that a walk under way has a root ahead.
  * `RemindersAreKept` and `CanceledStaysSilent` use `RemindersInv`. `PlaceInv`: a name is
    registered once, no task is in the process as well, and whose timer runs is
    listed. `DueInv`: what may still be shown and does not recur was not.
    `SilentInv`: what the user was told is canceled is nowhere and no thread has read
    its entry, unless one had at that moment.
  * `ModelIsKept` uses `WakeInv`. `FilesInv` follows the promotion: while the live file is
    half written the backup is older than the candidate, and what is damaged is known
    by the step. `SwapInv`: what a loader has read and will store is the live model, or
    it was marked late when the cache was emptied, or the emptying is yet to come.
  * Of the queue: `TypeCorrect`, which includes that a worker holds a row exactly
    while it runs. `QueueServed` is inductive with it. `RunsAreExclusive` needs
    `HeldIsNotQueued`: a row that is held and was not retried cannot be claimed.
    `ExecutionsArePaidFor` is the refinement: each action maps to a ledger step or a
    stutter; the lemmas compute how claim, finish, request, cancel and restart
    change the budget, with the cardinality of the workers that would requeue.

Only model-checked: all liveness properties (`FollowUpSignalServed`, `DueJobIsClaimed`,
`TimerRings`, `Hushed`, `TurnEnds`, and the temporal conjuncts of `ServicesFollow`,
`EngineGoesOn` and `CommandsComeTrue`), because the prover has no rule for fairness and
ENABLED. Counterexamples are TLC's. Every invariant that a run checks, and every conjunct
that is an action property, is also a theorem.

## 6. Plan

What the runs check as safety is proved. What would come next is more of the code: the
wording of answers and the reply language, the metrics, and the rest of the router's
handlers, which are abstracted to their outcomes.
