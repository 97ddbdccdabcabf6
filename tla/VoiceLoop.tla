------------------------------ MODULE VoiceLoop ------------------------------
(***************************************************************************)
(* The hands-free conversation loop of core/orchestrator.py.  Three kinds  *)
(* of threads share the runtime phase (core/runtime_coordinator.py), the   *)
(* dialogue state (core/dialogue_manager.py) and the LLM cancel event:     *)
(*   - the main thread: run() and, inside it, listen_for_wake_word();      *)
(*   - one pipeline thread: _process_utterance(), one call per turn;       *)
(*   - background speakers: timers, early answers, the desktop bridge.     *)
(* Each action is the stretch of code between two points at which another  *)
(* thread can see or change the shared state.  Time is the age of a timed  *)
(* dialogue window: "open", "closing" (under half a second left), "over".  *)
(***************************************************************************)
EXTENDS Naturals, TLAPS

CONSTANTS
  FollowUpEnabled,   \* FOLLOWUP_ENABLED of core/config.py
  Announcers         \* threads outside the turn that call speak_async

ASSUME ConfigAssumption == FollowUpEnabled \in BOOLEAN

Phases == {"idle", "listening", "recording", "transcribing", "routing",
           "executing_command", "thinking", "speaking"}

\* _INTERRUPTIBLE
Interruptible == {"routing", "thinking", "speaking"}

\* EXECUTING is reserved in the code: nothing ever transitions to it.
DialogueStates == {"idle", "listening", "processing", "confirming",
                   "responding", "follow_up"}
TimedStates == {"follow_up", "confirming"}

(***************************************************************************)
(* What a transcript turns out to be: no text at all; an annotation such   *)
(* as "[music]" or a command already run from a partial transcript (both   *)
(* end the turn early); a command the parser recognises; a sentence it     *)
(* reads as LLM_QUERY, which a later routing tier may still resolve to a   *)
(* command ("paraphrase"); several commands in a sentence that as a whole  *)
(* parses as LLM_QUERY ("compound"); or one of _INTERRUPT_COMMANDS.        *)
(***************************************************************************)
Utterances == {"silence", "aside", "command", "question", "paraphrase", "compound", "quiet"}
ParsedAsQuery == {"question", "paraphrase", "compound"}
ChangesTheOS == {"command", "paraphrase", "compound"}

\* Inside request_interrupt(), which holds the coordinator's lock.
Interrupting == {"silence", "cancel", "accept"}
MainPoints == {"top", "adopt", "gate", "listen", "hear", "wake", "turn",
               "settle", "check", "expire", "busy", "record"} \cup Interrupting
TurnPoints == {"none", "queued", "begin", "stt", "ready", "route", "stream",
               "open", "classify", "split", "routing", "decide", "voice", "say",
               "finally", "release", "window", "notify"}

VARIABLES
  phase,          \* coordinator._phase
  dstate,         \* dialogue_manager._state
  clock,          \* age of the timed dialogue state since _state_entered_at
  followUpEvent,  \* _follow_up_wake_event
  llmCancel,      \* llm_cancel_event
  muted,          \* ui_bridge.muted, and speech disabled with it
  speaking,       \* speech_engine.is_speaking()
  mpc,            \* where the main thread is
  source,         \* wake_source of the event it is handling
  seen,           \* the phase it read last
  tpc,            \* where the pipeline thread is; "none": no turn in flight
  utt,            \* what this turn's transcript is
  streaming,      \* a sentence queue was started for this turn
  streamed,       \* at least one sentence went into it
  barged,         \* history: the wake in hand was an accepted interrupt
  promised,       \* history: the follow-up in hand began in an open window
                  \* and no speech had to be waited for
  cut             \* history: the phase was set to LISTENING by an interrupt
                  \* while this turn was THINKING, and no announcer is or
                  \* has been speaking since

shared == <<phase, dstate, clock, followUpEvent, llmCancel, muted, speaking>>
mainVars == <<mpc, source, seen, barged, promised>>
turnVars == <<tpc, utt, streaming, streamed, cut>>
vars == <<shared, mainVars, turnVars>>

Init ==
  /\ phase = "idle"
  /\ dstate = "idle"
  /\ clock = "open"
  /\ followUpEvent = FALSE
  /\ llmCancel = FALSE
  /\ muted = FALSE
  /\ speaking = FALSE
  /\ mpc = "top"
  /\ source = "wake"
  /\ seen = "idle"
  /\ barged = FALSE
  /\ promised = FALSE
  /\ tpc = "none"
  /\ utt = "silence"
  /\ streaming = FALSE
  /\ streamed = FALSE
  /\ cut = FALSE

-----------------------------------------------------------------------------
(* The operations of the three shared objects.                             *)

\* RuntimeCoordinator.set_phase waits for the lock.  Reading does not.
SetPhase(p) == mpc \notin Interrupting /\ phase' = p

\* DialogueManager.transition: going IDLE also discards a pending signal.
Transition(s) ==
  /\ dstate' = s
  /\ clock' = "open"
  /\ followUpEvent' = (followUpEvent /\ s # "idle")

dialogue == <<dstate, clock, followUpEvent>>

\* dialogue_manager.time_remaining() >= 0.5
TimeRemains == dstate \in TimedStates /\ clock = "open"

\* DialogueManager.state: an expired window is idle; the signal is not cleared.
CurrentState == IF dstate \in TimedStates /\ clock = "over" THEN "idle" ELSE dstate

SkipWakeWord == FollowUpEnabled /\ CurrentState \in TimedStates

\* speak_async and speak_sentence_queue: nothing happens while disabled.
StartSpeech == speaking' = (speaking \/ ~muted)

\* RuntimeCoordinator.request_interrupt
InterruptAccepted == phase \in Interruptible

-----------------------------------------------------------------------------
(* The main thread: run().                                                 *)

Main(from, to) == mpc = from /\ mpc' = to

\* While the bridge is muted the loop only sleeps at its top.
ReadPhase ==
  /\ Main("top", "adopt")
  /\ ~muted
  /\ seen' = phase
  /\ UNCHANGED <<shared, turnVars, source, barged, promised>>

\* Only a phase read as IDLE or LISTENING is replaced.
AdoptPhase ==
  /\ Main("adopt", "gate")
  /\ SetPhase(IF seen \notin {"idle", "listening"} THEN phase
              ELSE IF speaking THEN "speaking" ELSE "listening")
  /\ UNCHANGED <<dialogue, llmCancel, muted, speaking, turnVars, source, seen, barged, promised>>

\* should_skip_wake_word(): an open window bypasses the wake word.
Gate ==
  /\ mpc = "gate"
  /\ IF SkipWakeWord
     THEN mpc' = "turn" /\ source' = "follow_up" /\ barged' = FALSE
     ELSE mpc' = "listen" /\ UNCHANGED <<source, barged>>
  /\ dstate' = (IF FollowUpEnabled THEN CurrentState ELSE dstate)
  /\ UNCHANGED <<phase, clock, followUpEvent, llmCancel, muted, speaking, seen, promised, turnVars>>

\* Deviation: the listener does not look at the signal.
ListenerIgnoresFollowUp == FALSE
\* consume_follow_up_wake() in the listener's loop.
FollowUpSignalled == followUpEvent

\* listen_for_wake_word(), before each chunk of audio.
ListenCheck ==
  /\ mpc = "listen"
  /\ IF FollowUpSignalled
     THEN /\ mpc' = "turn"
          /\ source' = "follow_up"
          /\ barged' = FALSE
          /\ followUpEvent' = FALSE
     ELSE mpc' = "hear" /\ UNCHANGED <<source, barged, followUpEvent>>
  /\ UNCHANGED <<phase, dstate, clock, llmCancel, muted, speaking, seen, promised, turnVars>>

HearNothing ==
  /\ Main("hear", "listen")
  /\ UNCHANGED <<shared, turnVars, source, seen, barged, promised>>

\* A detection passed the score gate; the listener reads the phase.
HearWake ==
  /\ Main("hear", "wake")
  /\ seen' = phase
  /\ UNCHANGED <<shared, turnVars, source, barged, promised>>

WakeBlocked ==
  /\ Main("wake", "listen")
  /\ seen = "executing_command"
  /\ UNCHANGED <<shared, turnVars, source, seen, barged, promised>>

\* Phases in which the wake word just starts a turn.
WakePlain ==
  /\ Main("wake", "turn")
  /\ seen \notin Interruptible \cup {"executing_command"}
  /\ source' = "wake"
  /\ barged' = FALSE
  /\ UNCHANGED <<shared, turnVars, seen, promised>>

(***************************************************************************)
(* request_interrupt() checks the phase again, under the lock, stops the   *)
(* voice (joining its threads for up to two seconds each), sets the cancel *)
(* event and only then sets the phase.                                     *)
(***************************************************************************)
WakeInterrupt ==
  /\ mpc = "wake"
  /\ seen \in Interruptible
  /\ mpc' = (IF InterruptAccepted THEN "silence" ELSE "turn")
  /\ source' = "wake"
  /\ barged' = InterruptAccepted
  /\ UNCHANGED <<shared, seen, promised, turnVars>>

StopVoice ==
  /\ Main("silence", "cancel")
  /\ speaking' = FALSE
  /\ UNCHANGED <<phase, dialogue, llmCancel, muted, turnVars, source, seen, barged, promised>>

CancelAnswer ==
  /\ Main("cancel", "accept")
  /\ llmCancel' = TRUE
  /\ UNCHANGED <<phase, dialogue, muted, speaking, turnVars, source, seen, barged, promised>>

AcceptInterrupt ==
  /\ Main("accept", "turn")
  /\ phase' = "listening"
  /\ cut' = (cut \/ (phase = "thinking" /\ tpc \in {"routing", "decide"} /\ ~speaking))
  /\ UNCHANGED <<dialogue, llmCancel, muted, speaking, source, seen, barged, promised,
                 tpc, utt, streaming, streamed>>

BeginListening ==
  /\ mpc = "turn"
  /\ Transition("listening")
  /\ mpc' = (IF source = "follow_up" THEN "settle" ELSE "busy")
  /\ promised' = (source = "follow_up" /\ TimeRemains)
  /\ UNCHANGED <<phase, llmCancel, muted, speaking, source, seen, barged, turnVars>>

\* _wait_for_tts_completion() gives up after 12 or 30 seconds, so it may end
\* while Jarvis still speaks; reset_window() follows if a clarification waits.
Settle ==
  /\ Main("settle", "check")
  /\ \/ UNCHANGED clock
     \/ dstate \in TimedStates /\ clock' = "open"
  /\ promised' = (promised /\ ~speaking)
  /\ UNCHANGED <<phase, dstate, followUpEvent, llmCancel, muted, speaking,
                 source, seen, barged, turnVars>>

CheckWindow ==
  /\ mpc = "check"
  /\ mpc' = (IF TimeRemains THEN "busy" ELSE "expire")
  /\ UNCHANGED <<shared, turnVars, source, seen, barged, promised>>

ExpireWindow ==
  /\ Main("expire", "top")
  /\ Transition("idle")
  /\ UNCHANGED <<phase, llmCancel, muted, speaking, source, seen, barged, promised, turnVars>>

\* Deviation: a second turn may start while one is in flight.
NoBackpressure == FALSE
\* len(in_flight) >= REALTIME_MAX_PENDING_UTTERANCES, which is 1
Backpressure == tpc # "none"

DropWake ==
  /\ Main("busy", "top")
  /\ Backpressure
  /\ UNCHANGED <<shared, turnVars, source, seen, barged, promised>>

\* Deviation: the turn starts without clearing the LLM cancel event.
CancelKept == llmCancel
\* _llm_cancel.clear()
CancelAtRecording == FALSE

StartRecording ==
  /\ Main("busy", "record")
  /\ ~Backpressure
  /\ SetPhase("recording")
  /\ llmCancel' = CancelAtRecording
  /\ UNCHANGED <<dialogue, muted, speaking, source, seen, barged, promised, turnVars>>

RecordSilence ==
  /\ Main("record", "top")
  /\ IF source = "follow_up" THEN Transition("idle") ELSE UNCHANGED dialogue
  /\ UNCHANGED <<phase, llmCancel, muted, speaking, source, seen, barged, promised, turnVars>>

\* executor.submit(_process_utterance, ...)
RecordSpeech ==
  /\ Main("record", "top")
  /\ tpc' = "queued"
  /\ cut' = FALSE
  /\ streaming' = FALSE
  /\ streamed' = FALSE
  /\ UNCHANGED <<shared, source, seen, barged, promised, utt>>

-----------------------------------------------------------------------------
(* The pipeline thread: _process_utterance().  A recording that reaches it *)
(* contains speech, so its noise guard never rejects one.                  *)

Turn(from, to) == tpc = from /\ tpc' = to

BeginProcessing ==
  /\ Turn("queued", "begin")
  /\ Transition("processing")
  /\ UNCHANGED <<phase, llmCancel, muted, speaking, mainVars, utt, streaming, streamed, cut>>

BeginTranscribing ==
  /\ Turn("begin", "stt")
  /\ SetPhase("transcribing")
  /\ UNCHANGED <<dialogue, llmCancel, muted, speaking, mainVars, utt, streaming, streamed, cut>>

Transcribe ==
  /\ tpc = "stt"
  /\ \E u \in Utterances :
       /\ utt' = u
       /\ tpc' = (IF u \in {"silence", "aside"} THEN "finally" ELSE "ready")
  /\ UNCHANGED <<shared, mainVars, streaming, streamed, cut>>

BeginResponding ==
  /\ Turn("ready", "route")
  /\ Transition("responding")
  /\ UNCHANGED <<phase, llmCancel, muted, speaking, mainVars, utt, streaming, streamed, cut>>

BeginRouting ==
  /\ tpc = "route"
  /\ SetPhase("routing")
  /\ tpc' = (IF utt \in {"question", "paraphrase"} THEN "stream" ELSE "classify")
  /\ UNCHANGED <<dialogue, llmCancel, muted, speaking, mainVars, utt, streaming, streamed, cut>>

\* A parsed LLM query is answered sentence by sentence; the phase is set
\* before speak_sentence_queue() is called.
BeginStreaming ==
  /\ Turn("stream", "open")
  /\ SetPhase("speaking")
  /\ UNCHANGED <<dialogue, llmCancel, muted, speaking, mainVars, utt, streaming, streamed, cut>>

OpenSentenceQueue ==
  /\ Turn("open", "classify")
  /\ StartSpeech
  /\ streaming' = ~muted
  /\ UNCHANGED <<phase, dialogue, llmCancel, muted, mainVars, utt, streamed, cut>>

\* Deviation: the name of a dialogue state is used for the phase.
DialogueName == IF utt \in ParsedAsQuery THEN "thinking" ELSE "executing"
RoutingPhase == IF utt \in ParsedAsQuery THEN "thinking" ELSE "executing_command"

BeginDispatch ==
  /\ tpc = "classify"
  /\ tpc' = (IF utt = "compound" THEN "split" ELSE "routing")
  /\ SetPhase(RoutingPhase)
  /\ UNCHANGED <<dialogue, llmCancel, muted, speaking, mainVars, utt, streaming, streamed, cut>>

\* A compound utterance is a series of commands, however it was parsed.
BeginCompound ==
  /\ Turn("split", "routing")
  /\ SetPhase("executing_command")
  /\ UNCHANGED <<dialogue, llmCancel, muted, speaking, mainVars, utt, streaming, streamed, cut>>

\* route_command() emits sentences while the LLM answers ...
StreamSentence ==
  /\ tpc = "routing"
  /\ utt = "question"
  /\ streaming
  /\ ~streamed
  /\ ~llmCancel
  /\ streamed' = TRUE
  /\ UNCHANGED <<shared, mainVars, tpc, utt, streaming, cut>>

\* ... and returns; the handler of an interrupt phrase silences the voice.
RouteReturns ==
  /\ Turn("routing", "decide")
  /\ speaking' = (speaking /\ utt # "quiet")
  /\ streaming' = streamed
  /\ UNCHANGED <<phase, dialogue, llmCancel, muted, mainVars, utt, streamed, cut>>

\* Deviation: the phase is not looked at before the answer is spoken.
NeverInterrupted == FALSE
Interrupted == phase = "listening"

\* An early answer, spoken by another thread, is not followed by a second.
DecideToSpeak ==
  /\ tpc = "decide"
  /\ \E answered \in {FALSE, Announcers # {}} :
       tpc' = (IF utt # "quiet" /\ ~streaming /\ ~Interrupted /\ ~answered
               THEN "voice" ELSE "finally")
  /\ UNCHANGED <<shared, mainVars, utt, streaming, streamed, cut>>

BeginSpeaking ==
  /\ Turn("voice", "say")
  /\ SetPhase("speaking")
  /\ UNCHANGED <<dialogue, llmCancel, muted, speaking, mainVars, utt, streaming, streamed, cut>>

SpeakResponse ==
  /\ Turn("say", "finally")
  /\ StartSpeech
  /\ UNCHANGED <<phase, dialogue, llmCancel, muted, mainVars, utt, streaming, streamed, cut>>

\* A turn with a text leaves a window for the user to follow up.
AfterTurn == IF utt # "silence" /\ FollowUpEnabled THEN "window" ELSE "none"

\* The finally clause asks whether anything is spoken ...
FinishTurn ==
  /\ tpc = "finally"
  /\ tpc' = (IF speaking THEN AfterTurn ELSE "release")
  /\ UNCHANGED <<shared, mainVars, utt, streaming, streamed, cut>>

\* ... and releases the phase if not.
ReleasePhase ==
  /\ tpc = "release"
  /\ SetPhase("idle")
  /\ tpc' = AfterTurn
  /\ UNCHANGED <<dialogue, llmCancel, muted, speaking, mainVars, utt, streaming, streamed, cut>>

\* CONFIRMING when a PIN is awaited, FOLLOW_UP otherwise.
OpenWindow ==
  /\ Turn("window", "notify")
  /\ \E s \in TimedStates : Transition(s)
  /\ UNCHANGED <<phase, llmCancel, muted, speaking, mainVars, utt, streaming, streamed, cut>>

NotifyFollowUp ==
  /\ Turn("notify", "none")
  /\ followUpEvent' = TRUE
  /\ UNCHANGED <<phase, dstate, clock, llmCancel, muted, speaking, mainVars,
                 utt, streaming, streamed, cut>>

-----------------------------------------------------------------------------
(* The environment: time, the end of speech, other speakers, the bridge.   *)

WindowAges ==
  /\ dstate \in TimedStates
  /\ \/ clock = "open" /\ clock' = "closing"
     \/ clock = "closing" /\ clock' = "over"
  /\ UNCHANGED <<phase, dstate, followUpEvent, llmCancel, muted, speaking, mainVars, turnVars>>

SpeechEnds ==
  /\ speaking
  /\ speaking' = FALSE
  /\ UNCHANGED <<phase, dialogue, llmCancel, muted, mainVars, turnVars>>

Announce(a) ==
  /\ a \in Announcers
  /\ StartSpeech
  /\ cut' = (cut /\ muted)
  /\ UNCHANGED <<phase, dialogue, llmCancel, muted, mainVars, tpc, utt, streaming, streamed>>

ToggleMute ==
  /\ muted' = ~muted
  /\ speaking' = (speaking /\ muted)
  /\ UNCHANGED <<phase, dialogue, llmCancel, mainVars, turnVars>>

MainStep ==
  \/ ReadPhase \/ AdoptPhase \/ Gate
  \/ ListenCheck \/ HearNothing \/ HearWake
  \/ WakeBlocked \/ WakePlain
  \/ WakeInterrupt \/ StopVoice \/ CancelAnswer \/ AcceptInterrupt
  \/ BeginListening \/ Settle \/ CheckWindow \/ ExpireWindow
  \/ DropWake \/ StartRecording \/ RecordSilence \/ RecordSpeech

TurnStep ==
  \/ BeginProcessing \/ BeginTranscribing \/ Transcribe
  \/ BeginResponding \/ BeginRouting
  \/ BeginStreaming \/ OpenSentenceQueue \/ BeginDispatch \/ BeginCompound
  \/ StreamSentence \/ RouteReturns
  \/ DecideToSpeak \/ BeginSpeaking \/ SpeakResponse
  \/ FinishTurn \/ ReleasePhase \/ OpenWindow \/ NotifyFollowUp

Environment ==
  \/ WindowAges \/ SpeechEnds \/ ToggleMute
  \/ \E a \in Announcers : Announce(a)

Next == MainStep \/ TurnStep \/ Environment

Spec == Init /\ [][Next]_vars

(***************************************************************************)
(* Both threads run: a recording is bounded by MAX_RECORD_DURATION, a      *)
(* routed command by the timeouts of the LLM and the tools.  Nothing makes *)
(* a user speak, a window age or a speaker stop.                           *)
(***************************************************************************)
FairSpec == Spec /\ WF_vars(MainStep) /\ WF_vars(TurnStep)

-----------------------------------------------------------------------------
TypeOK ==
  /\ phase \in Phases
  /\ dstate \in DialogueStates
  /\ clock \in {"open", "closing", "over"}
  /\ source \in {"wake", "follow_up"}
  /\ seen \in Phases
  /\ mpc \in MainPoints
  /\ tpc \in TurnPoints
  /\ utt \in Utterances
  /\ followUpEvent \in BOOLEAN
  /\ llmCancel \in BOOLEAN
  /\ muted \in BOOLEAN
  /\ speaking \in BOOLEAN
  /\ streaming \in BOOLEAN
  /\ streamed \in BOOLEAN
  /\ barged \in BOOLEAN
  /\ promised \in BOOLEAN
  /\ cut \in BOOLEAN

(***************************************************************************)
(* While the microphone records a command no earlier turn is in flight,    *)
(* the phase is RECORDING and no cancellation is pending, so neither the   *)
(* previous turn nor an old interrupt can reach into the new one.          *)
(***************************************************************************)
RecordingIsExclusive ==
  mpc = "record" => tpc = "none" /\ phase = "recording" /\ ~llmCancel

Transcribing == {"queued", "begin", "stt", "ready", "route"}

(***************************************************************************)
(* From the moment it is submitted until its text is known, a turn cannot  *)
(* be cancelled: whatever the main thread hears meanwhile, the phase stays *)
(* one that request_interrupt() refuses and the LLM event stays clear.     *)
(***************************************************************************)
TranscriptionProtected ==
  tpc \in Transcribing => phase \in {"recording", "transcribing"} /\ ~llmCancel

(***************************************************************************)
(* What makes the two inductive: at the top of the loop the main thread    *)
(* acts on a phase it read before; while a turn is being transcribed that  *)
(* reading is never one AdoptPhase would replace, and no interrupt is      *)
(* under way.                                                              *)
(***************************************************************************)
ReadingIsHarmless ==
  /\ mpc = "adopt" /\ tpc \in Transcribing => seen \notin {"idle", "listening"}
  /\ mpc \in Interrupting => tpc \notin Transcribing

TurnInv == RecordingIsExclusive /\ TranscriptionProtected /\ ReadingIsHarmless

(***************************************************************************)
(* An answer the LLM was still thinking about when an interrupt set the    *)
(* phase is never spoken afterwards, however the turn, the bridge and the  *)
(* top of the loop interleave, unless an announcer speaks: AdoptPhase then *)
(* replaces the LISTENING by which the turn knows it was interrupted.      *)
(***************************************************************************)
InterruptSilencesAnswer == cut => tpc \notin {"voice", "say"}

(***************************************************************************)
(* Why it holds: a turn is cut only before it has looked at the phase, and *)
(* from then on the phase stays LISTENING until it has.                    *)
(***************************************************************************)
CutInv ==
  /\ cut => tpc \notin Transcribing \cup {"stream", "open", "classify", "split", "voice", "say"}
  /\ cut /\ tpc \in {"routing", "decide"} => phase = "listening" /\ ~speaking

(***************************************************************************)
(* The signal a finished turn leaves for the main thread does not wait for *)
(* ever while the microphone is live: it is consumed or discarded, or the  *)
(* user is already being recorded again.                                   *)
(***************************************************************************)
FollowUpSignalServed ==
  followUpEvent ~> (~followUpEvent \/ muted \/ mpc = "record")

(***************************************************************************)
(* dialogue_manager.py: FOLLOW_UP is a "10-second window after response -- *)
(* user may speak without wake word".  So a follow-up that began while the *)
(* window was open, with no speech to wait for, is not turned away.        *)
(***************************************************************************)
FollowUpWindowHonoured == [][~(ExpireWindow /\ promised)]_vars

\* Not so in this code, see README section 4.
(***************************************************************************)
(* runtime_coordinator.py logs "Interrupt accepted -- TTS/LLM cancelled,   *)
(* ready to listen".  So from the check that accepts it on, a turn that is *)
(* THINKING does not go on to speak its answer.                            *)
(***************************************************************************)
AcceptedIsSilent ==
  [][DecideToSpeak /\ mpc \in Interrupting => tpc' # "voice"]_vars

\* Not so in this code, see README section 4.
(***************************************************************************)
(* runtime_coordinator.py: EXECUTING_COMMAND is "deliberately excluded: a  *)
(* command may already be changing real state there ... and cancelling it  *)
(* mid-action would be unsafe".  So no interrupt is accepted while a turn  *)
(* is running a command.                                                   *)
(***************************************************************************)
InterruptSparesCommands ==
  [][WakeInterrupt /\ barged' => ~(tpc = "routing" /\ utt \in ChangesTheOS)]_vars

\* Not so in this code, see README section 4.
(***************************************************************************)
(* runtime_coordinator.py "tracks the current execution phase": EXECUTING_ *)
(* COMMAND, which blocks the wake word, is the phase of a running turn.    *)
(***************************************************************************)
ExecutingPhaseIsCurrent == phase = "executing_command" => tpc # "none"

\* Not so in this code, see README section 4.
(***************************************************************************)
(* runtime_coordinator.py logs "Interrupt accepted -- TTS/LLM cancelled,   *)
(* ready to listen": the wake word that interrupted is then recorded.      *)
(***************************************************************************)
InterruptIsHeard == [][~(DropWake /\ barged)]_vars

-----------------------------------------------------------------------------
(* What holds of the conversation loop for every set of announcers and     *)
(* either setting of the follow-up feature.                                *)

USE DEF Main, Turn, SetPhase, Interrupting

-----------------------------------------------------------------------------
(* Type correctness: every operation of the three shared objects keeps them *)
(* in range, so the loop never runs on a phase or state it does not know.   *)

\* The phases are phases.
LEMMA PhaseNames ==
  /\ "idle" \in Phases /\ "listening" \in Phases /\ "recording" \in Phases
  /\ "transcribing" \in Phases /\ "routing" \in Phases /\ "speaking" \in Phases
  /\ "executing_command" \in Phases /\ "thinking" \in Phases
  BY DEF Phases

\* The states of the dialogue are states.
LEMMA StateNames ==
  /\ "idle" \in DialogueStates /\ "listening" \in DialogueStates
  /\ "processing" \in DialogueStates /\ "responding" \in DialogueStates
  /\ TimedStates \subseteq DialogueStates
  BY DEF DialogueStates, TimedStates

\* The points of the main thread are points.
LEMMA MainPointNames ==
  /\ "top" \in MainPoints /\ "adopt" \in MainPoints /\ "gate" \in MainPoints
  /\ "listen" \in MainPoints /\ "hear" \in MainPoints /\ "wake" \in MainPoints
  /\ "turn" \in MainPoints /\ "settle" \in MainPoints /\ "check" \in MainPoints
  /\ "expire" \in MainPoints /\ "busy" \in MainPoints /\ "record" \in MainPoints
  /\ "silence" \in MainPoints /\ "cancel" \in MainPoints /\ "accept" \in MainPoints
  BY DEF MainPoints

\* The points of the pipeline thread are points.
LEMMA TurnPointNames ==
  /\ "none" \in TurnPoints /\ "queued" \in TurnPoints /\ "begin" \in TurnPoints
  /\ "stt" \in TurnPoints /\ "ready" \in TurnPoints /\ "route" \in TurnPoints
  /\ "stream" \in TurnPoints /\ "open" \in TurnPoints /\ "classify" \in TurnPoints
  /\ "routing" \in TurnPoints /\ "decide" \in TurnPoints /\ "voice" \in TurnPoints
  /\ "say" \in TurnPoints /\ "finally" \in TurnPoints /\ "window" \in TurnPoints
  /\ "notify" \in TurnPoints /\ "split" \in TurnPoints /\ "release" \in TurnPoints
  BY DEF TurnPoints

(* DialogueManager.transition leaves a known state and a fresh clock. *)
LEMMA TransitionTypes ==
  ASSUME NEW s \in DialogueStates, followUpEvent \in BOOLEAN, Transition(s)
  PROVE  /\ dstate' \in DialogueStates
         /\ clock' \in {"open", "closing", "over"}
         /\ followUpEvent' \in BOOLEAN
  BY Zenon DEF Transition

\* A step of the main thread keeps the types.
LEMMA MainKeepsTypes == TypeOK /\ MainStep => TypeOK'
  <1> SUFFICES ASSUME TypeOK, MainStep PROVE TypeOK'
    OBVIOUS
  <1> USE PhaseNames, MainPointNames DEF TypeOK, shared, dialogue, turnVars
  <1>1. CASE ReadPhase
    BY <1>1 DEF ReadPhase
  <1>2. CASE AdoptPhase
    BY <1>2 DEF AdoptPhase
  <1>3. CASE Gate
    <2>1. dstate' \in DialogueStates
      BY <1>3, StateNames DEF Gate, CurrentState
    <2>2. mpc' \in MainPoints /\ source' \in {"wake", "follow_up"} /\ barged' \in BOOLEAN
      BY <1>3 DEF Gate
    <2>3. QED
      BY <1>3, <2>1, <2>2 DEF Gate
  <1>4. CASE ListenCheck
    <2>1. mpc' \in MainPoints /\ source' \in {"wake", "follow_up"}
      BY <1>4 DEF ListenCheck
    <2>2. followUpEvent' \in BOOLEAN /\ barged' \in BOOLEAN
      BY <1>4 DEF ListenCheck
    <2>3. QED
      BY <1>4, <2>1, <2>2 DEF ListenCheck
  <1>5. CASE HearNothing \/ HearWake \/ WakeBlocked
    BY <1>5 DEF HearNothing, HearWake, WakeBlocked
  <1>6. CASE WakePlain
    BY <1>6 DEF WakePlain
  <1>7. CASE WakeInterrupt
    <2>1. barged' \in BOOLEAN
      <3>1. barged' = InterruptAccepted
        BY <1>7 DEF WakeInterrupt
      <3>2. InterruptAccepted \in BOOLEAN
        BY DEF InterruptAccepted
      <3>3. QED
        BY <3>1, <3>2
    <2>2. mpc' \in MainPoints
      BY <1>7 DEF WakeInterrupt
    <2>3. QED
      BY <1>7, <2>1, <2>2 DEF WakeInterrupt
  <1>16. CASE StopVoice \/ CancelAnswer
    BY <1>16 DEF StopVoice, CancelAnswer
  <1>17. CASE AcceptInterrupt
    <2>1. cut' \in BOOLEAN
      BY <1>17, Zenon DEF AcceptInterrupt
    <2>2. QED
      BY <1>17, <2>1 DEF AcceptInterrupt
  <1>8. CASE BeginListening
    <2>1. promised' \in BOOLEAN
      BY <1>8, Zenon DEF BeginListening, TimeRemains
    <2>2. mpc' \in MainPoints
      BY <1>8 DEF BeginListening
    <2>3. QED
      BY <1>8, <2>1, <2>2, StateNames, TransitionTypes DEF BeginListening
  <1>9. CASE Settle
    <2>1. promised' \in BOOLEAN
      BY <1>9, Zenon DEF Settle
    <2>2. QED
      BY <1>9, <2>1 DEF Settle
  <1>10. CASE CheckWindow \/ DropWake
    BY <1>10 DEF CheckWindow, DropWake
  <1>11. CASE ExpireWindow
    BY <1>11, StateNames, TransitionTypes DEF ExpireWindow
  <1>12. CASE StartRecording
    BY <1>12 DEF StartRecording, CancelAtRecording
  <1>13. CASE RecordSilence
    <2>1. /\ dstate' \in DialogueStates
          /\ clock' \in {"open", "closing", "over"}
          /\ followUpEvent' \in BOOLEAN
      BY <1>13, StateNames, TransitionTypes DEF RecordSilence
    <2>2. QED
      BY <1>13, <2>1 DEF RecordSilence
  <1>14. CASE RecordSpeech
    BY <1>14, TurnPointNames DEF RecordSpeech
  <1>15. QED
    BY <1>1, <1>2, <1>3, <1>4, <1>5, <1>6, <1>7, <1>8, <1>9, <1>10, <1>11,
       <1>12, <1>13, <1>14, <1>16, <1>17 DEF MainStep

\* A step of the pipeline thread keeps the types.
LEMMA TurnKeepsTypes == TypeOK /\ TurnStep => TypeOK'
  <1> SUFFICES ASSUME TypeOK, TurnStep PROVE TypeOK'
    OBVIOUS
  <1> USE PhaseNames, TurnPointNames DEF TypeOK, shared, dialogue, mainVars
  <1>1. CASE BeginProcessing \/ BeginResponding
    BY <1>1, StateNames, TransitionTypes DEF BeginProcessing, BeginResponding
  <1>2. CASE BeginTranscribing \/ BeginRouting \/ BeginStreaming \/ BeginSpeaking
    BY <1>2 DEF BeginTranscribing, BeginRouting, BeginStreaming, BeginSpeaking
  <1>3. CASE Transcribe
    BY <1>3 DEF Transcribe
  <1>4. CASE OpenSentenceQueue \/ SpeakResponse
    <2>1. speaking' \in BOOLEAN /\ streaming' \in BOOLEAN
      BY <1>4, Zenon DEF OpenSentenceQueue, SpeakResponse, StartSpeech
    <2>2. QED
      BY <1>4, <2>1 DEF OpenSentenceQueue, SpeakResponse
  <1>5. CASE BeginDispatch \/ BeginCompound
    BY <1>5 DEF BeginDispatch, BeginCompound, RoutingPhase
  <1>6. CASE StreamSentence \/ DecideToSpeak
    BY <1>6 DEF StreamSentence, DecideToSpeak
  <1>7. CASE RouteReturns
    <2>1. speaking' \in BOOLEAN
      BY <1>7, Zenon DEF RouteReturns
    <2>2. QED
      BY <1>7, <2>1 DEF RouteReturns
  <1>8. CASE FinishTurn \/ ReleasePhase
    BY <1>8 DEF FinishTurn, ReleasePhase, AfterTurn
  <1>9. CASE OpenWindow
    BY <1>9, StateNames, TransitionTypes DEF OpenWindow
  <1>10. CASE NotifyFollowUp
    BY <1>10 DEF NotifyFollowUp
  <1>11. QED
    BY <1>1, <1>2, <1>3, <1>4, <1>5, <1>6, <1>7, <1>8, <1>9, <1>10 DEF TurnStep

\* A step of the environment keeps the types.
LEMMA EnvironmentKeepsTypes == TypeOK /\ Environment => TypeOK'
  <1> SUFFICES ASSUME TypeOK, Environment PROVE TypeOK'
    OBVIOUS
  <1> USE DEF TypeOK, dialogue, mainVars, turnVars
  <1>1. CASE WindowAges
    BY <1>1 DEF WindowAges
  <1>2. CASE SpeechEnds
    BY <1>2 DEF SpeechEnds
  <1>3. CASE ToggleMute
    <2>1. muted' \in BOOLEAN /\ speaking' \in BOOLEAN
      BY <1>3, Zenon DEF ToggleMute
    <2>2. QED
      BY <1>3, <2>1 DEF ToggleMute
  <1>4. CASE \E a \in Announcers : Announce(a)
    <2>1. speaking' \in BOOLEAN
      BY <1>4, Zenon DEF Announce, StartSpeech
    <2>2. QED
      BY <1>4, <2>1 DEF Announce
  <1>5. QED
    BY <1>1, <1>2, <1>3, <1>4 DEF Environment

(* The state of the loop is always well formed. *)
THEOREM TypeCorrect == Spec => []TypeOK
  <1>1. Init => TypeOK
    BY DEF Init, TypeOK, Phases, DialogueStates, MainPoints, TurnPoints, Utterances
  <1>2. TypeOK /\ [Next]_vars => TypeOK'
    <2>1. TypeOK /\ UNCHANGED vars => TypeOK'
      BY DEF TypeOK, vars, shared, mainVars, turnVars
    <2>2. QED
      BY <2>1, MainKeepsTypes, TurnKeepsTypes, EnvironmentKeepsTypes DEF Next
  <1>3. QED
    BY <1>1, <1>2, PTL DEF Spec

-----------------------------------------------------------------------------
(* A recording is exclusive and a transcription cannot be cancelled.  The   *)
(* invariant relates the two threads only through mpc, tpc, the phase and   *)
(* the cancel event, so actions that leave those four alone keep it.        *)

\* A step of the main thread keeps TurnInv.
LEMMA MainKeepsTurnInv == TurnInv /\ MainStep => TurnInv'
  <1> SUFFICES ASSUME TurnInv, MainStep PROVE TurnInv'
    OBVIOUS
  <1> USE DEF TurnInv, RecordingIsExclusive, TranscriptionProtected,
              ReadingIsHarmless, shared, turnVars
  <1>1. CASE ReadPhase
    BY <1>1 DEF ReadPhase
  <1>2. CASE AdoptPhase
    <2>1. tpc \in Transcribing => phase' = phase
      BY <1>2 DEF AdoptPhase
    <2>2. QED
      BY <1>2, <2>1 DEF AdoptPhase
  <1>3. CASE Gate \/ ListenCheck
    BY <1>3 DEF Gate, ListenCheck
  <1>4. CASE HearNothing \/ HearWake \/ WakeBlocked \/ WakePlain
    BY <1>4 DEF HearNothing, HearWake, WakeBlocked, WakePlain
  <1>5. CASE WakeInterrupt
    <2>1. tpc \in Transcribing => ~InterruptAccepted
      BY DEF InterruptAccepted, Interruptible
    <2>2. QED
      BY <1>5, <2>1 DEF WakeInterrupt
  <1>10. CASE StopVoice \/ CancelAnswer \/ AcceptInterrupt
    BY <1>10 DEF StopVoice, CancelAnswer, AcceptInterrupt
  <1>6. CASE BeginListening \/ Settle \/ CheckWindow \/ ExpireWindow \/ DropWake
    BY <1>6 DEF BeginListening, Settle, CheckWindow, ExpireWindow, DropWake
  <1>7. CASE StartRecording
    <2>1. tpc = "none" /\ tpc' = tpc /\ phase' = "recording" /\ ~llmCancel'
      BY <1>7 DEF StartRecording, Backpressure, CancelAtRecording
    <2>2. mpc' = "record" /\ "none" \notin Transcribing
      BY <1>7 DEF StartRecording, Transcribing
    <2>3. QED
      BY <2>1, <2>2
  <1>8. CASE RecordSilence \/ RecordSpeech
    BY <1>8 DEF RecordSilence, RecordSpeech
  <1>9. QED
    BY <1>1, <1>2, <1>3, <1>4, <1>5, <1>6, <1>7, <1>8, <1>10 DEF MainStep

\* A step of the pipeline thread keeps TurnInv.
LEMMA TurnKeepsTurnInv == TurnInv /\ TurnStep => TurnInv'
  <1> SUFFICES ASSUME TurnInv, TurnStep PROVE TurnInv'
    OBVIOUS
  <1> USE DEF TurnInv, RecordingIsExclusive, TranscriptionProtected,
              ReadingIsHarmless, Transcribing, mainVars
  <1>1. mpc' = mpc /\ seen' = seen /\ llmCancel' = llmCancel /\ tpc # "none"
    BY DEF TurnStep, BeginProcessing, BeginTranscribing, Transcribe, BeginResponding,
           BeginRouting, BeginStreaming, OpenSentenceQueue, BeginDispatch, BeginCompound,
           StreamSentence, RouteReturns, DecideToSpeak, BeginSpeaking,
           SpeakResponse, FinishTurn, ReleasePhase, AfterTurn, OpenWindow, NotifyFollowUp, shared
  <1>2. mpc # "record"
    BY <1>1
  <1>3. tpc' \in Transcribing => tpc \in Transcribing /\ phase' \in {phase, "transcribing"}
    BY DEF TurnStep, BeginProcessing, BeginTranscribing, Transcribe, BeginResponding,
           BeginRouting, BeginStreaming, OpenSentenceQueue, BeginDispatch, BeginCompound,
           StreamSentence, RouteReturns, DecideToSpeak, BeginSpeaking,
           SpeakResponse, FinishTurn, ReleasePhase, AfterTurn, OpenWindow, NotifyFollowUp, shared
  <1>4. QED
    BY <1>1, <1>2, <1>3

\* A step of the environment, or none, keeps TurnInv.
LEMMA OthersKeepTurnInv == TurnInv /\ (Environment \/ UNCHANGED vars) => TurnInv'
  BY DEF TurnInv, RecordingIsExclusive, TranscriptionProtected, ReadingIsHarmless,
         Environment, WindowAges, SpeechEnds, ToggleMute, Announce, vars, shared,
         mainVars, turnVars

\* TurnInv holds throughout.
LEMMA TurnInvHolds == Spec => []TurnInv
  <1>1. Init => TurnInv
    BY DEF Init, TurnInv, RecordingIsExclusive, TranscriptionProtected,
           ReadingIsHarmless, Transcribing
  <1>2. TurnInv /\ [Next]_vars => TurnInv'
    BY MainKeepsTurnInv, TurnKeepsTurnInv, OthersKeepTurnInv DEF Next
  <1>3. QED
    BY <1>1, <1>2, PTL DEF Spec

(***************************************************************************)
(* A recording never shares the pipeline with an earlier turn.             *)
(***************************************************************************)
THEOREM RecordingsAreExclusive == Spec => []RecordingIsExclusive
  <1>1. TurnInv => RecordingIsExclusive
    BY DEF TurnInv
  <1>2. QED
    BY <1>1, TurnInvHolds, PTL

(***************************************************************************)
(* Nothing the main thread hears cancels a turn that is being transcribed. *)
(***************************************************************************)
THEOREM TranscriptionsAreProtected == Spec => []TranscriptionProtected
  <1>1. TurnInv => TranscriptionProtected
    BY DEF TurnInv
  <1>2. QED
    BY <1>1, TurnInvHolds, PTL

-----------------------------------------------------------------------------
(* An interrupted answer stays unspoken until somebody else has spoken.     *)

\* A step of the main thread keeps CutInv.
LEMMA MainKeepsCutInv == CutInv /\ MainStep => CutInv'
  <1> SUFFICES ASSUME CutInv, MainStep PROVE CutInv'
    OBVIOUS
  <1> USE DEF CutInv, shared, turnVars
  <1>1. CASE ReadPhase
    BY <1>1 DEF ReadPhase
  <1>2. CASE AdoptPhase
    BY <1>2 DEF AdoptPhase
  <1>3. CASE Gate \/ ListenCheck
    BY <1>3 DEF Gate, ListenCheck
  <1>4. CASE HearNothing \/ HearWake \/ WakeBlocked \/ WakePlain
    BY <1>4 DEF HearNothing, HearWake, WakeBlocked, WakePlain
  <1>5. CASE WakeInterrupt
    BY <1>5 DEF WakeInterrupt
  <1>11. CASE StopVoice \/ CancelAnswer
    BY <1>11 DEF StopVoice, CancelAnswer
  <1>12. CASE AcceptInterrupt
    <2>1. /\ tpc' = tpc /\ phase' = "listening" /\ speaking' = speaking
          /\ cut' => cut \/ (tpc \in {"routing", "decide"} /\ ~speaking)
      BY <1>12 DEF AcceptInterrupt
    <2>2. {"routing", "decide"} \cap (Transcribing \cup {"stream", "open", "classify", "split", "voice", "say"}) = {}
      BY DEF Transcribing
    <2>3. QED
      BY <2>1, <2>2
  <1>6. CASE BeginListening \/ Settle \/ CheckWindow \/ ExpireWindow \/ DropWake
    BY <1>6 DEF BeginListening, Settle, CheckWindow, ExpireWindow, DropWake
  <1>7. CASE StartRecording
    <2>1. tpc' = "none" /\ cut' = cut /\ tpc = "none"
      BY <1>7 DEF StartRecording, Backpressure
    <2>2. QED
      BY <2>1
  <1>8. CASE RecordSilence
    BY <1>8 DEF RecordSilence
  <1>9. CASE RecordSpeech
    BY <1>9 DEF RecordSpeech
  <1>10. QED
    BY <1>1, <1>2, <1>3, <1>4, <1>5, <1>6, <1>7, <1>8, <1>9, <1>11, <1>12 DEF MainStep

\* A step of the pipeline thread keeps CutInv.
LEMMA TurnKeepsCutInv == CutInv /\ TurnStep => CutInv'
  <1> SUFFICES ASSUME CutInv, TurnStep PROVE CutInv'
    OBVIOUS
  <1>1. CASE ~cut
    <2>1. ~cut'
      BY <1>1 DEF TurnStep, BeginProcessing, BeginTranscribing, Transcribe, BeginResponding,
           BeginRouting, BeginStreaming, OpenSentenceQueue, BeginDispatch, BeginCompound,
           StreamSentence, RouteReturns, DecideToSpeak, BeginSpeaking,
           SpeakResponse, FinishTurn, ReleasePhase, AfterTurn, OpenWindow, NotifyFollowUp
    <2>2. QED
      BY <2>1 DEF CutInv
  <1>2. CASE cut
    <2>1. tpc \notin Transcribing \cup {"stream", "open", "classify", "split", "voice", "say"}
      BY <1>2 DEF CutInv
    <2>2. CASE StreamSentence
      BY <1>2, <2>2 DEF CutInv, StreamSentence, shared
    <2>3. CASE RouteReturns
      <3>1. ~speaking /\ phase = "listening"
        BY <1>2, <2>3 DEF CutInv, RouteReturns
      <3>2. tpc' = "decide" /\ ~speaking' /\ phase' = "listening"
        BY <3>1, <2>3 DEF RouteReturns
      <3>3. QED
        BY <3>2 DEF CutInv, Transcribing
    <2>4. CASE DecideToSpeak
      <3>1. Interrupted
        BY <1>2, <2>4 DEF CutInv, DecideToSpeak, Interrupted
      <3>2. tpc' = "finally"
        BY <3>1, <2>4 DEF DecideToSpeak
      <3>3. QED
        BY <3>2 DEF CutInv, Transcribing
    <2>5. CASE FinishTurn \/ ReleasePhase \/ OpenWindow \/ NotifyFollowUp
      <3>1. tpc' \in {"release", "window", "notify", "none"}
        BY <2>5 DEF FinishTurn, ReleasePhase, AfterTurn, OpenWindow, NotifyFollowUp
      <3>2. QED
        BY <3>1 DEF CutInv, Transcribing
    <2>6. QED
      BY <2>1, <2>2, <2>3, <2>4, <2>5
         DEF TurnStep, BeginProcessing, BeginTranscribing, Transcribe,
             BeginResponding, BeginRouting, BeginStreaming, OpenSentenceQueue,
             BeginDispatch, BeginCompound, BeginSpeaking, SpeakResponse, Transcribing
  <1>3. QED
    BY <1>1, <1>2

\* A step of the environment, or none, keeps CutInv.
LEMMA OthersKeepCutInv == CutInv /\ (Environment \/ UNCHANGED vars) => CutInv'
  <1> SUFFICES ASSUME CutInv, Environment \/ UNCHANGED vars PROVE CutInv'
    OBVIOUS
  <1>1. CASE WindowAges \/ SpeechEnds \/ ToggleMute \/ UNCHANGED vars
    <2>1. phase' = phase /\ tpc' = tpc /\ cut' = cut
      BY <1>1 DEF WindowAges, SpeechEnds, ToggleMute, vars, shared, turnVars
    <2>2. ~speaking => ~speaking'
      BY <1>1 DEF SpeechEnds, ToggleMute, WindowAges, vars, shared
    <2>3. QED
      BY <2>1, <2>2 DEF CutInv
  <1>2. ASSUME NEW a \in Announcers, Announce(a) PROVE CutInv'
    <2>1. phase' = phase /\ tpc' = tpc
      BY <1>2 DEF Announce
    <2>2. cut' => cut /\ muted
      BY <1>2 DEF Announce
    <2>3. muted /\ ~speaking => ~speaking'
      BY <1>2 DEF Announce, StartSpeech
    <2>4. QED
      BY <2>1, <2>2, <2>3 DEF CutInv
  <1>3. QED
    BY <1>1, <1>2 DEF Environment

(***************************************************************************)
(* An answer interrupted while the LLM was thinking is never spoken, until *)
(* a timer, an early answer or a bridge command has spoken in between.     *)
(***************************************************************************)
THEOREM InterruptSilences == Spec => []InterruptSilencesAnswer
  <1>1. Init => CutInv
    BY DEF Init, CutInv
  <1>2. CutInv /\ [Next]_vars => CutInv'
    BY MainKeepsCutInv, TurnKeepsCutInv, OthersKeepCutInv DEF Next
  <1>3. CutInv => InterruptSilencesAnswer
    BY DEF CutInv, InterruptSilencesAnswer
  <1>4. QED
    BY <1>1, <1>2, <1>3, PTL DEF Spec
=============================================================================
