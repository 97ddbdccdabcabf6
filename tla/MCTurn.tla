------------------------------- MODULE MCTurn -------------------------------
(* One turn for TLC, from the microphone to the answer: what is recorded,  *)
(* what is executed early, what is transcribed, what is looked up for it    *)
(* and what the model answers, one of them at a time.                       *)
EXTENDS Naturals, Sequences

CONSTANTS Commands, Windows, Passes, MaxRuns,
          MaxChunks, StartTimeout, MaxSpeech, MinSpeech, PreRoll, BaseSilence, MaxSilence,
          GraceSpeech, QueueSize, MaxHeard, Partials, Arabic, Mixed, MaxWindows,
          MaxCalls, Models, MaxLine, MaxAsked,
          Cities, Home, MaxTurns

VARIABLES
  part,
  turn, hearing, windows, segments, executed, intent, prev, spoken, future, runs, utter,
  routed, answers, streak, overtaken, orphaned,
  heard, mic, queue, index, pre, captured, onset, samples, silence, run, window, gate,
  reason, dropped, texts, emitted,
  lock, retry, net, whisper, hint, stage, chain, failed, locked, result, status, resting, sentOut,
  decodes, shutdown, calls,
  thinker, at, short, reply, sent, inside, acc, held, said, tried, failures, returned, cause,
  cancel, cache, asked,
  round, stand, text, ahead, context, fetching, block, answer

earlyVars == <<turn, hearing, windows, segments, executed, intent, prev, spoken, future, runs,
               utter, routed, answers, streak, overtaken, orphaned>>
captureVars == <<heard, mic, queue, index, pre, captured, onset, samples, silence, run, window,
                 gate, reason, dropped, texts, emitted>>
trVars == <<lock, retry, net, whisper, hint, stage, chain, failed, locked, result, status,
            resting, sentOut, decodes, shutdown, calls>>
laVars == <<thinker, at, short, reply, sent, inside, acc, held, said, tried, failures,
            returned, cause, cancel, cache, asked>>
llVars == <<round, stand, text, ahead, context, fetching, block, answer>>
vars == <<part, earlyVars, captureVars, trVars, laVars, llVars>>

\* An empty reply, one without reasoning, reasoning first, twice, never closed, and one that
\* starts with its end.
Replies == { <<>>, <<"say", "say">>, <<"open", "muse", "close", "say">>,
             <<"say", "open", "muse", "muse", "close", "say", "say">>, <<"open", "muse">>,
             <<"open", "close", "say", "open", "muse", "close">> }

Early       == INSTANCE EarlyExecution
Capture     == INSTANCE SpeechCapture WITH Texts <- Partials
Transcriber == INSTANCE Transcriber WITH at <- stage, Locks <- BOOLEAN, Retries <- BOOLEAN, Nets <- BOOLEAN, Engines <- BOOLEAN
Answer      == INSTANCE LlmAnswer WITH spoken <- said, Thinkers <- BOOLEAN
Lookup      == INSTANCE LiveLookup WITH turn <- round

\* The limits are numbers, those of a queue, a pre-roll, the speech and the turns are not zero.
ASSUME LimitAssumption ==
  /\ Windows \in Nat /\ Passes \in Nat /\ MaxRuns \in Nat
  /\ MaxChunks \in Nat /\ StartTimeout \in Nat /\ MaxSpeech \in Nat \ {0} /\ MinSpeech \in Nat
  /\ PreRoll \in Nat \ {0} /\ BaseSilence \in Nat /\ MaxSilence \in Nat /\ GraceSpeech \in Nat \ {0}
  /\ QueueSize \in Nat \ {0} /\ MaxHeard \in Nat /\ MaxWindows \in Nat
  /\ Models \in Nat /\ MaxLine \in Nat /\ MaxTurns \in Nat \ {0}

\* What stands for no command is none; a window may be heard as nothing.
ASSUME NameAssumption == "none" \notin Commands /\ "other" \notin Commands /\ "" \in Partials

\* A part that is not played starts in one state.
Init ==
  /\ part \in {"early", "capture", "transcriber", "answer", "lookup"}
  /\ Early!Init /\ Capture!Init /\ Transcriber!Init /\ Answer!Init
  /\ Lookup!Init
  /\ part # "transcriber" => lock /\ retry /\ net /\ whisper
  /\ part # "answer" => thinker

OfEarly(A)       == part = "early" /\ A /\ UNCHANGED <<part, captureVars, trVars, laVars, llVars>>
OfCapture(A)     == part = "capture" /\ A /\ UNCHANGED <<part, earlyVars, trVars, laVars, llVars>>
OfTranscriber(A) == part = "transcriber" /\ A /\ UNCHANGED <<part, earlyVars, captureVars, laVars, llVars>>
OfAnswer(A)      == part = "answer" /\ A /\ UNCHANGED <<part, earlyVars, captureVars, trVars, llVars>>
OfLookup(A)      == part = "lookup" /\ A /\ UNCHANGED <<part, earlyVars, captureVars, trVars, laVars>>

Next ==
  \/ OfEarly(Early!Next) \/ OfCapture(Capture!Next)
  \/ OfTranscriber(Transcriber!Next) \/ OfAnswer(Answer!Next)
  \/ OfLookup(Lookup!Next)

\* The recording loop, the chain of backends, the lookup and the call of the model go on.
Spec ==
  /\ Init /\ [][Next]_vars
  /\ WF_vars(OfCapture(Capture!Loop))
  /\ WF_vars(OfTranscriber(Transcriber!CallStep))
  /\ WF_vars(OfAnswer(Answer!CallStep))
  /\ WF_vars(OfLookup(Lookup!Works))

\* A command heard in a partial transcript is handled once, by one of three threads, and its
\* answer is spoken, see EarlyExecution.
EarlyIsHandledOnce ==
  /\ Early!TypeOK /\ Early!HandledOnce /\ Early!OneAtATime /\ Early!EarlyIsStable
  /\ Early!RouteIsAnswered

\* A recording has no hole, keeps its onset and ends at a pause, see SpeechCapture.
RecordingIsWhole ==
  /\ Capture!TypeOK /\ Capture!NothingLost /\ Capture!OnsetKept /\ Capture!PauseEnds
  /\ Capture!ArabicConfirmed

\* What the chain of recognisers returns was checked, and English stays on the machine, see
\* Transcriber.
TranscriptIsChecked ==
  /\ Transcriber!TypeOK /\ Transcriber!OkIsChecked /\ Transcriber!EnglishStaysHere
  /\ Transcriber!TextIsOk
FloorIsSilence == Transcriber!FloorIsSilence

\* What is said of the language model's answer is what is returned, once and without its
\* reasoning, and rests on what was looked up in its own turn: see LlmAnswer and LiveLookup.
AnswerIsSpoken ==
  /\ Lookup!TypeOK /\ Lookup!ContextIsOfTheTurn /\ Lookup!AnsweredFromFound
  /\ Answer!TypeOK /\ Answer!ReasoningIsSilent /\ Answer!SpokenIsReturned /\ Answer!AskedInSilence

\* Recording, transcription, lookup and answer come to their ends, see SpeechCapture,
\* Transcriber, LiveLookup and LlmAnswer.
TurnEnds ==
  /\ part = "capture" => Capture!Ends
  /\ part = "transcriber" => Transcriber!TranscriptionEnds
  /\ part = "answer" => Answer!QuestionEnds
  /\ part = "lookup" => Lookup!LookupEnds

\* Not so in this code: see LiveLookup.
CityIsKept       == Lookup!CityIsKept
LateIsNotAwaited == Lookup!LateIsNotAwaited
=============================================================================
