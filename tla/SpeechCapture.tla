---------------------------- MODULE SpeechCapture ----------------------------
(***************************************************************************)
(* StreamingSTT of audio/streaming_stt.py: the audio callback puts chunks  *)
(* into a bounded queue; the recording loop keeps a pre-roll, detects the  *)
(* onset of speech, counts silence and decides when the utterance is over; *)
(* meanwhile one window at a time is transcribed by another thread.  A     *)
(* chunk is its number and whether its energy is over the threshold; time  *)
(* is counted in chunks.                                                   *)
(***************************************************************************)
EXTENDS Naturals, Sequences, FiniteSets

CONSTANTS
  MaxChunks,     \* max_duration
  StartTimeout,  \* start_timeout_seconds
  MaxSpeech,     \* max_speech_seconds
  MinSpeech,     \* min_speech_seconds
  PreRoll,       \* pre_roll_seconds
  BaseSilence,   \* the silence that ends a short utterance
  MaxSilence,    \* the silence that ends one of GraceSpeech chunks and more
  GraceSpeech,
  QueueSize,     \* of _chunk_queue
  MaxHeard,      \* bound: chunks the microphone delivers
  Texts,         \* what a window may be transcribed to, "" included
  Arabic,        \* those of Arabic script alone
  Mixed,         \* those of both scripts
  MaxWindows     \* bound: windows that are transcribed

VARIABLES
  heard,     \* chunks the microphone has delivered
  mic,       \* _audio_callback(): between chunks, or holding one
  queue,     \* _chunk_queue
  index,     \* iterations of the loop
  pre,       \* pre_roll
  captured,  \* captured_chunks
  onset,     \* speech_started_index + 1, 0 before the speech
  samples,   \* speech_samples
  silence,   \* silence_chunks
  run,       \* voiced_run
  window,    \* partial_future and its thread
  gate,      \* _ar_pending_partial and its count
  reason,    \* stop_reason; "" while recording
  dropped,   \* history: chunks that were dropped from the queue
  texts,     \* history: texts of the windows
  emitted    \* history: texts given to on_partial()

device == <<heard, mic, queue>>
counters == <<pre, captured, onset, samples, silence, run>>
partials == <<window, gate, texts, emitted>>
vars == <<device, index, counters, partials, reason, dropped>>

Init ==
  /\ heard = 0 /\ mic = <<>> /\ queue = <<>>
  /\ index = 0
  /\ pre = <<>> /\ captured = <<>> /\ onset = 0
  /\ samples = 0 /\ silence = 0 /\ run = 0
  /\ window = [pc |-> "none", last |-> ""]
  /\ gate = [text |-> "", count |-> 0]
  /\ reason = ""
  /\ dropped = {} /\ texts = <<>> /\ emitted = {}

Recording == reason = "" /\ index < MaxChunks
LastOf(s, n) == IF Len(s) <= n THEN s ELSE SubSeq(s, Len(s) - n + 1, Len(s))

-----------------------------------------------------------------------------
(* The audio callback.  It finds the queue full, drops the oldest chunk    *)
(* and puts its own: the loop may take one in between.                     *)

Deliver(voiced) ==
  /\ reason = "" /\ mic = <<>> /\ heard < MaxHeard
  /\ heard' = heard + 1
  /\ LET c == [n |-> heard + 1, voiced |-> voiced] IN
       IF Len(queue) < QueueSize
       THEN queue' = Append(queue, c) /\ UNCHANGED mic
       ELSE mic' = <<c>> /\ UNCHANGED queue
  /\ UNCHANGED <<index, counters, partials, reason, dropped>>

Rest(q) == IF q = <<>> THEN q ELSE Tail(q)

DropOldest ==
  /\ mic # <<>>
  /\ queue' = Rest(queue) \o mic
  /\ dropped' = IF queue = <<>> THEN dropped ELSE dropped \cup {Head(queue).n}
  /\ mic' = <<>>
  /\ UNCHANGED <<heard, index, counters, partials, reason>>

-----------------------------------------------------------------------------
(* The recording loop, one action for each way through an iteration.       *)

\* Deviation: an iteration without a chunk is not counted.
NotCounted == index
Counted == index + 1

\* Nothing came for a tenth of a second; the clock may have reached max_duration.
Idle ==
  /\ Recording /\ queue = <<>>
  /\ \/ reason' = "" /\ index' = Counted
     \/ onset > 0 /\ reason' = "max_duration" /\ UNCHANGED index
  /\ UNCHANGED <<device, counters, partials, dropped>>

Take(c) == Recording /\ queue # <<>> /\ c = Head(queue) /\ queue' = Tail(queue)

\* Not speech yet: a chunk of the pre-roll.
BeforeSpeech ==
  /\ onset = 0
  /\ \E c \in {queue[i] : i \in 1..Len(queue)} :
       /\ Take(c) /\ ~c.voiced
       /\ pre' = LastOf(Append(pre, c), PreRoll)
  /\ reason' = IF index >= StartTimeout THEN "start_timeout" ELSE ""
  /\ index' = index + 1
  /\ UNCHANGED <<heard, mic, captured, onset, samples, silence, run, partials, dropped>>

\* adaptive_silence_seconds(), in chunks
Least(a, b) == IF a < b THEN a ELSE b
SilenceTarget(n) == BaseSilence + (((MaxSilence - BaseSilence) * Least(n, GraceSpeech)) \div GraceSpeech)

VoicedTwice == 2

WithPreRoll(c) == LastOf(Append(pre, c), PreRoll)

Stops(n, quiet, first) ==
  CASE n >= MinSpeech /\ quiet >= SilenceTarget(n) -> "silence"
    [] index + 1 - first + 1 >= MaxSpeech          -> "max_speech_cap"
    [] OTHER                                       -> ""

\* Speech, from its first voiced chunk on: that chunk comes with the pre-roll, then
\* once more.
Speech ==
  /\ \E c \in {queue[i] : i \in 1..Len(queue)} :
       /\ Take(c)
       /\ onset > 0 \/ c.voiced
       /\ captured' = IF onset = 0 THEN WithPreRoll(c) \o <<c>> ELSE Append(captured, c)
       /\ run' = IF c.voiced THEN run + 1 ELSE 0
       /\ silence' = CASE onset = 0                             -> 0
                       [] ~c.voiced                             -> silence + 1
                       [] c.voiced /\ run + 1 >= VoicedTwice    -> 0
                       [] OTHER                                 -> silence
  /\ onset' = IF onset = 0 THEN index + 1 ELSE onset
  /\ pre' = IF onset = 0 THEN <<>> ELSE pre
  /\ samples' = samples + 1
  /\ reason' = Stops(samples', silence', onset')
  /\ index' = index + 1
  /\ UNCHANGED <<heard, mic, partials, dropped>>

Exhausted ==
  /\ reason = "" /\ index = MaxChunks
  /\ reason' = "max_chunks"
  /\ UNCHANGED <<device, index, counters, partials, dropped>>

-----------------------------------------------------------------------------
(* Partial windows.                                                        *)

Submit ==
  /\ Recording /\ onset > 0 /\ Len(texts) < MaxWindows
  /\ window.pc = "none"
  /\ window' = [window EXCEPT !.pc = "submitted"]
  /\ UNCHANGED <<device, index, counters, gate, texts, emitted, reason, dropped>>

\* A window that has not begun when the recording ends is canceled, or returns at once.
Begin ==
  /\ window.pc = "submitted"
  /\ window' = [window EXCEPT !.pc = IF reason = "" THEN "listening" ELSE "over"]
  /\ UNCHANGED <<device, index, counters, gate, texts, emitted, reason, dropped>>

\* Deviation: the count goes on whatever the text.
CountAll(t) == gate.count + 1
Count(t) == IF gate.text = t THEN gate.count + 1 ELSE 1

\* Arabic text is emitted when it was heard twice; no text is emitted twice in a row.
Transcribe ==
  /\ window.pc = "listening"
  /\ \E t \in Texts :
       LET ripe == t \notin Arabic \/ Count(t) >= 2
           news == t # "" /\ ripe /\ t # window.last IN
         /\ texts' = Append(texts, t)
         /\ gate' = IF t \in Arabic \cup Mixed THEN [text |-> t, count |-> Least(Count(t), 2)] ELSE gate
         /\ emitted' = IF news THEN emitted \cup {t} ELSE emitted
         /\ window' = [pc |-> "none", last |-> IF news THEN t ELSE window.last]
  /\ UNCHANGED <<device, index, counters, reason, dropped>>

Loop == Idle \/ BeforeSpeech \/ Speech \/ Exhausted

Next ==
  \/ \E voiced \in BOOLEAN : Deliver(voiced)
  \/ DropOldest
  \/ Loop
  \/ Submit \/ Begin \/ Transcribe

Spec == Init /\ [][Next]_vars /\ WF_vars(Loop)

-----------------------------------------------------------------------------
TypeOK ==
  /\ heard \in 0..MaxHeard /\ index \in 0..MaxChunks /\ onset \in 0..MaxChunks
  /\ Len(mic) <= 1 /\ Len(queue) <= QueueSize /\ Len(pre) <= PreRoll
  /\ samples \in 0..MaxSpeech /\ silence \in 0..samples /\ run \in 0..samples
  /\ window.pc \in {"none", "submitted", "listening", "over"} /\ window.last \in Texts
  /\ gate.count \in 0..2 /\ gate.text \in Texts
  /\ reason \in {"", "max_duration", "start_timeout", "silence", "max_speech_cap", "max_chunks"}
  /\ emitted \subseteq Texts

FirstVoiced == CHOOSE k \in 1..Len(captured) :
                 captured[k].voiced /\ \A i \in 1..k - 1 : ~captured[i].voiced

\* What was said is captured without a hole: between two chunks that follow each
\* other only what the full queue dropped is missing, whatever the callback and the
\* loop do at the same time.
NothingLost ==
  \A k \in 2..Len(captured) :
    LET a == captured[k - 1].n
        b == captured[k].n IN
      \/ a < b /\ a + 1..b - 1 \subseteq dropped
      \/ a = b /\ k = FirstVoiced + 1

\* The onset comes with the pre-roll, or with all there was before it.
OnsetKept ==
  captured # <<>> => FirstVoiced = PreRoll \/ 1..captured[1].n - 1 \subseteq dropped

\* The chunks of the speech after the last two voiced ones in a row
Pause ==
  LET Pair(k) == k > FirstVoiced + 1 /\ captured[k].voiced /\ captured[k - 1].voiced
      last == {k \in 1..Len(captured) : Pair(k)} \cup {FirstVoiced}
      m == CHOOSE k \in last : \A i \in last : i <= k IN
    {k \in m + 1..Len(captured) : ~captured[k].voiced}

\* One noisy chunk in a pause does not postpone the end: it comes when there were
\* enough quiet ones since the voice was last heard twice in a row.
PauseEnds ==
  captured # <<>> /\ reason = "" /\ samples >= MinSpeech
    => Cardinality(Pause) < SilenceTarget(samples)

\* Arabic text that is emitted was heard twice with no other Arabic text between.
ArabicConfirmed ==
  \A t \in emitted \cap Arabic :
    \E k \in 2..Len(texts), i \in 1..Len(texts) :
      /\ i < k /\ texts[i] = t /\ texts[k] = t
      /\ \A m \in i + 1..k - 1 : texts[m] \notin Arabic

\* The recording ends, whatever the microphone delivers or does not.
Ends == <>(reason # "")
=============================================================================
