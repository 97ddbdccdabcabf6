--------------------------- MODULE EarlyExecution ---------------------------
(***************************************************************************)
(* ConcurrentPipeline of core/orchestrator.py: while an utterance is being *)
(* recorded and transcribed, partial transcripts may have its command      *)
(* executed early; _process_utterance(), on another thread, takes the      *)
(* final transcript and skips, cancels or routes.  Texts are what the      *)
(* parser makes of them: an intent of Commands that may run early, or      *)
(* "other" (another intent, a dangerous action, low confidence).           *)
(***************************************************************************)
EXTENDS Naturals, Sequences, FiniteSets

CONSTANTS
  Commands,   \* intents that may run early
  Windows,    \* bound: partial windows that are transcribed
  Passes,     \* bound: segments of the final transcription, both passes together
  MaxRuns     \* bound: early executions of one utterance

Texts == Commands \cup {"other"}
Hearers == {"window", "turn"}   \* the stt-partial thread; the recording's own

VARIABLES
  turn,      \* the recording's thread: where it is, what it transcribed
  hearing,   \* on_partial() in each thread
  windows,   \* partial windows begun
  segments,  \* segments heard in the final transcription
  executed,  \* _early_executed
  intent,    \* _early_intent_str
  prev,      \* _prev_intent
  spoken,    \* _early_response_spoken
  future,    \* _early_execution_future: a run, or 0
  runs,      \* the early executions
  utter,     \* _process_utterance()
  routed,    \* history: full routes of the utterance
  answers,   \* history: whose answers were spoken
  streak,    \* history: the last two texts heard, in the order of the lock
  overtaken, \* history: a reservation or a failure came after the check
  orphaned   \* history: an early execution was given up that could not be stopped

flags == <<executed, intent, prev, spoken, future>>
history == <<routed, answers, streak, overtaken, orphaned>>
vars == <<turn, hearing, windows, segments, flags, runs, utter, history>>

Idle == [pc |-> "idle", text |-> "none", run |-> 0]

Init ==
  /\ turn = [pc |-> "recording", lang |-> "hint", text |-> "none"]
  /\ hearing = [h \in Hearers |-> Idle]
  /\ windows = 0 /\ segments = 0
  /\ executed = FALSE /\ intent = "none" /\ prev = "none" /\ spoken = FALSE
  /\ future = 0
  /\ runs = <<>>
  /\ utter = [pc |-> "none", text |-> "none"]
  /\ routed = 0 /\ answers = <<>>
  /\ streak = <<"none", "none">>
  /\ overtaken = FALSE /\ orphaned = FALSE

HearerAt(h, point) == hearing[h].pc = point
Hears(h, text) == hearing' = [hearing EXCEPT ![h] = [Idle EXCEPT !.pc = "heard", !.text = text]]
Rests(h) == hearing' = [hearing EXCEPT ![h] = Idle]
Active(run) == run.state \in {"reserved", "queued", "running", "answered"}
Counts(run) == run.state \notin {"canceled", "failed"}
Checked == utter.pc \notin {"none", "stt", "check"}

-----------------------------------------------------------------------------
(* What calls on_partial().                                                *)

\* One window at a time; one that is begun is not stopped by the end of the
\* recording.  It may find nothing to say.
Window ==
  /\ turn.pc = "recording" /\ HearerAt("window", "idle")
  /\ windows < Windows
  /\ windows' = windows + 1
  /\ hearing' = [hearing EXCEPT !["window"].pc = "listening"]
  /\ UNCHANGED <<turn, segments, flags, runs, utter, history>>

Partial ==
  /\ HearerAt("window", "listening")
  /\ Rests("window") \/ \E x \in Texts : Hears("window", x)
  /\ UNCHANGED <<turn, windows, segments, flags, runs, utter, history>>

RecordingEnds ==
  /\ turn.pc = "recording"
  /\ turn' = [turn EXCEPT !.pc = "transcribing"]
  /\ UNCHANGED <<hearing, windows, segments, flags, runs, utter, history>>

\* The final transcription emits each segment, too.
Segment ==
  /\ turn.pc = "transcribing" /\ HearerAt("turn", "idle")
  /\ segments < Passes
  /\ segments' = segments + 1
  /\ \E x \in Texts : Hears("turn", x) /\ turn' = [turn EXCEPT !.text = x]
  /\ UNCHANGED <<windows, flags, runs, utter, history>>

\* What is not in the language it was locked to is transcribed once more in the
\* other one.
WrongLanguage ==
  /\ turn.pc = "transcribing" /\ HearerAt("turn", "idle")
  /\ turn.lang = "hint" /\ turn.text # "none"
  /\ turn' = [turn EXCEPT !.lang = "opposite", !.text = "none"]
  /\ UNCHANGED <<hearing, windows, segments, flags, runs, utter, history>>

\* Silence, the hallucination guard, the confidence floor and a wrong language leave
\* no text, whatever was emitted.  The utterance is then handed to the pool.
Transcribed ==
  /\ turn.pc = "transcribing" /\ HearerAt("turn", "idle")
  /\ turn' = [turn EXCEPT !.pc = "submitted"]
  /\ \E x \in {turn.text, "none"} : utter' = [pc |-> "stt", text |-> x]
  /\ UNCHANGED <<hearing, windows, segments, flags, runs, history>>

-----------------------------------------------------------------------------
(* on_partial(): look, parse, reserve, submit.                             *)

Look(h) ==
  /\ HearerAt(h, "heard")
  /\ IF executed THEN Rests(h) ELSE hearing' = [hearing EXCEPT ![h].pc = "parsed"]
  /\ UNCHANGED <<turn, windows, segments, flags, runs, utter, history>>

NewPrev(x) == IF x = "other" THEN "none" ELSE x

Free == ~executed

\* The second time in a row; the flag is a reservation.
Reserves(x) == x # "other" /\ prev = x /\ Free

Reserve(h) ==
  /\ HearerAt(h, "parsed")
  /\ LET x == hearing[h].text IN
       /\ prev' = NewPrev(x)
       /\ streak' = <<streak[2], x>>
       /\ IF Reserves(x) /\ Len(runs) < MaxRuns
          THEN /\ executed' = TRUE
               /\ intent' = x
               /\ runs' = Append(runs, [intent |-> x, state |-> "reserved", stable |-> streak'[1] = x])
               /\ hearing' = [hearing EXCEPT ![h].pc = "submit", ![h].run = Len(runs) + 1]
               /\ overtaken' = (overtaken \/ Checked)
          ELSE Rests(h) /\ UNCHANGED <<executed, intent, runs, overtaken>>
  /\ UNCHANGED <<turn, windows, segments, spoken, future, utter, routed, answers, orphaned>>

Submit(h) ==
  /\ HearerAt(h, "submit")
  /\ runs' = [runs EXCEPT ![hearing[h].run].state = "queued"]
  /\ hearing' = [hearing EXCEPT ![h].pc = "submitted"]
  /\ UNCHANGED <<turn, windows, segments, flags, utter, history>>

KeepFuture(h) ==
  /\ HearerAt(h, "submitted")
  /\ future' = hearing[h].run
  /\ Rests(h)
  /\ UNCHANGED <<turn, windows, segments, executed, intent, prev, spoken, runs, utter, history>>

-----------------------------------------------------------------------------
(* _run_early_command() on the pool.                                       *)

Begin(i) ==
  /\ i \in 1..Len(runs) /\ runs[i].state = "queued"
  /\ runs' = [runs EXCEPT ![i].state = "running"]
  /\ UNCHANGED <<turn, hearing, windows, segments, flags, utter, history>>

\* The answer is spoken, then recorded as spoken.
Answer(i) ==
  /\ i \in 1..Len(runs) /\ runs[i].state = "running"
  /\ runs' = [runs EXCEPT ![i].state = "answered"]
  /\ answers' = Append(answers, runs[i].intent)
  /\ UNCHANGED <<turn, hearing, windows, segments, flags, utter, routed, streak, overtaken, orphaned>>

Finish(i) ==
  /\ i \in 1..Len(runs) /\ runs[i].state = "answered"
  /\ runs' = [runs EXCEPT ![i].state = "done"]
  /\ spoken' = TRUE
  /\ UNCHANGED <<turn, hearing, windows, segments, executed, intent, prev, future, utter, history>>

\* Deviation: a failed run stays recorded as executed.
StaysExecuted == executed
NotExecuted == FALSE

RunFails(i) ==
  /\ i \in 1..Len(runs) /\ runs[i].state = "running"
  /\ runs' = [runs EXCEPT ![i].state = "failed"]
  /\ executed' = NotExecuted
  /\ overtaken' = (overtaken \/ Checked)
  /\ UNCHANGED <<turn, hearing, windows, segments, intent, prev, spoken, future, utter, routed, answers, streak, orphaned>>

-----------------------------------------------------------------------------
(* _process_utterance() on the pool.                                       *)

UtterAt(point) == utter.pc = point
UtterGoes(point) == utter' = [utter EXCEPT !.pc = point]

\* Without a text the file is transcribed again, with no partials; without a text
\* again, nothing is done.
Transcribe ==
  /\ UtterAt("stt")
  /\ \/ utter.text # "none" /\ UtterGoes("check")
     \/ /\ utter.text = "none"
        /\ \/ \E x \in Texts : utter' = [pc |-> "check", text |-> x]
           \/ UtterGoes("done")
  /\ UNCHANGED <<turn, hearing, windows, segments, flags, runs, history>>

CheckEarly ==
  /\ UtterAt("check")
  /\ UtterGoes(IF executed THEN "compare" ELSE "route")
  /\ UNCHANGED <<turn, hearing, windows, segments, flags, runs, history>>

Same == intent = "none" \/ intent = utter.text

\* Only intents are compared: a text that would not run early may have the same one, or, when it
\* cannot be parsed, none.
Compare ==
  /\ UtterAt("compare")
  /\ \E same \in {Same, Same \/ utter.text = "other"} : UtterGoes(IF same THEN "done" ELSE "cancel")
  /\ UNCHANGED <<turn, hearing, windows, segments, flags, runs, history>>

NotSpoken == FALSE

\* Only a run that has not begun is canceled.
Cancel ==
  /\ UtterAt("cancel")
  /\ executed' = FALSE /\ intent' = "none" /\ spoken' = NotSpoken
  /\ runs' = [i \in 1..Len(runs) |->
       IF i = future /\ runs[i].state = "queued" THEN [runs[i] EXCEPT !.state = "canceled"] ELSE runs[i]]
  /\ orphaned' = \E i \in 1..Len(runs) : Active(runs'[i])
  /\ UtterGoes("route")
  /\ UNCHANGED <<turn, hearing, windows, segments, prev, future, routed, answers, streak, overtaken>>

Route ==
  /\ UtterAt("route")
  /\ routed' = routed + 1
  /\ UtterGoes("decide")
  /\ UNCHANGED <<turn, hearing, windows, segments, flags, runs, answers, streak, overtaken, orphaned>>

Decide ==
  /\ UtterAt("decide")
  /\ answers' = IF spoken THEN answers ELSE Append(answers, "route")
  /\ UtterGoes("done")
  /\ UNCHANGED <<turn, hearing, windows, segments, flags, runs, routed, streak, overtaken, orphaned>>

Hear == \E h \in Hearers : Look(h) \/ Reserve(h) \/ Submit(h) \/ KeepFuture(h)
Pool == \E i \in 1..MaxRuns : Begin(i) \/ Answer(i) \/ Finish(i) \/ RunFails(i)
Process == Transcribe \/ CheckEarly \/ Compare \/ Cancel \/ Route \/ Decide

Next ==
  \/ Window \/ Partial \/ RecordingEnds \/ Segment \/ WrongLanguage \/ Transcribed
  \/ Hear \/ Pool \/ Process

Spec == Init /\ [][Next]_vars

-----------------------------------------------------------------------------
TypeOK ==
  /\ turn.pc \in {"recording", "transcribing", "submitted"}
  /\ turn.lang \in {"hint", "opposite"} /\ turn.text \in Texts \cup {"none"}
  /\ \A h \in Hearers : hearing[h].text \in Texts \cup {"none"}
  /\ windows \in 0..Windows /\ segments \in 0..Passes
  /\ executed \in BOOLEAN /\ spoken \in BOOLEAN
  /\ intent \in Commands \cup {"none"} /\ prev \in Commands \cup {"none"}
  /\ future \in 0..Len(runs)
  /\ Len(runs) <= MaxRuns
  /\ utter.text \in Texts \cup {"none"}
  /\ routed \in 0..1

\* A command whose reservation, and whose failure if it fails, come before the final
\* transcript is compared is executed once: early or by the full route, also when
\* an early execution failed and was repeated.
HandledOnce ==
  UtterAt("done") /\ utter.text \in Commands /\ ~overtaken
    => Cardinality({i \in 1..Len(runs) : runs[i].intent = utter.text /\ Counts(runs[i])}) + routed = 1

\* Two executions of one utterance never run at a time unless the first was given up.
OneAtATime ==
  ~Checked => Cardinality({i \in 1..Len(runs) : Active(runs[i])}) <= 1

\* What runs early was heard twice in a row, whichever threads heard it.
EarlyIsStable == \A i \in 1..Len(runs) : runs[i].stable

\* The answer of the full route is spoken, and nothing that was said before counts
\* for it, unless an early execution was given up that could not be stopped.
RouteIsAnswered ==
  UtterAt("done") /\ routed = 1 /\ ~overtaken /\ ~orphaned
    => \E n \in 1..Len(answers) : answers[n] = "route"
=============================================================================
