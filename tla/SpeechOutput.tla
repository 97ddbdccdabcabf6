---------------------------- MODULE SpeechOutput ----------------------------
(***************************************************************************)
(* SpeechEngine of audio/tts.py and the turn that feeds it: sentences of   *)
(* an LLM answer (llm/ollama_client.py) go through a queue to a thread     *)
(* that has them synthesized by a pool and plays them in order; any other  *)
(* text is spoken by a thread of its own.  The turn, an announcer (timers, *)
(* early answers) and the listener's interrupt share one stop event, two   *)
(* handles and the audio device.                                           *)
(***************************************************************************)
EXTENDS Naturals, Sequences, FiniteSets

CONSTANTS
  MaxSpeeches,   \* bound: speech threads
  Parts,         \* bound: sentences of an answer
  Attempts       \* voices tried for a text; the first may be ElevenLabs

ASSUME SpeechAssumption ==
  MaxSpeeches \in Nat \ {0} /\ Parts \in Nat \ {0} /\ Attempts \in Nat \ {0}

Callers == {"turn", "announcer", "listener"}
Ids == 1..MaxSpeeches
Slots == {"text", "queue"}   \* _thread, _queue_thread

VARIABLES
  stopEvent,  \* _stop_event
  handle,     \* _thread and _queue_thread: an id, or 0
  device,     \* whose waveform plays, or 0
  speech,     \* the speech threads
  put,        \* put[j]: sentences put into the queue of j
  closed,     \* queues whose end was put
  caller,     \* the threads that start and interrupt speech
  llmCancel,  \* llm_cancel_event
  barged,     \* the phase is LISTENING again: the turn was interrupted
  setting,    \* a join waits for the end, or gives up; others speak too
  tail,       \* history: waveforms begun since the stop event was set
  played,     \* history: the sentences of the queue of j that were begun
  owed,       \* history: sentences of the turn's response, 0 if an error
  handed      \* history: sentences of the response given to the engine

engine == <<stopEvent, handle, device>>
threads == <<speech, put, closed>>
answer == <<owed, handed>>
history == <<tail, played, answer>>
vars == <<engine, threads, caller, llmCancel, barged, setting, history>>

NoThread == [pc |-> "none", slot |-> "text", at |-> 1, taken |-> 0, back |-> "inner"]
Resting == [pc |-> "idle", join |-> {}, say |-> "none"]

Init ==
  /\ stopEvent = FALSE
  /\ handle = [s \in Slots |-> 0]
  /\ device = 0
  /\ speech = [j \in Ids |-> NoThread]
  /\ put = [j \in Ids |-> 0]
  /\ closed = {}
  /\ caller = [c \in Callers |-> Resting]
  /\ llmCancel = FALSE
  /\ barged = FALSE
  /\ setting \in {"prompt", "slow", "announced", "barged"}
  /\ tail = [j \in Ids |-> 0]
  /\ played = [j \in Ids |-> <<>>]
  /\ owed = 0
  /\ handed = 0

Alive(j) == speech[j].pc \notin {"none", "ended"}
Unused == {j \in Ids : speech[j].pc = "none"}
CallerAt(c, point) == caller[c].pc = point
Goto(c, point) == caller' = [caller EXCEPT ![c].pc = point]

-----------------------------------------------------------------------------
(* interrupt(), alone or at the start of speak_async() and                 *)
(* speak_sentence_queue().                                                 *)

AskedToStop(c) ==
  /\ CallerAt(c, "interrupt")
  /\ stopEvent' = TRUE
  /\ tail' = IF stopEvent THEN tail ELSE [j \in Ids |-> 0]
  /\ Goto(c, "take")
  /\ UNCHANGED <<handle, device, threads, llmCancel, barged, setting, played, answer>>

TakeHandles(c) ==
  /\ CallerAt(c, "take")
  /\ caller' = [caller EXCEPT ![c].pc = "join",
                              ![c].join = {handle[s] : s \in Slots} \ {0}]
  /\ handle' = [s \in Slots |-> 0]
  /\ device' = 0
  /\ UNCHANGED <<stopEvent, threads, llmCancel, barged, setting, history>>

\* join(timeout=2): a thread that takes longer is left alone.
Join(c) ==
  /\ CallerAt(c, "join")
  /\ setting = "prompt" => ~\E j \in caller[c].join : Alive(j)
  /\ caller' = [caller EXCEPT ![c].pc = IF c = "listener" THEN "cancel" ELSE "clear",
                              ![c].join = {}]
  /\ UNCHANGED <<engine, threads, llmCancel, barged, setting, history>>

Clear(c) ==
  /\ CallerAt(c, "clear")
  /\ stopEvent' = FALSE
  /\ tail' = [j \in Ids |-> 0]
  /\ Goto(c, "start")
  /\ UNCHANGED <<handle, device, threads, llmCancel, barged, setting, played, answer>>

\* The turn remembers the thread whose queue it fills in its "join".
Start(c) ==
  /\ CallerAt(c, "start")
  /\ Unused # {}
  /\ LET j    == CHOOSE i \in Unused : \A k \in Unused : i <= k
         slot == caller[c].say IN
       /\ speech' = [speech EXCEPT ![j] = [NoThread EXCEPT !.slot = slot,
                                           !.pc = IF slot = "text" THEN "synth" ELSE "next"]]
       /\ handle' = [handle EXCEPT ![slot] = j]
       /\ caller' = [caller EXCEPT
            ![c] = CASE c = "announcer" -> Resting
                     [] slot = "queue"  -> [@ EXCEPT !.pc = "llm", !.join = {j}]
                     [] OTHER           -> [Resting EXCEPT !.pc = "told"]]
  /\ UNCHANGED <<stopEvent, device, put, closed, llmCancel, barged, setting, history>>

-----------------------------------------------------------------------------
(* The callers.                                                            *)

First == "interrupt"

Announce ==
  /\ setting = "announced"
  /\ CallerAt("announcer", "idle") /\ Unused # {}
  /\ caller' = [caller EXCEPT !["announcer"] = [Resting EXCEPT !.pc = First, !.say = "text"]]
  /\ UNCHANGED <<engine, threads, llmCancel, barged, setting, history>>

\* request_interrupt(): the speech is interrupted, then the LLM is canceled; while
\* the phase is LISTENING it is refused.
WakeInterrupt ==
  /\ setting = "barged" /\ ~barged
  /\ CallerAt("listener", "idle") /\ ~CallerAt("turn", "idle")
  /\ Goto("listener", "interrupt")
  /\ UNCHANGED <<engine, threads, llmCancel, barged, setting, history>>

CancelLlm ==
  /\ CallerAt("listener", "cancel")
  /\ llmCancel' = TRUE
  /\ barged' = TRUE
  /\ caller' = [caller EXCEPT !["listener"] = Resting]
  /\ UNCHANGED <<engine, threads, setting, history>>

\* A question is streamed; a command is executed first, then answered.
TurnBegins ==
  /\ CallerAt("turn", "idle") /\ Unused # {}
  /\ llmCancel' = FALSE
  /\ barged' = FALSE
  /\ \/ caller' = [caller EXCEPT !["turn"] = [Resting EXCEPT !.pc = First, !.say = "queue"]]
     \/ caller' = [caller EXCEPT !["turn"] = [Resting EXCEPT !.pc = "routed"]]
  /\ UNCHANGED <<engine, threads, setting, history>>

\* ask_llm_streaming() has another sentence; once canceled it stops reading,
\* and flushes what its buffer still holds.
Stream ==
  /\ CallerAt("turn", "llm")
  /\ \E j \in caller["turn"].join :
       put[j] < Parts /\ put' = [put EXCEPT ![j] = @ + 1]
  /\ handed' = handed + 1
  /\ Goto("turn", IF llmCancel THEN "flushed" ELSE "llm")
  /\ UNCHANGED <<engine, speech, closed, llmCancel, barged, setting, tail, played, owed>>

\* Deviation: the end is put only if nothing was interrupted.
ClosesUnlessCut(j) == IF llmCancel THEN closed ELSE closed \cup {j}
Closes(j) == closed \cup {j}

RestOf(n, k) == n - k

\* The response has n sentences, of which the streamed ones are the first (the
\* stream ended, was canceled or timed out), or it is an error message.
\* _finish_streaming_tts() queues the rest, if something was streamed.
LlmReturns ==
  /\ CallerAt("turn", "llm") \/ CallerAt("turn", "flushed")
  /\ \E j \in caller["turn"].join, n \in 1..Parts :
       \/ /\ n >= put[j]
          /\ owed' = n
          /\ handed' = IF put[j] = 0 THEN 0 ELSE put[j] + RestOf(n, put[j])
          /\ put' = [put EXCEPT ![j] = IF @ = 0 THEN 0 ELSE n]
          /\ closed' = Closes(j)
          /\ Goto("turn", IF put[j] = 0 THEN "decide" ELSE "told")
       \/ /\ n = 1
          /\ owed' = 0
          /\ closed' = Closes(j)
          /\ Goto("turn", IF put[j] = 0 THEN "decide" ELSE "told")
          /\ UNCHANGED <<put, handed>>
  /\ UNCHANGED <<engine, speech, llmCancel, barged, setting, tail, played>>

Routed ==
  /\ CallerAt("turn", "routed")
  /\ owed' = 1
  /\ Goto("turn", "decide")
  /\ UNCHANGED <<engine, threads, llmCancel, barged, setting, tail, played, handed>>

\* The response is spoken unless it was streamed or the turn interrupted.
Decide ==
  /\ CallerAt("turn", "decide")
  /\ IF barged
     THEN Goto("turn", "told") /\ UNCHANGED handed
     ELSE /\ caller' = [caller EXCEPT !["turn"] = [Resting EXCEPT !.pc = First, !.say = "text"]]
          /\ handed' = owed
  /\ UNCHANGED <<engine, threads, llmCancel, barged, setting, tail, played, owed>>

TurnEnds ==
  /\ CallerAt("turn", "told")
  /\ caller' = [caller EXCEPT !["turn"] = Resting]
  /\ owed' = 0 /\ handed' = 0
  /\ UNCHANGED <<engine, threads, llmCancel, barged, setting, tail, played>>

-----------------------------------------------------------------------------
(* A speech thread.                                                        *)

ThreadAt(j, point) == speech[j].pc = point
Move(j, point) == speech' = [speech EXCEPT ![j].pc = point]
Still == UNCHANGED <<caller, llmCancel, barged, setting, answer>>

\* Deviation: the handle is cleared whoever it belongs to.
ForgetAny(j) == [handle EXCEPT ![speech[j].slot] = 0]
Forget(j) == IF handle[speech[j].slot] = j THEN [handle EXCEPT ![speech[j].slot] = 0] ELSE handle

End(j) ==
  /\ speech' = [speech EXCEPT ![j] = [NoThread EXCEPT !.pc = "ended", !.slot = speech[j].slot]]
  /\ handle' = Forget(j)
  /\ played' = [played EXCEPT ![j] = <<>>]
  /\ UNCHANGED <<stopEvent, device, put, closed, tail>>
  /\ Still

\* The device plays j from here on; what it played before is cut off.
Begin(j) ==
  /\ device' = j
  /\ tail' = IF stopEvent THEN [tail EXCEPT ![j] = @ + 1] ELSE tail

NextVoice == ~stopEvent

\* _speak_elevenlabs() does not look at the stop event between synthesis and
\* playback; the edge voices do, and give up.
SynthText(j) ==
  /\ ThreadAt(j, "synth")
  /\ \/ /\ speech[j].at = 1 \/ NextVoice
        /\ Move(j, "sound")
     \/ /\ speech[j].at < Attempts
        /\ speech[j].at = 1 \/ NextVoice
        /\ speech' = [speech EXCEPT ![j].at = @ + 1]
     \/ /\ speech[j].at = Attempts \/ (speech[j].at > 1 /\ ~NextVoice)
        /\ Move(j, "console")
  /\ UNCHANGED <<engine, put, closed, tail, played>>
  /\ Still

PlayText(j) ==
  /\ ThreadAt(j, "sound") /\ speech[j].slot = "text"
  /\ Begin(j)
  /\ Move(j, "poll")
  /\ UNCHANGED <<stopEvent, handle, put, closed, played>>
  /\ Still

\* Stopped playback counts as failed: the next voice is tried.
PollStopped(j) ==
  /\ ThreadAt(j, "poll") /\ stopEvent
  /\ device' = 0
  /\ speech' = [speech EXCEPT ![j].pc = IF speech[j].at < Attempts THEN "synth" ELSE "console",
                              ![j].at = IF @ < Attempts THEN @ + 1 ELSE @]
  /\ UNCHANGED <<stopEvent, handle, put, closed, tail, played>>
  /\ Still

PollEnded(j) == ThreadAt(j, "poll") /\ ~stopEvent /\ device # j /\ End(j)

\* _speak_console(): no sound.
Console(j) == ThreadAt(j, "console") /\ End(j)

DeviceDone ==
  /\ device # 0
  /\ device' = 0
  /\ UNCHANGED <<stopEvent, handle, threads, tail, played>>
  /\ Still

-----------------------------------------------------------------------------
(* The queue's thread: take a sentence, have it synthesized, play what is  *)
(* ready; at the end wait for the rest.                                    *)

NextItem(j) ==
  /\ ThreadAt(j, "next")
  /\ \/ /\ speech[j].taken < put[j]
        /\ speech' = IF stopEvent THEN [speech EXCEPT ![j].pc = "drain"]
                     ELSE [speech EXCEPT ![j].pc = "inner", ![j].taken = @ + 1]
     \/ /\ speech[j].taken = put[j] /\ j \in closed
        /\ Move(j, "drain")
  /\ UNCHANGED <<engine, put, closed, tail, played>>
  /\ Still

\* The next sentence to play; its synthesis, in the pool, may be done or not.
InTurn(j) == {speech[j].at} \cap (1..speech[j].taken)

Inner(j) ==
  /\ ThreadAt(j, "inner")
  /\ \/ Move(j, "next")
     \/ /\ InTurn(j) # {} /\ ~stopEvent
        /\ speech' = [speech EXCEPT ![j].pc = "check", ![j].back = "inner"]
  /\ UNCHANGED <<engine, put, closed, tail, played>>
  /\ Still

Drain(j) ==
  /\ ThreadAt(j, "drain")
  /\ \/ /\ speech[j].at > speech[j].taken \/ stopEvent
        /\ End(j)
     \/ /\ speech[j].at <= speech[j].taken /\ ~stopEvent
        /\ speech' = [speech EXCEPT ![j].pc = "check", ![j].back = "drain"]
        /\ UNCHANGED <<engine, put, closed, tail, played>>
        /\ Still

Passed(j) == speech' = [speech EXCEPT ![j].pc = speech[j].back, ![j].at = @ + 1]

\* _play_waveform(blocking=True) looks at the stop event, then plays; a sentence
\* that could not be synthesized is passed over.
CheckItem(j) ==
  /\ ThreadAt(j, "check")
  /\ \/ Move(j, "sound") /\ ~stopEvent
     \/ Passed(j)
  /\ UNCHANGED <<engine, put, closed, tail, played>>
  /\ Still

PlayItem(j) ==
  /\ ThreadAt(j, "sound") /\ speech[j].slot = "queue"
  /\ Begin(j)
  /\ \E i \in InTurn(j) : played' = [played EXCEPT ![j] = Append(@, i)]
  /\ Move(j, "playing")
  /\ UNCHANGED <<stopEvent, handle, put, closed>>
  /\ Still

ItemPlayed(j) ==
  /\ ThreadAt(j, "playing") /\ device # j
  /\ Passed(j)
  /\ UNCHANGED <<engine, put, closed, tail, played>>
  /\ Still

Speak(j) ==
  \/ SynthText(j) \/ PlayText(j) \/ PollStopped(j) \/ PollEnded(j) \/ Console(j)
  \/ NextItem(j) \/ Inner(j) \/ Drain(j) \/ CheckItem(j) \/ PlayItem(j) \/ ItemPlayed(j)

Turn == TurnBegins \/ Stream \/ LlmReturns \/ Routed \/ Decide \/ TurnEnds

Call(c) ==
  \/ AskedToStop(c) \/ TakeHandles(c) \/ Join(c) \/ Clear(c) \/ Start(c)

Next ==
  \/ \E c \in Callers : Call(c)
  \/ Announce \/ WakeInterrupt \/ CancelLlm \/ Turn
  \/ \E j \in Ids : Speak(j)
  \/ DeviceDone

\* A waveform ends, synthesis and the LLM return (both have timeouts), and the
\* threads run; nobody is obliged to say anything.
Fairness ==
  /\ \A j \in Ids : WF_vars(Speak(j))
  /\ WF_vars(DeviceDone)
  /\ WF_vars(LlmReturns) /\ WF_vars(Routed \/ Decide \/ TurnEnds)
  /\ \A c \in Callers : WF_vars(Call(c))

Spec == Init /\ [][Next]_vars /\ Fairness

-----------------------------------------------------------------------------
TypeOK ==
  /\ stopEvent \in BOOLEAN /\ llmCancel \in BOOLEAN /\ barged \in BOOLEAN
  /\ handle \in [Slots -> Ids \cup {0}]
  /\ device \in Ids \cup {0}
  /\ \A j \in Ids :
       /\ speech[j].pc \in {"none", "synth", "sound", "poll", "console", "next",
                           "inner", "check", "playing", "drain", "ended"}
       /\ speech[j].slot \in Slots /\ speech[j].back \in {"inner", "drain"}
       /\ speech[j].at \in 1..(IF speech[j].slot = "text" THEN Attempts ELSE speech[j].taken + 1)
       /\ speech[j].taken \in 0..put[j]
       /\ put[j] \in 0..Parts
  /\ closed \subseteq Ids
  /\ \A c \in Callers : caller[c].join \subseteq Ids

Newest == CHOOSE j \in Ids \ Unused : \A i \in Ids \ Unused : i <= j

\* One caller: the thread that was begun last is known by its handle for as
\* long as it lives, whenever threads left behind by a join come to their end.
\* Otherwise is_speaking() is wrong and the microphone opens on it.
SpeakingIsSeen ==
  /\ setting \in {"prompt", "slow"}
  /\ Unused # Ids /\ Alive(Newest)
  /\ caller["turn"].pc \notin {"join", "clear", "start"}
  => handle[speech[Newest].slot] = Newest

\* One caller and threads that end in time: never two voices.
OneVoice ==
  setting = "prompt"
    => \A i, j \in Ids : Alive(i) /\ Alive(j) => i = j

\* Sentences are synthesized in parallel and begun in the order of the answer,
\* each once.
InOrder ==
  \A j \in Ids : \A n \in 2..Len(played[j]) : played[j][n - 1] < played[j][n]

\* Once the stop event is set, and until it is cleared, a thread begins one
\* waveform at most: the one it was about to play.
TailBounded == \A j \in Ids : tail[j] <= 1

\* An answer reaches the engine once, whole, streamed or not, when it is not
\* interrupted.
HandedOnce == CallerAt("turn", "told") /\ ~barged /\ owed > 0 => handed = owed

\* One voice at a time, seen while it speaks, that gives the whole answer in order and falls
\* silent at the stop event: over threads left behind, an announcer and the listener.
SpeechIsSound ==
  TypeOK /\ SpeakingIsSeen /\ OneVoice /\ InOrder /\ TailBounded /\ HandedOnce

\* After an interrupt silence comes, unless somebody speaks again.
Hushed == stopEvent ~> (~stopEvent \/ \A j \in Ids : ~Alive(j))

=============================================================================
