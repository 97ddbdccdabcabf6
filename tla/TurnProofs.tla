----------------------------- MODULE TurnProofs -----------------------------
(***************************************************************************)
(* What holds of a turn, from the microphone to the answer: what is         *)
(* executed early (EarlyExecution), recorded (SpeechCapture), transcribed   *)
(* (Transcriber), looked up (LiveLookup) and answered (LlmAnswer), for any  *)
(* number of windows, runs, chunks, recordings, questions and turns.        *)
(***************************************************************************)
EXTENDS MCTurn, SequenceTheorems, FiniteSetTheorems, WellFoundedInduction, TLAPS

-----------------------------------------------------------------------------
(* The transcript.                                                         *)

Troubles  == {"silence", "guard", "shutdown", "invalid_language"}
Backends  == {"none", "cloud", "local"}
Asked     == {"none", "auto", "ar", "en"}
TrResults == [text : Transcriber!Texts \cup {Transcriber!NoText}, errors : SUBSET Troubles,
              valid : BOOLEAN, backend : Backends, lang : Asked]

\* A text is valid and has no errors; a local one that is above the floor was decoded in its
\* language, or waits to be looked at.
TextInv ==
  /\ result \in TrResults
  /\ result.text # Transcriber!NoText => result.valid /\ result.errors = {}
  /\ stage \in {"final", "idle"} /\ lock /\ result.backend = "local" /\ result.text # Transcriber!NoText
       /\ ~result.text.low => Transcriber!Valid(result.text, result.lang)
  /\ stage = "checked" => result.lang = locked \/ result.text = Transcriber!NoText

\* The local model comes after the cloud and once; its language is known by then.
WayInv ==
  /\ lock \in BOOLEAN /\ hint \in Asked /\ locked \in {"none", "ar", "en"} /\ chain \subseteq {"cloud", "local"}
  /\ stage \in {"decode", "checked", "again"} /\ lock => locked # "none"
  /\ stage = "cloud" \/ chain # {} => decodes = 0
  /\ stage \in {"pick", "decode"} => decodes = 0 /\ chain = {}
  /\ stage \in {"checked", "again"} => decodes = 1 /\ chain = {} /\ lock
  /\ hint = "en" /\ whisper => "cloud" \notin chain /\ stage # "cloud" /\ ~sentOut
  /\ decodes \in {0, 1, 2}

\* The status was made of the result that is still there.
StatusInv == status # "none" => stage = "idle" /\ (result.text # Transcriber!NoText <=> status = "ok")

TranscriptInv == Transcriber!TypeOK /\ TextInv /\ WayInv /\ StatusInv
\* What a backend makes of a text.
LEMMA Made ==
  ASSUME NEW t \in Transcriber!Texts \cup {Transcriber!NoText}, NEW e \in SUBSET Troubles,
         NEW b \in Backends, NEW l \in Asked
  PROVE  LET r == Transcriber!Result(t, e, b, l)
         IN  /\ r \in TrResults /\ r.text = t /\ r.errors = e /\ (r.valid <=> t # Transcriber!NoText)
             /\ r.backend = b /\ r.lang = l
  BY DEF Transcriber!Result, TrResults

\* What stands for no text.
LEMMA MadeNothing ==
  /\ {"none", "auto", "ar", "en"} \subseteq Asked /\ {"none", "cloud", "local"} \subseteq Backends
  /\ \A r \in TrResults : r.text \in Transcriber!Texts \cup {Transcriber!NoText}
  /\ Transcriber!NoText \notin Transcriber!Texts /\ ~Transcriber!NoText.low
  /\ \A l \in {"ar", "en"} : ~Transcriber!Valid(Transcriber!NoText, l)
  /\ \A r \in {Transcriber!Shut, Transcriber!Nothing, [Transcriber!Shut EXCEPT !.backend = "none"]} :
       r \in TrResults /\ r.text = Transcriber!NoText
  /\ \A l \in Asked : \A r \in {Transcriber!Silence(l), Transcriber!Invalid(l),
                               Transcriber!Result(Transcriber!NoText, {}, "none", l)} :
       r \in TrResults /\ r.text = Transcriber!NoText
  <1>1. Transcriber!NoText \notin Transcriber!Texts /\ ~Transcriber!NoText.low
    BY DEF Transcriber!NoText, Transcriber!Texts, Transcriber!Scripts
  <1>2. \A l \in {"ar", "en"} : ~Transcriber!Valid(Transcriber!NoText, l)
    BY DEF Transcriber!NoText, Transcriber!Valid
  <1> DEFINE Empty(r) == r \in TrResults /\ r.text = Transcriber!NoText
  <1>3. ASSUME NEW e \in SUBSET Troubles, NEW b \in Backends, NEW l \in Asked
        PROVE  /\ Empty(Transcriber!Result(Transcriber!NoText, e, b, l))
               /\ Empty([Transcriber!Result(Transcriber!NoText, e, b, l) EXCEPT !.valid = FALSE])
               /\ Empty([Transcriber!Result(Transcriber!NoText, e, b, l) EXCEPT !.backend = "none"])
    <2>1. PICK r : r = Transcriber!Result(Transcriber!NoText, e, b, l)
      OBVIOUS
    <2>2. Empty(r)
      BY <1>3, <2>1, Made
    <2>3. [r EXCEPT !.valid = FALSE] \in TrResults /\ [r EXCEPT !.valid = FALSE].text = r.text
      BY <2>2 DEF TrResults
    <2>4. "none" \in Backends
      BY DEF Backends
    <2>5. [r EXCEPT !.backend = "none"] \in TrResults /\ [r EXCEPT !.backend = "none"].text = r.text
      BY <2>2, <2>4 DEF TrResults
    <2>6. QED
      BY <2>1, <2>2, <2>3, <2>5
  <1>4. /\ {"silence"} \in SUBSET Troubles /\ {"shutdown"} \in SUBSET Troubles
        /\ {"invalid_language"} \in SUBSET Troubles /\ {} \in SUBSET Troubles
        /\ "none" \in Backends /\ "local" \in Backends /\ "none" \in Asked
    BY DEF Troubles, Backends, Asked
  <1> HIDE DEF Empty
  <1>5. Empty(Transcriber!Shut) /\ Empty(Transcriber!Nothing) /\ Empty([Transcriber!Shut EXCEPT !.backend = "none"])
    BY <1>3, <1>4 DEF Transcriber!Shut, Transcriber!Nothing
  <1>6. ASSUME NEW l \in Asked
        PROVE  /\ Empty(Transcriber!Silence(l)) /\ Empty(Transcriber!Invalid(l))
               /\ Empty(Transcriber!Result(Transcriber!NoText, {}, "none", l))
    BY <1>3, <1>4 DEF Transcriber!Silence, Transcriber!Invalid
  <1>7. QED
    BY <1>1, <1>2, <1>5, <1>6 DEF Empty, Asked, Backends, TrResults

\* Nothing was recorded yet.
LEMMA TranscriptBegins == Transcriber!Init /\ lock \in BOOLEAN => TranscriptInv
  BY MadeNothing DEF Transcriber!Init, TranscriptInv, TextInv, WayInv, StatusInv, Transcriber!TypeOK, Transcriber!Languages

\* What the model may decode is a result.
LEMMA Decodings ==
  ASSUME NEW l \in {"none", "ar", "en"}, NEW r \in Transcriber!Decoded(l)
  PROVE  /\ r \in TrResults
         /\ r.text # Transcriber!NoText => r.valid /\ r.errors = {} /\ r.lang = l
         /\ "silence" \in r.errors => r.text = Transcriber!NoText
  <1>1. l \in Asked /\ "local" \in Backends /\ {"guard"} \in SUBSET Troubles /\ {} \in SUBSET Troubles
    BY DEF Asked, Backends, Troubles
  <1>2. CASE r \in {Transcriber!Shut, Transcriber!Silence(l)}
    BY <1>1, <1>2, MadeNothing
  <1>3. CASE r = Transcriber!Result(Transcriber!NoText, {"guard"}, "local", l)
    BY <1>1, <1>3, Made
  <1>4. ASSUME NEW t \in Transcriber!Texts, r = Transcriber!Result(t, {}, "local", l)
        PROVE  /\ r \in TrResults /\ r.valid /\ r.errors = {} /\ r.lang = l
    BY <1>1, <1>4, Made, MadeNothing
  <1>5. QED
    BY <1>2, <1>3, <1>4 DEF Transcriber!Decoded

\* Every step of the transcription keeps its invariant.
LEMMA TranscriptSteps ==
  ASSUME TranscriptInv, [Transcriber!Next]_(Transcriber!trVars)
  PROVE  TranscriptInv'
  <1> USE MadeNothing DEF TranscriptInv, TextInv, WayInv, StatusInv, Transcriber!TypeOK, Transcriber!settings,
                          Transcriber!Languages
  <1>1. ASSUME NEW h \in {"auto", "ar", "en"}, Transcriber!Transcribe(h) PROVE TranscriptInv'
    BY <1>1 DEF Transcriber!Transcribe, Transcriber!Chain
  <1>2. CASE Transcriber!NextBackend
    BY <1>2 DEF Transcriber!NextBackend
  <1>3. CASE Transcriber!CloudRefuses
    BY <1>3 DEF Transcriber!CloudRefuses
  <1>4. CASE Transcriber!CloudFails
    BY <1>4 DEF Transcriber!CloudFails
  <1>5. CASE Transcriber!CloudAnswers
    <2>1. PICK t \in Transcriber!Texts \cup {Transcriber!NoText} : result' = Transcriber!Result(t, {}, "cloud", hint)
      BY <1>5 DEF Transcriber!CloudAnswers
    <2>2. {} \in SUBSET Troubles /\ "cloud" \in Backends /\ hint \in Asked
      OBVIOUS
    <2>3. /\ result' \in TrResults /\ result'.backend = "cloud"
          /\ result'.text # Transcriber!NoText => result'.valid /\ result'.errors = {}
      BY <2>1, <2>2, Made
    <2>4. QED
      BY <1>5, <2>3 DEF Transcriber!CloudAnswers
  <1>6. CASE Transcriber!CooldownEnds \/ Transcriber!RequestShutdown
    BY <1>6 DEF Transcriber!CooldownEnds, Transcriber!RequestShutdown
  <1>7. CASE Transcriber!Pick
    BY <1>7 DEF Transcriber!Pick
  <1>8. CASE Transcriber!Decode
    <2>1. PICK r \in Transcriber!Decoded(locked) :
            /\ result' = r
            /\ stage' = IF "silence" \in r.errors \/ ~lock THEN "final" ELSE "checked"
      BY <1>8 DEF Transcriber!Decode
    <2>2. locked \in {"none", "ar", "en"}
      OBVIOUS
    <2>3. /\ r \in TrResults
          /\ r.text # Transcriber!NoText => r.valid /\ r.errors = {} /\ r.lang = locked
          /\ "silence" \in r.errors => r.text = Transcriber!NoText
      BY <2>2, Decodings
    <2>4. QED
      BY <1>8, <2>1, <2>3 DEF Transcriber!Decode
  <1>9. CASE Transcriber!DecodeRaises
    BY <1>9 DEF Transcriber!DecodeRaises
  <1>10. CASE Transcriber!Check
    BY <1>10 DEF Transcriber!Check
  <1>11. CASE Transcriber!DecodeAgain
    <2>1. PICK l : l = Transcriber!Opposite(locked)
      OBVIOUS
    <2>2. l \in {"ar", "en"} /\ locked \in {"ar", "en"}
      BY <1>11, <2>1 DEF Transcriber!DecodeAgain, Transcriber!Opposite
    <2>3. PICK r \in Transcriber!Decoded(l) : result' = Transcriber!CheckedAgain(r, l)
      BY <1>11, <2>1 DEF Transcriber!DecodeAgain
    <2>4. /\ r \in TrResults
          /\ r.text # Transcriber!NoText => r.valid /\ r.errors = {} /\ r.lang = l
      BY <2>2, <2>3, Decodings
    <2>5. /\ result' \in TrResults
          /\ result'.text # Transcriber!NoText =>
               result' = r /\ Transcriber!Valid(r.text, l)
      BY <2>2, <2>3, <2>4 DEF Transcriber!CheckedAgain
    <2>6. QED
      BY <1>11, <2>4, <2>5 DEF Transcriber!DecodeAgain
  <1>12. CASE Transcriber!Finalize
    BY <1>12 DEF Transcriber!Finalize, Transcriber!Status, Transcriber!Errors
  <1>13. CASE UNCHANGED Transcriber!trVars
    BY <1>13 DEF Transcriber!trVars
  <1>14. QED
    BY <1>1, <1>2, <1>3, <1>4, <1>5, <1>6, <1>7, <1>8, <1>9, <1>10, <1>11, <1>12, <1>13
       DEF Transcriber!Next, Transcriber!CallStep

\* What the invariant promises of the transcript.
LEMMA TranscriptPromise ==
  TranscriptInv => /\ Transcriber!TypeOK /\ Transcriber!OkIsChecked /\ Transcriber!EnglishStaysHere
                   /\ Transcriber!TextIsOk
  BY DEF TranscriptInv, TextInv, WayInv, StatusInv, Transcriber!OkIsChecked, Transcriber!EnglishStaysHere,
         Transcriber!TextIsOk, Transcriber!Valid

-----------------------------------------------------------------------------
(* What is looked up.                                                      *)

\* What was injected and what the answer is made of are of this turn; nothing was answered
\* before the turn rests.
Rounds == 1 .. MaxTurns

LookupInv ==
  /\ round \in Rounds /\ text \in Lookup!Texts \cup {Lookup!Nothing}
  /\ stand \in {"listen", "take", "route", "fetch", "late", "legacy", "answer", "rest"}
  /\ answer \in {"none", "weather", "news", "augmented", "plain"}
  /\ fetching.kind # "chat"
  /\ context.set => context.turn = round
  /\ Lookup!ContextIsOfTheTurn
  /\ stand = "listen" => ~context.set
  /\ stand # "rest" => answer = "none"
  /\ answer \in {"weather", "news"} => block.about # Lookup!Nothing

\* Nothing was asked yet.
LEMMA LookupBegins == Lookup!Init => LookupInv
  <1>1. 1 \in Rounds
    BY LimitAssumption DEF Rounds
  <1>2. QED
    BY <1>1 DEF Lookup!Init, LookupInv, Lookup!ContextIsOfTheTurn, Lookup!NoContext, Lookup!NoBlock, Lookup!Nothing

\* Every step of the lookup keeps its invariant.
LEMMA LookupSteps ==
  ASSUME LookupInv, [Lookup!Next]_(Lookup!llVars)
  PROVE  LookupInv'
  <1> USE DEF LookupInv, Lookup!ContextIsOfTheTurn
  <1>1. ASSUME NEW t \in Lookup!Texts, Lookup!Partial(t) \/ Lookup!Final(t) PROVE LookupInv'
    BY <1>1 DEF Lookup!Partial, Lookup!Final
  <1>2. CASE Lookup!PrefetchEnds \/ Lookup!TakeContext
    <2>1. \/ UNCHANGED <<round, text, fetching, block, answer>> /\ stand' \in {stand, "route"} /\ stand # "rest"
          \/ UNCHANGED <<round, stand, text, context, fetching, block, answer>>
      BY <1>2 DEF Lookup!PrefetchEnds, Lookup!TakeContext
    <2>2. \/ context' = context
          \/ context' = [turn |-> round, about |-> ahead.about, set |-> TRUE] /\ stand' = "route"
      BY <1>2 DEF Lookup!PrefetchEnds, Lookup!TakeContext
    <2>3. /\ context'.set => context'.turn = round
          /\ stand' = "listen" => ~context'.set
      BY <2>1, <2>2
    <2>4. QED
      BY <2>1, <2>2, <2>3
  <1>3. CASE Lookup!Fetch
    BY <1>3 DEF Lookup!Fetch, Lookup!Needs
  <1>4. CASE Lookup!FetchEnds \/ Lookup!LateEnds
    BY <1>4 DEF Lookup!FetchEnds, Lookup!LateEnds, Lookup!Empty
  <1>5. CASE Lookup!Legacy \/ Lookup!Command
    BY <1>5 DEF Lookup!Legacy, Lookup!Command
  <1>6. CASE Lookup!Answer
    <2>1. answer' \in {"plain", "weather", "news", "augmented"}
      BY <1>6 DEF Lookup!Answer
    <2>2. Lookup!Searched => block.about # Lookup!Nothing
      BY DEF Lookup!Searched, Lookup!Nothing
    <2>3. answer' \in {"weather", "news"} => block.about # Lookup!Nothing
      <3>1. block.about = Lookup!Nothing => answer' \in {"plain", "news"}
        BY <1>6 DEF Lookup!Answer
      <3>2. block.about = Lookup!Nothing => answer' = "plain"
        BY <1>6, <2>2, <3>1 DEF Lookup!Answer
      <3>3. QED
        BY <3>2
    <2>4. QED
      BY <1>6, <2>1, <2>3 DEF Lookup!Answer
  <1>7. CASE Lookup!NextTurn
    <2>1. round' \in Rounds
      BY <1>7, LimitAssumption DEF Lookup!NextTurn, Rounds
    <2>2. QED
      BY <1>7, <2>1 DEF Lookup!NextTurn, Lookup!Cleared, Lookup!NoContext, Lookup!NoBlock, Lookup!Nothing
  <1>8. CASE UNCHANGED Lookup!llVars
    BY <1>8 DEF Lookup!llVars
  <1>9. QED
    BY <1>1, <1>2, <1>3, <1>4, <1>5, <1>6, <1>7, <1>8 DEF Lookup!Next, Lookup!Works

\* What the invariant promises of the lookup.
LEMMA LookupPromise ==
  LookupInv => Lookup!TypeOK /\ Lookup!ContextIsOfTheTurn /\ Lookup!AnsweredFromFound
  BY DEF LookupInv, Rounds, Lookup!TypeOK, Lookup!AnsweredFromFound

-----------------------------------------------------------------------------
(* What is executed early.                                                 *)

RunStates  == {"reserved", "queued", "running", "answered", "done", "failed", "canceled"}
EarlyRuns  == [intent : Commands, state : RunStates, stable : BOOLEAN]
HearPoints == {"idle", "listening", "heard", "parsed", "submit", "submitted"}
Hearings   == [pc : HearPoints, text : Early!Texts \cup {"none"}, run : Nat]
Utters     == {"none", "stt", "check", "compare", "cancel", "route", "decide", "done"}

\* Threads that heard something; the run each is about to submit is reserved and its own.
HearInv ==
  /\ runs \in Seq(EarlyRuns) /\ Len(runs) <= MaxRuns
  /\ hearing \in [Early!Hearers -> Hearings]
  /\ \A h \in Early!Hearers :
       /\ hearing[h].pc \in {"heard", "parsed"} => hearing[h].text # "none"
       /\ hearing[h].pc = "submit" => hearing[h].run \in 1 .. Len(runs) /\ runs[hearing[h].run].state = "reserved"
       /\ hearing[h].pc = "submitted" => hearing[h].run \in 1 .. Len(runs)
       /\ \A g \in Early!Hearers :
            hearing[h].pc = "submit" /\ hearing[g].pc = "submit" /\ hearing[h].run = hearing[g].run => h = g

\* The flags; the last text heard is the one that is remembered.
FlagInv ==
  /\ executed \in BOOLEAN /\ spoken \in BOOLEAN /\ overtaken \in BOOLEAN /\ orphaned \in BOOLEAN
  /\ intent \in Commands \cup {"none"} /\ prev \in Commands \cup {"none"}
  /\ future \in 0 .. Len(runs)
  /\ prev # "none" => streak[2] = prev
  /\ \A i \in 1 .. Len(runs) : runs[i].stable

\* The recording's thread hands the utterance on once; it is routed once.
UtterInv ==
  /\ turn \in [pc : {"recording", "transcribing", "submitted"}, lang : {"hint", "opposite"},
               text : Early!Texts \cup {"none"}]
  /\ utter \in [pc : Utters, text : Early!Texts \cup {"none"}]
  /\ turn.pc # "submitted" => utter.pc = "none"
  /\ routed = IF utter.pc \in {"none", "stt", "check", "compare", "cancel", "route"} THEN 0
              ELSE IF utter.pc = "decide" THEN 1 ELSE routed
  /\ routed \in {0, 1}
  /\ answers \in Seq(Commands \cup {"route"})

CountInv == windows \in 0 .. Windows /\ segments \in 0 .. Passes

Only(r)  == r \in 1 .. Len(runs) /\ \A i \in 1 .. Len(runs) : Early!Counts(runs[i]) <=> i = r
NoneRuns == \A i \in 1 .. Len(runs) : ~Early!Active(runs[i])
Others   == \A i \in 1 .. Len(runs) : Early!Counts(runs[i]) => runs[i].intent # utter.text

\* Until the final transcript is compared the flag tells whether a run counts, and there is one.
ReservedInv ==
  /\ ~Early!Checked => ~overtaken
  /\ ~Early!Checked /\ spoken => \E i \in 1 .. Len(runs) : runs[i].state = "done"
  /\ ~Early!Checked /\ ~executed => \A i \in 1 .. Len(runs) : ~Early!Counts(runs[i])
  /\ ~overtaken /\ ((~Early!Checked /\ executed) \/ utter.pc = "compare") =>
       executed /\ \E r \in 1 .. Len(runs) : Only(r) /\ runs[r].intent = intent

\* From then on: what is routed was not executed, unless something came late.
SettledInv ==
  ~overtaken =>
    /\ utter.pc \in {"cancel", "route", "decide"} \/ (utter.pc = "done" /\ routed = 1) => Others
    /\ utter.pc = "done" /\ routed = 0 /\ utter.text \in Commands =>
         \E r \in 1 .. Len(runs) : Only(r) /\ runs[r].intent = utter.text
    /\ utter.pc \in {"route", "decide"} /\ ~orphaned => ~spoken /\ NoneRuns
    /\ utter.pc = "done" /\ routed = 1 /\ ~orphaned => \E n \in 1 .. Len(answers) : answers[n] = "route"

EarlyInv == HearInv /\ FlagInv /\ UtterInv /\ CountInv /\ ReservedInv /\ SettledInv

\* An execution that is active counts.
LEMMA ActiveCounts == \A r \in EarlyRuns : Early!Active(r) => Early!Counts(r)
  BY DEF Early!Active, Early!Counts

\* A step of one execution: the others stay, and so does what it executes.
LEMMA OneRun ==
  ASSUME runs \in Seq(EarlyRuns), NEW i \in 1 .. Len(runs), NEW s \in RunStates,
         runs' = [runs EXCEPT ![i].state = s]
  PROVE  /\ runs' \in Seq(EarlyRuns) /\ Len(runs') = Len(runs)
         /\ \A j \in 1 .. Len(runs) :
              /\ runs'[j].intent = runs[j].intent /\ runs'[j].stable = runs[j].stable
              /\ runs'[j].state = IF j = i THEN s ELSE runs[j].state
  <1>1. \A j \in 1 .. Len(runs) : runs[j] \in EarlyRuns
    BY ElementOfSeq
  <1>2. DOMAIN runs = 1 .. Len(runs) /\ Len(runs) \in Nat
    BY LenProperties
  <1>3. runs' = [j \in 1 .. Len(runs) |-> IF j = i THEN [runs[j] EXCEPT !.state = s] ELSE runs[j]]
    BY <1>2
  <1>4. \A r \in EarlyRuns : /\ [r EXCEPT !.state = s] \in EarlyRuns
                             /\ [r EXCEPT !.state = s].intent = r.intent
                             /\ [r EXCEPT !.state = s].stable = r.stable
                             /\ [r EXCEPT !.state = s].state = s
    BY DEF EarlyRuns
  <1>5. \A j \in 1 .. Len(runs) : runs'[j] = IF j = i THEN [runs[j] EXCEPT !.state = s] ELSE runs[j]
    BY <1>3
  <1>6. runs' \in Seq(EarlyRuns) /\ Len(runs') = Len(runs)
    <2>1. runs' \in [1 .. Len(runs) -> EarlyRuns]
      BY <1>1, <1>3, <1>4
    <2>2. runs' \in Seq(EarlyRuns)
      BY <1>2, <2>1
    <2>3. QED
      BY <1>2, <2>1, <2>2, LenProperties
  <1>7. QED
    BY <1>1, <1>4, <1>5, <1>6

\* A step after which the same executions count, and no more are active.
Kept ==
  /\ Len(runs') = Len(runs)
  /\ \A j \in 1 .. Len(runs) :
       /\ runs'[j].intent = runs[j].intent
       /\ Early!Counts(runs'[j]) <=> Early!Counts(runs[j])
       /\ Early!Active(runs'[j]) => Early!Active(runs[j])
       /\ runs[j].state = "done" => runs'[j].state = "done"

\* Such a step settles nothing.
LEMMA KeptIsSettled ==
  ASSUME ReservedInv, SettledInv, Kept,
         UNCHANGED <<executed, intent, utter, routed, overtaken, orphaned>>,
         \/ spoken' = spoken
         \/ spoken' /\ \E j \in 1 .. Len(runs) : Early!Active(runs[j]) /\ runs'[j].state = "done",
         \A n \in 1 .. Len(answers) : n \in 1 .. Len(answers') /\ answers'[n] = answers[n]
  PROVE  ReservedInv' /\ SettledInv'
  <1>1. ReservedInv'
    BY DEF ReservedInv, Kept, Only, Early!Checked
  <1>2. SettledInv'
    BY DEF SettledInv, Kept, Only, Others, NoneRuns
  <1>3. QED
    BY <1>1, <1>2

\* Nothing was heard yet.
LEMMA EarlyBegins == Early!Init => EarlyInv
  <1>1. ASSUME Early!Init PROVE HearInv /\ CountInv
    BY <1>1, LimitAssumption DEF Early!Init, HearInv, CountInv, Early!Idle, Hearings, HearPoints
  <1>2. ASSUME Early!Init PROVE FlagInv
    <2>1. Len(runs) = 0 /\ 1 .. 0 = {} /\ 0 \in 0 .. 0
      BY <1>2 DEF Early!Init
    <2>2. /\ executed = FALSE /\ spoken = FALSE /\ overtaken = FALSE /\ orphaned = FALSE
          /\ intent = "none" /\ prev = "none" /\ future = 0
      BY <1>2 DEF Early!Init
    <2>3. QED
      BY <2>1, <2>2 DEF FlagInv
  <1>3. ASSUME Early!Init PROVE UtterInv
    BY <1>3 DEF Early!Init, UtterInv, Utters
  <1>4. ASSUME Early!Init PROVE ReservedInv /\ SettledInv
    BY <1>4 DEF Early!Init, ReservedInv, SettledInv, Early!Checked
  <1>5. QED
    BY <1>1, <1>2, <1>3, <1>4 DEF EarlyInv

\* What is heard and transcribed touches no execution.
LEMMA HeardSteps ==
  ASSUME EarlyInv, NEW h \in Early!Hearers,
         \/ Early!Window \/ Early!Partial \/ Early!RecordingEnds \/ Early!Segment \/ Early!WrongLanguage
         \/ Early!Transcribed \/ Early!Look(h)
  PROVE  EarlyInv'
  <1> USE DEF EarlyInv
  <1>1. /\ UNCHANGED <<executed, intent, prev, spoken, future, runs, routed, answers, streak, overtaken, orphaned>>
        /\ utter' = utter \/ (Early!Transcribed /\ turn.pc = "transcribing" /\ utter'.pc = "stt"
                                /\ utter' \in [pc : Utters, text : Early!Texts \cup {"none"}])
    BY DEF Early!Window, Early!Partial, Early!RecordingEnds, Early!Segment, Early!WrongLanguage, Early!Transcribed,
           Early!Look, Early!flags, Early!history, UtterInv, Utters
  <1>2. Early!Checked' <=> Early!Checked
    BY <1>1 DEF UtterInv, Early!Checked
  <1>3. FlagInv'
    BY <1>1 DEF FlagInv
  <1>4. ReservedInv'
    BY <1>1, <1>2 DEF ReservedInv, Only, UtterInv
  <1>5. SettledInv'
    BY <1>1 DEF SettledInv, Only, Others, NoneRuns, UtterInv
  <1>6. HearInv'
    <2>1. ASSUME NEW g \in Early!Hearers, NEW x \in Early!Texts, Early!Hears(g, x) PROVE HearInv'
      <3>1. x # "none"
        BY NameAssumption DEF Early!Texts
      <3>2. PICK r : r = [Early!Idle EXCEPT !.pc = "heard", !.text = x]
        OBVIOUS
      <3>3. r \in Hearings /\ r.pc = "heard" /\ r.text = x
        BY <3>2 DEF Early!Idle, Hearings, HearPoints
      <3>4. hearing' = [hearing EXCEPT ![g] = r]
        BY <2>1, <3>2 DEF Early!Hears
      <3>5. QED
        BY <1>1, <3>1, <3>3, <3>4 DEF HearInv
    <2>2. ASSUME NEW g \in Early!Hearers, Early!Rests(g) PROVE HearInv'
      BY <1>1, <2>2 DEF HearInv, Early!Rests, Early!Idle, Hearings, HearPoints
    <2>3. ASSUME hearing' = hearing PROVE HearInv'
      BY <1>1, <2>3 DEF HearInv
    <2>4. ASSUME NEW g \in Early!Hearers, NEW c \in {"listening", "parsed"}, hearing' = [hearing EXCEPT ![g].pc = c],
                 c = "parsed" => hearing[g].pc = "heard"
          PROVE HearInv'
      BY <1>1, <2>4 DEF HearInv, Hearings, HearPoints
    <2>5. "window" \in Early!Hearers /\ "turn" \in Early!Hearers
      BY DEF Early!Hearers
    <2>6. QED
      BY <2>1, <2>2, <2>3, <2>4, <2>5 DEF Early!Window, Early!Partial, Early!RecordingEnds, Early!Segment,
         Early!WrongLanguage, Early!Transcribed, Early!Look, Early!HearerAt
  <1>7. UtterInv' /\ CountInv'
    <2>1. CountInv'
      BY LimitAssumption DEF CountInv, Early!Window, Early!Partial, Early!RecordingEnds, Early!Segment,
         Early!WrongLanguage, Early!Transcribed, Early!Look
    <2>2. /\ turn' \in [pc : {"recording", "transcribing", "submitted"}, lang : {"hint", "opposite"},
                        text : Early!Texts \cup {"none"}]
          /\ turn.pc = "submitted" => turn' = turn
          /\ Early!Transcribed => turn'.pc = "submitted"
      BY DEF UtterInv, Early!Window, Early!Partial, Early!RecordingEnds, Early!Segment, Early!WrongLanguage,
         Early!Transcribed, Early!Look
    <2>3. UtterInv'
      BY <1>1, <2>2 DEF UtterInv, Utters
    <2>4. QED
      BY <2>1, <2>3
  <1>8. QED
    BY <1>3, <1>4, <1>5, <1>6, <1>7

\* A command heard for the second time in a row is reserved once.
LEMMA ReserveStep ==
  ASSUME EarlyInv, NEW h \in Early!Hearers, Early!Reserve(h)
  PROVE  EarlyInv'
  <1> USE DEF EarlyInv
  <1> DEFINE x == hearing[h].text
             Reserved == Early!Reserves(x) /\ Len(runs) < MaxRuns
  <1>1. /\ UNCHANGED <<turn, windows, segments, spoken, future, utter, routed, answers, orphaned>>
        /\ prev' = Early!NewPrev(x) /\ streak' = <<streak[2], x>>
        /\ x \in Early!Texts /\ hearing[h].pc = "parsed"
    BY DEF Early!Reserve, Early!HearerAt, HearInv, Hearings
  <1>2. CASE ~Reserved
    <2>1. UNCHANGED <<executed, intent, runs, overtaken>> /\ Early!Rests(h)
      BY <1>2 DEF Early!Reserve
    <2>2. HearInv'
      BY <2>1 DEF HearInv, Early!Rests, Early!Idle, Hearings, HearPoints
    <2>3. FlagInv'
      BY <1>1, <2>1 DEF FlagInv, Early!NewPrev, Early!Texts
    <2>4. UtterInv' /\ CountInv'
      BY <1>1 DEF UtterInv, CountInv
    <2>5. ReservedInv' /\ SettledInv'
      BY <1>1, <2>1 DEF ReservedInv, SettledInv, Early!Checked, Only, Others, NoneRuns
    <2>6. QED
      BY <2>2, <2>3, <2>4, <2>5
  <1>3. CASE Reserved
    <2> PICK new : new = [intent |-> x, state |-> "reserved", stable |-> streak'[1] = x]
      OBVIOUS
    <2> PICK n : n = Len(runs) + 1
      OBVIOUS
    <2>1. /\ executed' = TRUE /\ intent' = x /\ runs' = Append(runs, new)
          /\ hearing' = [hearing EXCEPT ![h].pc = "submit", ![h].run = n]
          /\ overtaken' = (overtaken \/ Early!Checked)
          /\ prev = x /\ x \in Commands /\ ~executed /\ Len(runs) < MaxRuns
      BY <1>1, <1>3 DEF Early!Reserve, Early!Reserves, Early!Free, Early!Texts
    <2>2. new \in EarlyRuns /\ new.stable /\ new.intent = x /\ new.state = "reserved" /\ Early!Counts(new)
      <3>1. streak'[1] = streak[2]
        BY <1>1
      <3>2. streak[2] = x
        BY <2>1, NameAssumption DEF FlagInv
      <3>3. QED
        BY <2>1, <3>1, <3>2 DEF EarlyRuns, RunStates, Early!Counts
    <2>3. /\ runs' \in Seq(EarlyRuns) /\ Len(runs') = n /\ Len(runs) \in Nat /\ n \in 1 .. n
          /\ runs'[n] = new /\ \A i \in 1 .. Len(runs) : runs'[i] = runs[i]
      <3>1. runs \in Seq(EarlyRuns)
        BY DEF HearInv
      <3>2. QED
        BY <2>1, <2>2, <3>1, AppendProperties, LenProperties
    <2>4. \A i \in 1 .. n : i = n \/ i \in 1 .. Len(runs)
      BY <2>3
    <2>5. HearInv'
      <3>1. n <= MaxRuns
        BY <2>1, <2>3, LimitAssumption
      <3>2. n \in Nat /\ n \notin 1 .. Len(runs) /\ 1 .. Len(runs) \subseteq 1 .. n
        BY <2>3
      <3>3. hearing' \in [Early!Hearers -> Hearings] /\ hearing'[h].pc = "submit" /\ hearing'[h].run = n
        BY <2>1, <3>2 DEF HearInv, Hearings, HearPoints
      <3>4. \A g \in Early!Hearers : g # h => hearing'[g] = hearing[g]
        BY <2>1 DEF HearInv
      <3>5. QED
        BY <2>2, <2>3, <3>1, <3>2, <3>3, <3>4 DEF HearInv
    <2>6. FlagInv'
      <3>1. future' \in 0 .. n
        BY <1>1, <2>3 DEF FlagInv
      <3>2. \A i \in 1 .. n : runs'[i].stable
        BY <2>2, <2>3, <2>4 DEF FlagInv
      <3>3. prev' # "none" => streak'[2] = prev'
        BY <1>1 DEF Early!NewPrev
      <3>4. prev' \in Commands \cup {"none"}
        BY <1>1 DEF Early!NewPrev, Early!Texts
      <3>5. QED
        BY <1>1, <2>1, <2>3, <3>1, <3>2, <3>3, <3>4 DEF FlagInv, Early!Checked
    <2>7. UtterInv' /\ CountInv'
      BY <1>1 DEF UtterInv, CountInv
    <2>8. ReservedInv'
      <3>1. CASE Early!Checked
        BY <1>1, <2>1, <3>1 DEF ReservedInv, Early!Checked
      <3>2. CASE ~Early!Checked
        <4>1. ~overtaken' /\ \A i \in 1 .. Len(runs) : ~Early!Counts(runs[i])
          BY <2>1, <3>2 DEF ReservedInv
        <4>2. Only(n)'
          BY <2>2, <2>3, <2>4, <4>1 DEF Only
        <4>3. spoken' => \E i \in 1 .. Len(runs') : runs'[i].state = "done"
          BY <1>1, <2>3, <3>2 DEF ReservedInv
        <4>4. QED
          <5>1. Only(n)' /\ n \in 1 .. Len(runs') /\ runs'[n].intent = intent'
            BY <2>1, <2>2, <2>3, <4>2
          <5>2. executed' /\ ~overtaken'
            BY <2>1, <4>1
          <5>3. \E r \in 1 .. Len(runs') : Only(r)' /\ runs'[r].intent = intent'
            BY <5>1
          <5>4. QED
            BY <4>3, <5>2, <5>3 DEF ReservedInv
      <3>3. QED
        BY <3>1, <3>2
    <2>9. SettledInv'
      BY <1>1, <2>1 DEF SettledInv, Early!Checked
    <2>10. QED
      BY <2>5, <2>6, <2>7, <2>8, <2>9
  <1>4. QED
    BY <1>2, <1>3

\* A step of one execution that is none of those reserved keeps what the threads are about to do.
LEMMA OneRunHears ==
  ASSUME HearInv, NEW i \in 1 .. Len(runs), NEW s \in RunStates, runs' = [runs EXCEPT ![i].state = s],
         runs[i].state # "reserved", hearing' = hearing
  PROVE  HearInv'
  <1>1. /\ runs' \in Seq(EarlyRuns) /\ Len(runs') = Len(runs)
        /\ \A j \in 1 .. Len(runs) : runs'[j].state = IF j = i THEN s ELSE runs[j].state
    BY OneRun DEF HearInv
  <1>2. QED
    BY <1>1 DEF HearInv

\* What was reserved is handed to the pool and kept.
LEMMA SubmitSteps ==
  ASSUME EarlyInv, NEW h \in Early!Hearers, Early!Submit(h) \/ Early!KeepFuture(h)
  PROVE  EarlyInv'
  <1> USE DEF EarlyInv
  <1>1. CASE Early!Submit(h)
    <2> PICK i : i = hearing[h].run
      OBVIOUS
    <2>1. /\ i \in 1 .. Len(runs) /\ runs[i].state = "reserved" /\ hearing[h].pc = "submit"
          /\ runs' = [runs EXCEPT ![i].state = "queued"] /\ "queued" \in RunStates
          /\ hearing' = [hearing EXCEPT ![h].pc = "submitted"]
          /\ UNCHANGED <<turn, windows, segments, executed, intent, prev, spoken, future, utter, routed, answers,
                         streak, overtaken, orphaned>>
      BY <1>1 DEF Early!Submit, Early!HearerAt, HearInv, RunStates, Early!flags, Early!history
    <2>2. /\ runs' \in Seq(EarlyRuns) /\ Len(runs') = Len(runs)
          /\ \A j \in 1 .. Len(runs) :
               /\ runs'[j].intent = runs[j].intent /\ runs'[j].stable = runs[j].stable
               /\ runs'[j].state = IF j = i THEN "queued" ELSE runs[j].state
      BY <2>1, OneRun DEF HearInv
    <2>3. HearInv'
      <3>1. /\ hearing' \in [Early!Hearers -> Hearings] /\ hearing'[h].pc = "submitted" /\ hearing'[h].run = i
            /\ \A g \in Early!Hearers : g # h => hearing'[g] = hearing[g]
        BY <2>1 DEF HearInv, Hearings, HearPoints
      <3>2. \A g \in Early!Hearers : hearing[g].pc = "submit" /\ hearing[g].run = i => g = h
        BY <2>1 DEF HearInv
      <3>3. QED
        BY <2>1, <2>2, <3>1, <3>2 DEF HearInv
    <2>4. FlagInv' /\ UtterInv' /\ CountInv'
      BY <2>1, <2>2 DEF FlagInv, UtterInv, CountInv
    <2>5. Kept
      BY <2>1, <2>2 DEF Kept, Early!Counts, Early!Active
    <2>6. ReservedInv' /\ SettledInv'
      BY <2>1, <2>5, KeptIsSettled
    <2>7. QED
      BY <2>3, <2>4, <2>6
  <1>2. CASE Early!KeepFuture(h)
    <2>1. /\ hearing[h].pc = "submitted" /\ future' = hearing[h].run /\ Early!Rests(h)
          /\ UNCHANGED <<turn, windows, segments, executed, intent, prev, spoken, runs, utter, routed, answers,
                         streak, overtaken, orphaned>>
      BY <1>2 DEF Early!KeepFuture, Early!HearerAt, Early!history
    <2>2. HearInv'
      BY <2>1 DEF HearInv, Early!Rests, Early!Idle, Hearings, HearPoints
    <2>3. FlagInv'
      BY <2>1 DEF FlagInv, HearInv
    <2>4. UtterInv' /\ CountInv' /\ ReservedInv' /\ SettledInv'
      BY <2>1 DEF UtterInv, CountInv, ReservedInv, SettledInv, Early!Checked, Only, Others, NoneRuns
    <2>5. QED
      BY <2>2, <2>3, <2>4
  <1>3. QED
    BY <1>1, <1>2

\* An execution begins, answers and ends on the pool.
LEMMA PoolSteps ==
  ASSUME EarlyInv, NEW i \in 1 .. MaxRuns,
         Early!Begin(i) \/ Early!Answer(i) \/ Early!Finish(i) \/ Early!RunFails(i)
  PROVE  EarlyInv'
  <1> USE DEF EarlyInv
  <1> PICK s : \/ Early!Begin(i) /\ s = "running"
               \/ Early!Answer(i) /\ s = "answered"
               \/ Early!Finish(i) /\ s = "done"
               \/ Early!RunFails(i) /\ s = "failed"
    OBVIOUS
  <1>1. /\ i \in 1 .. Len(runs) /\ runs' = [runs EXCEPT ![i].state = s] /\ s \in RunStates
        /\ runs[i].state \in {"queued", "running", "answered"}
        /\ s \in {"running", "answered", "done", "failed"} /\ (s = "failed" => Early!RunFails(i))
        /\ UNCHANGED <<hearing, turn, windows, segments, intent, prev, future, utter, routed, streak, orphaned>>
    BY DEF Early!Begin, Early!Answer, Early!Finish, Early!RunFails, RunStates, Early!flags, Early!history
  <1>2. /\ runs' \in Seq(EarlyRuns) /\ Len(runs') = Len(runs)
        /\ \A j \in 1 .. Len(runs) :
             /\ runs'[j].intent = runs[j].intent /\ runs'[j].stable = runs[j].stable
             /\ runs'[j].state = IF j = i THEN s ELSE runs[j].state
    BY <1>1, OneRun DEF HearInv
  <1>3. HearInv'
    BY <1>1, OneRunHears
  <1>8. runs[i].intent \in Commands
    <2>1. runs[i] \in EarlyRuns
      BY <1>1, ElementOfSeq DEF HearInv
    <2>2. QED
      BY <2>1 DEF EarlyRuns
  <1>4. UtterInv' /\ CountInv'
    <2>2. answers' = answers \/ answers' = Append(answers, runs[i].intent)
      BY DEF Early!Begin, Early!Answer, Early!Finish, Early!RunFails, Early!history
    <2>3. answers' \in Seq(Commands \cup {"route"})
      BY <1>8, <2>2, AppendProperties DEF UtterInv
    <2>4. QED
      BY <1>1, <2>3 DEF UtterInv, CountInv
  <1>5. CASE s # "failed"
    <2>1. /\ UNCHANGED <<executed, overtaken>> /\ (spoken' = spoken \/ (s = "done" /\ spoken' = TRUE))
          /\ s = "done" => runs[i].state = "answered"
          /\ answers' = answers \/ answers' = Append(answers, runs[i].intent)
      <3>1. CASE Early!Begin(i) /\ s = "running"
        BY <3>1 DEF Early!Begin, Early!flags, Early!history
      <3>2. CASE Early!Answer(i) /\ s = "answered"
        BY <3>2 DEF Early!Answer, Early!flags, Early!history
      <3>3. CASE Early!Finish(i) /\ s = "done"
        BY <3>3 DEF Early!Finish, Early!flags, Early!history
      <3>4. QED
        BY <1>5, <3>1, <3>2, <3>3
    <2>2. FlagInv'
      BY <1>1, <1>2, <2>1 DEF FlagInv
    <2>3. Kept
      BY <1>1, <1>2, <1>5 DEF Kept, Early!Counts, Early!Active
    <2>4. \A n \in 1 .. Len(answers) : n \in 1 .. Len(answers') /\ answers'[n] = answers[n]
      BY <1>8, <2>1, AppendProperties DEF UtterInv
    <2>5. ReservedInv' /\ SettledInv'
      BY <1>1, <1>2, <2>1, <2>3, <2>4, KeptIsSettled DEF Early!Active
    <2>6. QED
      BY <1>3, <1>4, <2>2, <2>5
  <1>6. CASE s = "failed"
    <2>1. /\ executed' = FALSE /\ overtaken' = (overtaken \/ Early!Checked) /\ UNCHANGED <<spoken, answers>>
          /\ runs[i].state = "running"
      BY <1>1, <1>6 DEF Early!RunFails, Early!NotExecuted
    <2>2. FlagInv'
      BY <1>1, <1>2, <2>1 DEF FlagInv, Early!Checked
    <2>3. \A j \in 1 .. Len(runs) : Early!Counts(runs'[j]) <=> Early!Counts(runs[j]) /\ j # i
      BY <1>2, <1>6 DEF Early!Counts
    <2>4. ReservedInv'
      <3>1. ASSUME ~Early!Checked PROVE \A j \in 1 .. Len(runs') : ~Early!Counts(runs'[j])
        <4>1. Early!Counts(runs[i])
          BY <2>1 DEF Early!Counts
        <4>2. executed /\ ~overtaken
          BY <1>1, <3>1, <4>1 DEF ReservedInv, FlagInv
        <4>3. \A j \in 1 .. Len(runs) : Early!Counts(runs[j]) => j = i
          BY <1>1, <3>1, <4>1, <4>2 DEF ReservedInv, Only
        <4>4. QED
          BY <1>2, <2>3, <4>3
      <3>2. ASSUME ~Early!Checked, spoken' PROVE \E j \in 1 .. Len(runs') : runs'[j].state = "done"
        BY <1>2, <2>1, <3>2 DEF ReservedInv
      <3>3. Early!Checked' <=> Early!Checked
        BY <1>1 DEF Early!Checked
      <3>4. utter.pc = "compare" => Early!Checked
        BY DEF Early!Checked
      <3>5. ~Early!Checked => ~overtaken'
        BY <2>1 DEF ReservedInv
      <3>6. Early!Checked => overtaken'
        BY <2>1
      <3>7. QED
        BY <1>1, <2>1, <3>1, <3>2, <3>3, <3>4, <3>5, <3>6 DEF ReservedInv
    <2>5. SettledInv'
      <3>1. ~overtaken' => utter'.pc \in {"none", "stt", "check"}
        BY <1>1, <2>1 DEF Early!Checked
      <3>2. QED
        BY <3>1 DEF SettledInv
    <2>6. QED
      BY <1>3, <1>4, <2>2, <2>4, <2>5
  <1>7. QED
    BY <1>5, <1>6

\* The utterance is transcribed, compared with what was executed and routed.
LEMMA ProcessSteps ==
  ASSUME EarlyInv, Early!Process
  PROVE  EarlyInv'
  <1> USE DEF EarlyInv
  <1>1. UNCHANGED <<hearing, turn, windows, segments, prev, future, streak, overtaken>>
    BY DEF Early!Process, Early!Transcribe, Early!CheckEarly, Early!Compare, Early!Cancel, Early!Route, Early!Decide,
           Early!flags, Early!history
  <1>2. CountInv'
    BY <1>1 DEF CountInv
  <1>3. CASE Early!Transcribe \/ Early!CheckEarly \/ Early!Compare
    <2>1. /\ UNCHANGED <<executed, intent, spoken, runs, routed, answers, orphaned>>
          /\ utter.pc \in {"stt", "check", "compare"} /\ utter'.pc \in {"check", "done", "compare", "cancel", "route"}
          /\ utter' \in [pc : Utters, text : Early!Texts \cup {"none"}]
      <3>1. UNCHANGED <<executed, intent, spoken, runs, routed, answers, orphaned>>
        BY <1>3 DEF Early!Transcribe, Early!CheckEarly, Early!Compare, Early!flags, Early!history
      <3>2. utter.pc \in {"stt", "check", "compare"}
        BY <1>3 DEF Early!Transcribe, Early!CheckEarly, Early!Compare, Early!UtterAt
      <3>3. \/ \E c \in {"check", "done", "compare", "cancel", "route"} : utter' = [utter EXCEPT !.pc = c]
            \/ \E x \in Early!Texts : utter' = [pc |-> "check", text |-> x]
        BY <1>3 DEF Early!Transcribe, Early!CheckEarly, Early!Compare, Early!UtterGoes
      <3>4. QED
        BY <3>1, <3>2, <3>3 DEF UtterInv, Utters
    <2>2. HearInv' /\ FlagInv'
      BY <1>1, <2>1 DEF HearInv, FlagInv
    <2>3. UtterInv'
      BY <1>1, <2>1 DEF UtterInv
    <2>4. (NoneRuns' <=> NoneRuns) /\ \A r \in 1 .. Len(runs) : Only(r)' <=> Only(r)
      BY <2>1 DEF NoneRuns, Only
    <2>5. CASE Early!Transcribe
      <3>1. /\ utter.pc = "stt" /\ utter'.pc \in {"check", "done"}
            /\ utter'.pc = "done" => utter'.text = "none" /\ routed = 0
        <4>1. utter.pc = "stt" /\ routed = 0
          BY <2>5 DEF Early!Transcribe, Early!UtterAt, UtterInv
        <4>2. \/ utter.text # "none" /\ utter' = [utter EXCEPT !.pc = "check"]
              \/ \E x \in Early!Texts : utter' = [pc |-> "check", text |-> x]
              \/ utter.text = "none" /\ utter' = [utter EXCEPT !.pc = "done"]
          BY <2>5 DEF Early!Transcribe, Early!UtterGoes
        <4>3. QED
          BY <4>1, <4>2 DEF UtterInv
      <3>2. ReservedInv'
        BY <1>1, <2>1, <2>4, <3>1 DEF ReservedInv, Early!Checked
      <3>3. utter'.pc = "done" => utter'.text \notin Commands
        BY <3>1, NameAssumption
      <3>4. SettledInv'
        BY <1>1, <2>1, <3>1, <3>3 DEF SettledInv
      <3>5. QED
        BY <1>2, <2>2, <2>3, <3>2, <3>4
    <2>6. CASE Early!CheckEarly
      <3>1. utter.pc = "check" /\ utter'.pc = (IF executed THEN "compare" ELSE "route") /\ utter'.text = utter.text
        BY <2>6 DEF Early!CheckEarly, Early!UtterAt, Early!UtterGoes, UtterInv
      <3>2. ~Early!Checked /\ ~overtaken
        BY <3>1 DEF Early!Checked, ReservedInv
      <3>3. ReservedInv'
        BY <1>1, <2>1, <2>4, <3>1, <3>2 DEF ReservedInv, Early!Checked
      <3>4. ASSUME ~executed PROVE Others' /\ NoneRuns' /\ ~spoken
        <4>1. \A i \in 1 .. Len(runs) : runs[i] \in EarlyRuns /\ ~Early!Counts(runs[i])
          BY <3>2, <3>4, ElementOfSeq DEF ReservedInv, HearInv
        <4>2. Others' /\ NoneRuns'
          BY <2>1, <4>1, ActiveCounts DEF Others, NoneRuns
        <4>3. ~spoken
          BY <3>2, <4>1 DEF ReservedInv, Early!Counts
        <4>4. QED
          BY <4>2, <4>3
      <3>5. SettledInv'
        BY <1>1, <2>1, <3>1, <3>4 DEF SettledInv
      <3>6. QED
        BY <1>2, <2>2, <2>3, <3>3, <3>5
    <2>7. CASE Early!Compare
      <3>1. /\ utter.pc = "compare" /\ utter'.text = utter.text
            /\ \/ utter'.pc = IF Early!Same THEN "done" ELSE "cancel"
               \/ utter.text = "other" /\ utter'.pc = "done"
        <4>1. PICK same \in {Early!Same, Early!Same \/ utter.text = "other"} :
                utter' = [utter EXCEPT !.pc = IF same THEN "done" ELSE "cancel"]
          BY <2>7 DEF Early!Compare, Early!UtterGoes
        <4>2. (same <=> Early!Same) \/ (same <=> Early!Same \/ utter.text = "other")
          BY <4>1
        <4>3. /\ utter.pc = "compare" /\ utter'.text = utter.text
              /\ utter'.pc = IF same THEN "done" ELSE "cancel"
          BY <2>7, <4>1 DEF Early!Compare, Early!UtterAt, UtterInv
        <4>4. QED
          BY <4>2, <4>3
      <3>2. ReservedInv'
        BY <3>1 DEF ReservedInv, Early!Checked
      <3>3. ASSUME ~overtaken PROVE SettledInv'
        <4>1. PICK r \in 1 .. Len(runs) : Only(r) /\ runs[r].intent = intent
          BY <3>1, <3>3 DEF ReservedInv
        <4>2. intent # "none"
          <5>1. runs[r] \in EarlyRuns
            BY ElementOfSeq DEF HearInv
          <5>2. QED
            BY <4>1, <5>1, NameAssumption DEF EarlyRuns
        <4>3. CASE utter'.pc = "done" /\ (Early!Same \/ utter.text = "other")
          <5>1. "other" \notin Commands
            BY NameAssumption
          <5>2. QED
            BY <2>1, <2>4, <3>1, <4>1, <4>2, <4>3, <5>1 DEF SettledInv, Early!Same, UtterInv
        <4>4. CASE ~Early!Same /\ utter'.pc = "cancel"
          <5>1. Others'
            BY <2>1, <3>1, <4>1, <4>4 DEF Others, Only, Early!Same
          <5>2. QED
            BY <3>1, <4>4, <5>1 DEF SettledInv
        <4>5. QED
          BY <3>1, <4>3, <4>4
      <3>4. SettledInv'
        BY <1>1, <3>3 DEF SettledInv
      <3>5. QED
        BY <1>2, <2>2, <2>3, <3>2, <3>4
    <2>8. QED
      BY <1>3, <2>5, <2>6, <2>7
  <1>4. CASE Early!Cancel
    <2> PICK new : new = runs'
      OBVIOUS
    <2>1. /\ utter.pc = "cancel" /\ utter' = [utter EXCEPT !.pc = "route"]
          /\ executed' = FALSE /\ intent' = "none" /\ spoken' = FALSE
          /\ new = [i \in 1 .. Len(runs) |-> IF i = future /\ runs[i].state = "queued"
                                             THEN [runs[i] EXCEPT !.state = "canceled"] ELSE runs[i]]
          /\ orphaned' = \E i \in 1 .. Len(runs) : Early!Active(new[i])
          /\ UNCHANGED <<routed, answers>>
      BY <1>4 DEF Early!Cancel, Early!UtterAt, Early!UtterGoes, Early!NotSpoken
    <2>2. \A i \in 1 .. Len(runs) : runs[i] \in EarlyRuns
      BY ElementOfSeq DEF HearInv
    <2>3. \A r \in EarlyRuns : /\ [r EXCEPT !.state = "canceled"] \in EarlyRuns
                               /\ [r EXCEPT !.state = "canceled"].intent = r.intent
                               /\ [r EXCEPT !.state = "canceled"].stable = r.stable
                               /\ ~Early!Counts([r EXCEPT !.state = "canceled"])
      BY DEF EarlyRuns, RunStates, Early!Counts
    <2>4. /\ new \in [1 .. Len(runs) -> EarlyRuns]
          /\ \A i \in 1 .. Len(runs) :
               /\ new[i].intent = runs[i].intent /\ new[i].stable = runs[i].stable
               /\ Early!Counts(new[i]) => Early!Counts(runs[i])
               /\ runs[i].state = "reserved" => new[i] = runs[i]
      BY <2>1, <2>2, <2>3
    <2>5. Len(runs) \in Nat
      BY LenProperties DEF HearInv
    <2>6. runs' \in Seq(EarlyRuns) /\ Len(runs') = Len(runs)
      <3>1. new \in Seq(EarlyRuns)
        BY <2>4, <2>5
      <3>2. QED
        BY <2>4, <2>5, <3>1, LenProperties
    <2>7. HearInv'
      BY <1>1, <2>4, <2>6 DEF HearInv
    <2>8. FlagInv'
      BY <1>1, <2>1, <2>4, <2>6 DEF FlagInv
    <2>9. utter' \in [pc : Utters, text : Early!Texts \cup {"none"}] /\ utter'.pc = "route" /\ utter'.text = utter.text
      BY <2>1 DEF UtterInv, Utters
    <2>10. UtterInv'
      BY <1>1, <2>1, <2>9 DEF UtterInv
    <2>11. ReservedInv'
      BY <2>9 DEF ReservedInv, Early!Checked
    <2>12. SettledInv'
      <3>1. Others => Others'
        BY <2>4, <2>6, <2>9 DEF Others
      <3>2. ~orphaned' => ~spoken' /\ NoneRuns'
        BY <2>1, <2>6 DEF NoneRuns
      <3>3. QED
        BY <1>1, <2>1, <2>9, <3>1, <3>2 DEF SettledInv
    <2>13. QED
      BY <1>2, <2>7, <2>8, <2>10, <2>11, <2>12
  <1>5. CASE Early!Route \/ Early!Decide
    <2>1. /\ UNCHANGED <<executed, intent, spoken, runs, orphaned>>
          /\ \/ utter.pc = "route" /\ utter' = [utter EXCEPT !.pc = "decide"] /\ routed' = routed + 1 /\ answers' = answers
             \/ /\ utter.pc = "decide" /\ utter' = [utter EXCEPT !.pc = "done"] /\ routed' = routed
                /\ answers' = IF spoken THEN answers ELSE Append(answers, "route")
      BY <1>5 DEF Early!Route, Early!Decide, Early!UtterAt, Early!UtterGoes, Early!flags
    <2>2. /\ utter' \in [pc : Utters, text : Early!Texts \cup {"none"}] /\ utter'.text = utter.text /\ routed' = 1
          /\ (utter.pc = "route" /\ utter'.pc = "decide") \/ (utter.pc = "decide" /\ utter'.pc = "done")
      BY <2>1 DEF UtterInv, Utters
    <2>3. HearInv' /\ FlagInv'
      BY <1>1, <2>1 DEF HearInv, FlagInv
    <2>4. UtterInv'
      <3>1. "route" \in Commands \cup {"route"} /\ answers \in Seq(Commands \cup {"route"})
        BY DEF UtterInv
      <3>2. answers' \in Seq(Commands \cup {"route"})
        BY <2>1, <3>1, AppendProperties
      <3>3. QED
        BY <1>1, <2>2, <3>2 DEF UtterInv
    <2>5. ReservedInv'
      BY <2>2 DEF ReservedInv, Early!Checked
    <2>6. (Others' <=> Others) /\ (NoneRuns' <=> NoneRuns)
      BY <2>1, <2>2 DEF Others, NoneRuns
    <2>7. ASSUME utter'.pc = "done", ~overtaken, ~orphaned PROVE \E n \in 1 .. Len(answers') : answers'[n] = "route"
      <3>1. answers' = Append(answers, "route")
        BY <2>1, <2>2, <2>7 DEF SettledInv
      <3>2. /\ answers'[Len(answers) + 1] = "route" /\ Len(answers') = Len(answers) + 1 /\ Len(answers) \in Nat
        BY <3>1, AppendProperties, LenProperties DEF UtterInv
      <3>3. QED
        BY <3>2
    <2>8. SettledInv'
      BY <1>1, <2>1, <2>2, <2>6, <2>7 DEF SettledInv
    <2>9. QED
      BY <1>2, <2>3, <2>4, <2>5, <2>8
  <1>6. QED
    BY <1>3, <1>4, <1>5 DEF Early!Process

\* Every step of the early execution keeps its invariant.
LEMMA EarlySteps ==
  ASSUME EarlyInv, [Early!Next]_(earlyVars)
  PROVE  EarlyInv'
  <1>1. CASE UNCHANGED earlyVars
    BY <1>1 DEF earlyVars, EarlyInv, HearInv, FlagInv, UtterInv, CountInv, ReservedInv, SettledInv, Early!Checked, Only,
                NoneRuns, Others
  <1>2. "window" \in Early!Hearers
    BY DEF Early!Hearers
  <1>3. ASSUME NEW h \in Early!Hearers, Early!Look(h) \/ Early!Reserve(h) \/ Early!Submit(h) \/ Early!KeepFuture(h)
        PROVE EarlyInv'
    BY <1>3, HeardSteps, ReserveStep, SubmitSteps
  <1>4. CASE Early!Pool
    BY <1>4, PoolSteps DEF Early!Pool
  <1>5. QED
    BY <1>1, <1>2, <1>3, <1>4, HeardSteps, ProcessSteps DEF Early!Next, Early!Hear

\* The cardinality the module counts with is that of the library.
LEMMA EarlyCount == \A S : Early!Cardinality(S) = Cardinality(S)
  BY DEF Early!Cardinality, Cardinality

\* What the invariant promises of the early execution.
LEMMA EarlyPromise ==
  EarlyInv => /\ Early!TypeOK /\ Early!HandledOnce /\ Early!OneAtATime /\ Early!EarlyIsStable
              /\ Early!RouteIsAnswered
  <1> SUFFICES ASSUME EarlyInv
               PROVE  Early!TypeOK /\ Early!HandledOnce /\ Early!OneAtATime /\ Early!EarlyIsStable /\ Early!RouteIsAnswered
    OBVIOUS
  <1> USE DEF EarlyInv
  <1>1. Early!TypeOK
    <2>1. turn.pc \in {"recording", "transcribing", "submitted"} /\ turn.lang \in {"hint", "opposite"}
          /\ turn.text \in Early!Texts \cup {"none"} /\ utter.text \in Early!Texts \cup {"none"} /\ routed \in 0 .. 1
      BY DEF UtterInv
    <2>2. (\A h \in Early!Hearers : hearing[h].text \in Early!Texts \cup {"none"}) /\ Len(runs) <= MaxRuns
      BY DEF HearInv, Hearings
    <2>3. QED
      BY <2>1, <2>2 DEF Early!TypeOK, FlagInv, CountInv
  <1>2. Early!EarlyIsStable /\ Early!RouteIsAnswered
    BY DEF Early!EarlyIsStable, Early!RouteIsAnswered, Early!UtterAt, FlagInv, SettledInv
  <1>3. Early!HandledOnce
    <2>1. ASSUME utter.pc = "done", utter.text \in Commands, ~overtaken
          PROVE  Cardinality({i \in 1 .. Len(runs) : runs[i].intent = utter.text /\ Early!Counts(runs[i])}) + routed = 1
      <3> PICK S : S = {i \in 1 .. Len(runs) : runs[i].intent = utter.text /\ Early!Counts(runs[i])}
        OBVIOUS
      <3> SUFFICES Cardinality(S) + routed = 1
        OBVIOUS
      <3>1. CASE routed = 1
        <4>1. S = {}
          BY <2>1, <3>1 DEF SettledInv, Others
        <4>2. Cardinality(S) = 0
          BY <4>1, FS_EmptySet
        <4>3. QED
          BY <3>1, <4>2
      <3>2. CASE routed = 0
        <4>1. PICK r \in 1 .. Len(runs) : Only(r) /\ runs[r].intent = utter.text
          BY <2>1, <3>2 DEF SettledInv
        <4>2. S = {r}
          BY <4>1 DEF Only
        <4>3. Cardinality({r}) = 1
          BY FS_Singleton
        <4>4. Cardinality(S) = 1
          BY <4>2, <4>3
        <4>5. QED
          BY <3>2, <4>4
      <3>3. QED
        BY <3>1, <3>2 DEF UtterInv
    <2>2. QED
      BY <2>1, EarlyCount DEF Early!HandledOnce, Early!UtterAt
  <1>4. Early!OneAtATime
    <2>1. ASSUME ~Early!Checked
          PROVE  Cardinality({i \in 1 .. Len(runs) : Early!Active(runs[i])}) <= 1
      <3> PICK S : S = {i \in 1 .. Len(runs) : Early!Active(runs[i])}
        OBVIOUS
      <3>1. \A i \in S : i \in 1 .. Len(runs) /\ Early!Counts(runs[i])
        BY ElementOfSeq, ActiveCounts DEF HearInv
      <3>2. \A i, j \in S : i = j
        BY <2>1, <3>1 DEF ReservedInv, Only, FlagInv
      <3>3. S = {} \/ \E i \in S : S = {i}
        BY <3>2
      <3>4. \A i : Cardinality({i}) = 1
        BY FS_Singleton
      <3>5. Cardinality({}) = 0
        BY FS_EmptySet
      <3>6. Cardinality(S) = 0 \/ Cardinality(S) = 1
        BY <3>3, <3>4, <3>5
      <3>7. QED
        BY <3>6
    <2>2. QED
      BY <2>1, EarlyCount DEF Early!OneAtATime
  <1>5. QED
    BY <1>1, <1>2, <1>3, <1>4

-----------------------------------------------------------------------------
(* What is answered: words.                                                *)

Items  == {"say", "muse", "open", "close"}
AnswerKinds == {"could_not", "timed_out", "no_connection", "internal", "none", "text"}
Pieces == Nat \X (Items \cup AnswerKinds)
Quiet  == {p \in Pieces : p[2] # "muse"}
Heard  == IF thinker THEN Quiet ELSE Pieces

\* The last mark among the first m items of the reply opens.
TagOpen(m) == \E j \in 1 .. m : reply[j] = "open" /\ \A k \in j .. m : reply[k] # "close"

\* What the model may send: items, and its reasoning is marked.
Marked == reply \in Seq(Items) /\ \A i \in 1 .. Len(reply) : reply[i] = "muse" => TagOpen(i)

Before == {p \in Nat \X Nat : p[1] < p[2]}

\* A set of numbers that is not empty has a least one.
LEMMA LeastNumber ==
  ASSUME NEW T \in SUBSET Nat, T # {}
  PROVE  \E x \in T : \A y \in T : x <= y
  <1>1. IsWellFoundedOn(Before, Nat)
    BY NatLessThanWellFounded DEF OpToRel, Before
  <1>2. PICK x \in T : \A y \in T : ~(<<y, x>> \in Before)
    BY <1>1, WFMin
  <1>3. ASSUME NEW y \in T PROVE x <= y
    <2>1. <<y, x>> \in Nat \X Nat
      OBVIOUS
    <2>2. QED
      BY <1>2, <2>1 DEF Before
  <1>4. QED
    BY <1>3

\* A bounded one has a greatest, too.
LEMMA GreatestNumber ==
  ASSUME NEW N \in Nat, NEW T \in SUBSET (0 .. N), T # {}
  PROVE  \E x \in T : \A y \in T : y <= x
  <1>5. \A y \in T : y \in Nat /\ y <= N /\ N - y \in Nat
    <2>1. \A y \in 0 .. N : y \in Nat /\ y <= N /\ N - y \in Nat
      OBVIOUS
    <2>2. QED
      BY <2>1
  <1>1. {N - y : y \in T} \in SUBSET Nat /\ {N - y : y \in T} # {}
    BY <1>5
  <1>2. PICK z \in {N - y : y \in T} : \A w \in {N - y : y \in T} : z <= w
    BY <1>1, LeastNumber
  <1>3. PICK x \in T : z = N - x
    OBVIOUS
  <1>4. \A y \in T : N - x <= N - y
    BY <1>2, <1>3
  <1>6. QED
    BY <1>4, <1>5

\* The cardinality the module counts with is that of the library.
LEMMA AnswerCount == \A S : Answer!Cardinality(S) = Cardinality(S)
  BY DEF Answer!Cardinality, Cardinality

\* The k-th number of a set has k numbers of the set up to it.
LEMMA KthNumber ==
  ASSUME NEW N \in Nat, NEW S \in SUBSET (1 .. N), NEW k \in 1 .. Cardinality(S)
  PROVE  \E i \in S : Cardinality({j \in S : j <= i}) = k
  <1> DEFINE Up(m) == {j \in S : j <= m}
             Reached == {m \in Nat : Cardinality(Up(m)) >= k}
  <1>0. \A j \in S : j \in Nat /\ 1 <= j /\ j <= N
    <2>1. \A j \in 1 .. N : j \in Nat /\ 1 <= j /\ j <= N
      OBVIOUS
    <2>2. QED
      BY <2>1
  <1>11. k \in Nat /\ 1 <= k /\ k <= Cardinality(S)
    <2>1. IsFiniteSet(1 .. N) /\ S \subseteq 1 .. N
      BY FS_Interval
    <2>2. Cardinality(S) \in Nat
      BY <2>1, FS_Subset, FS_CardinalityType
    <2>3. QED
      BY <2>2
  <1>1. \A m \in Nat : IsFiniteSet(Up(m)) /\ Cardinality(Up(m)) \in Nat
    <2>1. IsFiniteSet(1 .. N)
      BY FS_Interval
    <2>2. \A m \in Nat : Up(m) \subseteq 1 .. N
      OBVIOUS
    <2>3. QED
      BY <2>1, <2>2, FS_Subset, FS_CardinalityType
  <1>2. N \in Reached
    <2>1. Up(N) = S
      BY <1>0
    <2>2. QED
      BY <1>1, <1>11, <2>1
  <1>3. PICK m \in Reached : \A n \in Reached : m <= n
    <2>1. Reached \in SUBSET Nat /\ Reached # {}
      BY <1>2
    <2>2. QED
      BY <2>1, LeastNumber
  <1>4. m # 0
    <2>0. \A j \in S : ~(j <= 0)
      BY <1>0
    <2>1. Up(0) = {}
      BY <2>0
    <2>2. Cardinality(Up(0)) = 0
      BY <2>1, FS_EmptySet
    <2>3. QED
      BY <1>3, <1>11, <2>2
  <1>5. Cardinality(Up(m - 1)) < k
    <2>1. m \in Nat /\ m - 1 \in Nat
      BY <1>4
    <2>6. ~(m <= m - 1)
      BY <2>1
    <2>2. m - 1 \notin Reached
      BY <1>3, <2>6
    <2>3. ~(Cardinality(Up(m - 1)) >= k)
      BY <2>1, <2>2
    <2>4. Cardinality(Up(m - 1)) \in Nat
      BY <1>1, <2>1
    <2>5. QED
      BY <1>11, <2>3, <2>4
  <1>6. m \in S
    <2>1. ASSUME m \notin S PROVE Up(m) = Up(m - 1)
      <3>1. m \in Nat /\ \A j \in S : j <= m <=> j <= m - 1
        BY <1>0, <2>1
      <3>2. QED
        BY <3>1
    <2>2. QED
      BY <1>1, <1>3, <1>5, <1>11, <2>1
  <1>7. Up(m) = Up(m - 1) \cup {m} /\ m \notin Up(m - 1)
    <2>1. m \in Nat /\ \A j \in S : j <= m <=> (j <= m - 1 \/ j = m)
      BY <1>0
    <2>2. ~(m <= m - 1)
      BY <2>1
    <2>3. QED
      BY <1>6, <2>1, <2>2
  <1>8. Cardinality(Up(m)) = Cardinality(Up(m - 1)) + 1
    <2>1. m - 1 \in Nat
      BY <1>4
    <2>2. QED
      BY <1>1, <1>7, <2>1, FS_AddElement
  <1>9. Cardinality(Up(m)) = k
    <2>1. m - 1 \in Nat
      BY <1>4
    <2>2. Cardinality(Up(m)) >= k
      BY <1>3
    <2>3. QED
      <3>1. PICK c : c = Cardinality(Up(m - 1))
        OBVIOUS
      <3>2. c \in Nat
        BY <1>1, <2>1, <3>1
      <3>3. c < k /\ c + 1 >= k
        BY <1>5, <1>8, <2>2, <3>1
      <3>4. c + 1 = k
        BY <1>11, <3>2, <3>3
      <3>5. QED
        BY <1>8, <3>1, <3>4
  <1>10. QED
    BY <1>6, <1>9

\* The words at the places of a set, one after the other.
LEMMA WordsAre ==
  ASSUME NEW N \in Nat, NEW S \in SUBSET (1 .. N), NEW W, \A i \in S : Answer!Word(i) \in W
  PROVE  Answer!Words(S) \in Seq(W)
  <1>1. Cardinality(S) \in Nat
    <2>1. IsFiniteSet(1 .. N) /\ S \subseteq 1 .. N
      BY FS_Interval
    <2>2. QED
      BY <2>1, FS_Subset, FS_CardinalityType
  <1>2. ASSUME NEW k \in 1 .. Cardinality(S)
        PROVE  (CHOOSE i \in S : Answer!Cardinality({j \in S : j <= i}) = k) \in S
    <2>1. PICK i \in S : Cardinality({j \in S : j <= i}) = k
      BY KthNumber
    <2>2. Answer!Cardinality({j \in S : j <= i}) = k
      BY <2>1, AnswerCount
    <2>3. QED
      BY <2>2
  <1>3. Answer!Cardinality(S) = Cardinality(S)
    BY AnswerCount
  <1>4. Answer!Words(S) \in [1 .. Cardinality(S) -> W]
    BY <1>2, <1>3 DEF Answer!Words
  <1>5. QED
    BY <1>1, <1>4

\* What the models of the runs may send is marked.
LEMMA RepliesAreMarked == \A r \in Replies : reply' = r => Marked'
  <1>1. ASSUME NEW r, r = <<>>, reply' = r PROVE Marked'
    BY <1>1 DEF Marked
  <1>2. ASSUME NEW r, r = <<"say", "say">>, reply' = r PROVE Marked'
    BY <1>2 DEF Marked, Items
  <1>3. ASSUME NEW r, r = <<"open", "muse", "close", "say">>, reply' = r PROVE Marked'
    BY <1>3 DEF Marked, Items, TagOpen
  <1>4. ASSUME NEW r, r = <<"say", "open", "muse", "muse", "close", "say", "say">>, reply' = r PROVE Marked'
    BY <1>4 DEF Marked, Items, TagOpen
  <1>5. ASSUME NEW r, r = <<"open", "muse">>, reply' = r PROVE Marked'
    BY <1>5 DEF Marked, Items, TagOpen
  <1>6. ASSUME NEW r, r = <<"open", "close", "say", "open", "muse", "close">>, reply' = r PROVE Marked'
    BY <1>6 DEF Marked, Items, TagOpen
  <1>7. QED
    BY <1>1, <1>2, <1>3, <1>4, <1>5, <1>6 DEF Replies

\* A mark that was not closed before a line is seen by each item of the line.
LEMMA InsideIsSeen ==
  ASSUME Marked, sent \in Nat, NEW n \in Nat, sent + n <= Len(reply), TagOpen(sent) => inside,
         NEW i \in 1 .. n + 1, TagOpen(sent + i - 1)
  PROVE  Answer!InsideAt(Answer!Line(n), i)
  <1> PICK line : line = Answer!Line(n)
    OBVIOUS
  <1>1. Len(reply) \in Nat /\ reply \in Seq(Items)
    BY LenProperties DEF Marked
  <1>2. \A k \in 1 .. n : line[k] = reply[sent + k]
    BY <1>1, SubSeqProperties DEF Answer!Line
  <1>3. PICK o \in 1 .. sent + i - 1 : reply[o] = "open" /\ \A k \in o .. sent + i - 1 : reply[k] # "close"
    BY DEF TagOpen
  <1> PICK tags : tags = {j \in 1 .. i - 1 : line[j] \in {"open", "close"}}
    OBVIOUS
  <1>7. /\ i \in Nat /\ 1 <= i /\ i <= n + 1 /\ sent + n <= Len(reply) /\ sent \in Nat /\ n \in Nat
        /\ o \in Nat /\ 1 <= o /\ o <= sent + i - 1
    OBVIOUS
  <1>8. \A j \in tags : j \in Nat /\ 1 <= j /\ j <= i - 1 /\ line[j] = reply[sent + j] /\ j \in 1 .. n
                      /\ (line[j] = "open" \/ line[j] = "close")
    BY <1>2, <1>7
  <1>9. \A j \in 1 .. i - 1 : line[j] = "open" => j \in tags
    OBVIOUS
  <1>4. CASE tags = {}
    <2>1. o <= sent
      <3>1. ASSUME o > sent PROVE FALSE
        <4>1. o - sent \in 1 .. i - 1 /\ o - sent \in 1 .. n
          BY <1>7, <3>1
        <4>2. line[o - sent] = "open"
          BY <1>2, <1>3, <1>7, <4>1
        <4>3. QED
          BY <1>4, <1>9, <4>1, <4>2
      <3>2. QED
        BY <1>7, <3>1
    <2>2. \A k \in o .. sent : k \in o .. sent + i - 1
      BY <1>7
    <2>3. TagOpen(sent)
      BY <1>3, <1>7, <2>1, <2>2 DEF TagOpen
    <2>4. QED
      BY <1>4, <2>3 DEF Answer!InsideAt
  <1>5. CASE tags # {}
    <2>1. tags \in SUBSET (0 .. n)
      BY <1>8
    <2>2. PICK m \in tags : \A k \in tags : k <= m
      BY <1>5, <2>1, GreatestNumber
    <2>3. line[m] = "open"
      <3>1. CASE o <= sent + m
        <4>1. sent + m \in o .. sent + i - 1
          BY <1>7, <1>8, <3>1
        <4>2. reply[sent + m] # "close"
          BY <1>3, <4>1
        <4>3. QED
          BY <1>8, <4>2
      <3>2. CASE o > sent + m
        <4>1. o - sent \in 1 .. i - 1 /\ o - sent \in 1 .. n /\ sent + (o - sent) = o /\ o - sent > m
          BY <1>7, <1>8, <3>2
        <4>2. line[o - sent] = "open"
          BY <1>2, <1>3, <4>1
        <4>3. o - sent \in tags
          BY <1>9, <4>1, <4>2
        <4>4. QED
          BY <1>8, <2>2, <4>1, <4>3
      <3>3. QED
        BY <1>7, <1>8, <3>1, <3>2
    <2>4. QED
      BY <1>5, <2>2, <2>3 DEF Answer!InsideAt
  <1>6. QED
    BY <1>4, <1>5

\* What passes of a line is words, and of a model that reasons none of its reasoning.
LEMMA PassedIsHeard ==
  ASSUME Marked, sent \in Nat, NEW n \in Nat, sent + n <= Len(reply), TagOpen(sent) => inside, thinker \in BOOLEAN
  PROVE  /\ Answer!Passed(Answer!Line(n)) \in Seq(Heard)
         /\ TagOpen(sent + n) => Answer!Flag(Answer!Line(n))
  <1> PICK line : line = Answer!Line(n)
    OBVIOUS
  <1>1. Len(reply) \in Nat /\ reply \in Seq(Items)
    BY LenProperties DEF Marked
  <1>2. Len(line) = n /\ \A k \in 1 .. n : line[k] = reply[sent + k]
    BY <1>1, SubSeqProperties DEF Answer!Line
  <1>3. \A k \in 1 .. n : sent + k \in 1 .. Len(reply) /\ k \in 1 .. n + 1 /\ sent + k - 1 \in Nat
    BY <1>1
  <1> PICK good : good = {k \in 1 .. Len(line) :
           ~thinker \/ (line[k] \in {"say", "muse"} /\ ~Answer!InsideAt(line, k))}
    OBVIOUS
  <1> PICK S : S = {sent + i : i \in good}
    OBVIOUS
  <1>4. \A k \in good : k \in 1 .. n /\ (thinker => line[k] \in {"say", "muse"} /\ ~Answer!InsideAt(line, k))
    BY <1>2
  <1>5. ASSUME NEW k \in good PROVE sent + k \in 1 .. Len(reply) /\ Answer!Word(sent + k) \in Heard
    <2>1. sent + k \in Nat /\ reply[sent + k] \in Items /\ sent + k \in 1 .. Len(reply)
      BY <1>1, <1>3, <1>4, ElementOfSeq
    <2>2. Answer!Word(sent + k) \in Pieces
      BY <2>1 DEF Answer!Word, Pieces
    <2>3. thinker => reply[sent + k] # "muse"
      <3>1. SUFFICES ASSUME thinker, reply[sent + k] = "muse" PROVE FALSE
        OBVIOUS
      <3>2. TagOpen(sent + k)
        BY <2>1, <3>1 DEF Marked
      <3>3. TagOpen(sent + k - 1)
        <4>1. PICK j \in 1 .. sent + k : reply[j] = "open" /\ \A m \in j .. sent + k : reply[m] # "close"
          BY <3>2 DEF TagOpen
        <4>2. j # sent + k
          BY <3>1, <4>1
        <4>3. j \in 1 .. sent + k - 1 /\ \A m \in j .. sent + k - 1 : m \in j .. sent + k
          BY <2>1, <4>2
        <4>4. QED
          BY <4>1, <4>3 DEF TagOpen
      <3>4. Answer!InsideAt(line, k)
        BY <1>3, <1>4, <3>3, InsideIsSeen
      <3>5. QED
        BY <1>4, <3>1, <3>4
    <2>4. QED
      BY <2>1, <2>2, <2>3 DEF Heard, Quiet, Answer!Word
  <1>6. S \in SUBSET (1 .. Len(reply)) /\ \A i \in S : Answer!Word(i) \in Heard
    BY <1>5
  <1>7. Answer!Words(S) \in Seq(Heard)
    BY <1>1, <1>6, WordsAre
  <1>8. Answer!Passed(Answer!Line(n)) \in Seq(Heard)
    BY <1>7 DEF Answer!Passed
  <1>9. ASSUME TagOpen(sent + n) PROVE Answer!Flag(Answer!Line(n))
    <2>1. n + 1 \in 1 .. n + 1 /\ sent + (n + 1) - 1 = sent + n
      OBVIOUS
    <2>2. Answer!InsideAt(Answer!Line(n), n + 1)
      BY <1>9, <2>1, InsideIsSeen
    <2>3. QED
      BY <1>2, <2>2 DEF Answer!Flag
  <1>10. QED
    BY <1>8, <1>9

\* A whole reply is words, too, and its reasoning is left out.
LEMMA WholeIsHeard ==
  ASSUME Marked, thinker \in BOOLEAN
  PROVE  Answer!Whole \in Seq(Heard)
  <1>1. Len(reply) \in Nat /\ reply \in Seq(Items)
    BY LenProperties DEF Marked
  <1> PICK S : S = IF thinker THEN Answer!Stripped ELSE 1 .. Len(reply)
    OBVIOUS
  <1>2. S \in SUBSET (1 .. Len(reply))
    BY DEF Answer!Stripped
  <1>3. ASSUME NEW i \in S PROVE Answer!Word(i) \in Heard
    <2>1. i \in Nat /\ reply[i] \in Items /\ i \in 1 .. Len(reply)
      BY <1>1, <1>2, ElementOfSeq
    <2>2. Answer!Word(i) \in Pieces
      BY <2>1 DEF Answer!Word, Pieces
    <2>3. thinker /\ reply[i] = "muse" => TagOpen(i)
      BY <2>1 DEF Marked
    <2>4. thinker => ~TagOpen(i)
      BY <1>3 DEF Answer!Stripped, TagOpen
    <2>5. QED
      BY <2>2, <2>3, <2>4 DEF Heard, Quiet, Answer!Word
  <1>4. QED
    BY <1>1, <1>2, <1>3, WordsAre DEF Answer!Whole

Entries     == [kind : AnswerKinds, parts : Seq(Heard)]

\* The call's record; what is delivered is marked, and words that are heard are not reasoning.
CallInv ==
  /\ thinker \in BOOLEAN /\ at \in {"idle", "stream", "ask", "done", "hit"}
  /\ Marked /\ sent \in 0 .. Len(reply) /\ tried \in 0 .. Models
  /\ inside \in BOOLEAN /\ cancel \in BOOLEAN
  /\ cause \in {"none", "end", "cancel", "late", "rejected", "unconnected", "silent", "broken"}
  /\ at = "stream" => (TagOpen(sent) => inside)
  /\ acc \in Seq(Heard) /\ held \in Seq(Heard) /\ said \in Seq(Heard)
  /\ returned \in Entries /\ cache \in Entries

\* What came is what was said and what waits in the buffer; the second way begins in silence.
WordsInv ==
  /\ at = "stream" => acc = said \o held /\ tried = 0 /\ (sent = 0 => acc = <<>>)
  /\ at = "ask" => said = <<>> /\ cause \in {"silent", "unconnected"}

AnswerInv == CallInv /\ WordsInv /\ Answer!SpokenIsReturned

\* Nothing was asked yet.
LEMMA AnswerBegins == Answer!Init /\ thinker \in BOOLEAN => AnswerInv
  <1>1. ASSUME Answer!Init, thinker \in BOOLEAN PROVE AnswerInv
    <2>1. Marked
      BY <1>1 DEF Answer!Init, Marked
    <2>2. <<>> \in Seq(Heard) /\ Answer!NoEntry \in Entries
      BY DEF Answer!NoEntry, Entries, AnswerKinds
    <2>6. 0 \in 0 .. Models /\ 0 \in 0 .. Len(<<>>) /\ ~TagOpen(0)
      BY LimitAssumption DEF TagOpen
    <2>3. CallInv
      BY <1>1, <2>1, <2>2, <2>6 DEF Answer!Init, CallInv
    <2>4. WordsInv /\ Answer!SpokenIsReturned
      BY <1>1 DEF Answer!Init, WordsInv, Answer!SpokenIsReturned
    <2>5. QED
      BY <2>3, <2>4 DEF AnswerInv
  <1>2. QED
    BY <1>1

\* A text and an error are entries.
LEMMA EntriesAre ==
  /\ \A s \in Seq(Heard) : LET t == Answer!Text(s) IN t \in Entries /\ t.kind = "text" /\ t.parts = s
  /\ \A k \in {"could_not", "timed_out", "no_connection", "internal"} :
       LET e == Answer!Error(k) IN e \in Entries /\ e.kind = k
  /\ Answer!NoEntry \in Entries /\ <<>> \in Seq(Heard)
  <1>1. <<>> \in Seq(Heard)
    OBVIOUS
  <1>2. QED
    BY <1>1 DEF Answer!Text, Answer!Error, Answer!NoEntry, Entries, AnswerKinds

\* A question asks: its answer is cached, or the stream begins.
LEMMA AskStep ==
  ASSUME AnswerInv, NEW s \in BOOLEAN, NEW r \in Replies, Answer!Ask(s, r)
  PROVE  AnswerInv'
  <1> USE DEF AnswerInv
  <1>1. /\ reply' = r /\ sent' = 0 /\ inside' = FALSE /\ acc' = <<>> /\ held' = <<>> /\ tried' = 0 /\ cause' = "none"
        /\ UNCHANGED <<thinker, cancel>>
        /\ \/ returned' = cache /\ said' = cache.parts /\ at' = "hit" /\ cache' = cache
           \/ cache' \in {cache, Answer!NoEntry} /\ returned' = Answer!NoEntry /\ said' = <<>> /\ at' = "stream"
    BY DEF Answer!Ask
  <1>2. Marked'
    BY <1>1, RepliesAreMarked
  <1>3. 0 \in 0 .. Len(reply')
    <2>1. Len(reply') \in Nat
      BY <1>2, LenProperties DEF Marked
    <2>2. QED
      BY <2>1
  <1>4. cache.parts \in Seq(Heard)
    BY DEF CallInv, Entries
  <1>5. Heard' = Heard /\ Entries' = Entries
    BY <1>1 DEF Heard, Entries
  <1>6. 0 \in 0 .. Models /\ ~TagOpen(0)'
    BY LimitAssumption DEF TagOpen
  <1>7. CallInv'
    BY <1>1, <1>2, <1>3, <1>4, <1>5, <1>6, EntriesAre DEF CallInv
  <1>8. WordsInv'
    BY <1>1 DEF WordsInv
  <1>9. Answer!SpokenIsReturned'
    BY <1>1 DEF Answer!SpokenIsReturned
  <1>10. QED
    BY <1>7, <1>8, <1>9

\* A line arrives: its words are said or wait, none is lost or said twice.
LEMMA ReceiveStep ==
  ASSUME AnswerInv, NEW n \in 1 .. MaxLine, Answer!Receive(n)
  PROVE  AnswerInv'
  <1> USE DEF AnswerInv
  <1> PICK got : got = Answer!Passed(Answer!Line(n))
    OBVIOUS
  <1> PICK all : all = held \o got
    OBVIOUS
  <1>1. /\ at = "stream" /\ sent + n <= Len(reply) /\ acc' = acc \o got
        /\ sent' = sent + n /\ inside' = Answer!Flag(Answer!Line(n))
        /\ UNCHANGED <<thinker, short, reply, cache, asked, at, tried, failures, returned, cause, cancel>>
    BY DEF Answer!Receive, Answer!Streaming, Answer!callVars
  <1>2. PICK c \in 0 .. Len(all) : said' = said \o SubSeq(all, 1, c) /\ held' = SubSeq(all, c + 1, Len(all))
    BY DEF Answer!Receive
  <1>3. n \in Nat /\ n >= 1 /\ sent \in Nat /\ Len(reply) \in Nat
    <2>1. n \in Nat /\ n >= 1
      BY LimitAssumption
    <2>2. Len(reply) \in Nat
      BY LenProperties DEF CallInv, Marked
    <2>3. QED
      BY <2>1, <2>2 DEF CallInv
  <1>4. got \in Seq(Heard) /\ (TagOpen(sent + n) => inside')
    BY <1>1, <1>3, PassedIsHeard DEF CallInv
  <1>5. all \in Seq(Heard) /\ acc' \in Seq(Heard)
    BY <1>1, <1>4, ConcatProperties DEF CallInv
  <1>6. Len(all) \in Nat /\ c \in Nat /\ c <= Len(all)
    BY <1>5, LenProperties
  <1>7. \A i \in 1 .. Len(all) : all[i] \in Heard
    BY <1>5, ElementOfSeq
  <1>8. SubSeq(all, 1, c) \in Seq(Heard) /\ SubSeq(all, c + 1, Len(all)) \in Seq(Heard)
    <2>1. \A i \in 1 .. c : all[i] \in Heard
      BY <1>6, <1>7
    <2>2. \A i \in c + 1 .. Len(all) : all[i] \in Heard
      BY <1>6, <1>7
    <2>3. QED
      BY <1>6, <2>1, <2>2, SubSeqProperties
  <1>9. said' \in Seq(Heard) /\ held' \in Seq(Heard)
    BY <1>2, <1>8, ConcatProperties DEF CallInv
  <1>10. acc' = said' \o held'
    <2>1. SubSeq(all, 1, c) \o SubSeq(all, c + 1, Len(all)) = all
      <3>1. 1 \in 1 .. Len(all) + 1 /\ c \in 1 - 1 .. Len(all) /\ Len(all) \in c .. Len(all)
        BY <1>6
      <3>2. SubSeq(all, 1, c) \o SubSeq(all, c + 1, Len(all)) = SubSeq(all, 1, Len(all))
        BY <1>5, <3>1, ConcatAdjacentSubSeq
      <3>3. QED
        BY <1>5, <3>2, SubSeqFull
    <2>5. said \in Seq(Heard) /\ held \in Seq(Heard)
      BY DEF CallInv
    <2>6. \A u, v \in Seq(Heard) : (said \o u) \o v = said \o (u \o v)
      BY <2>5, ConcatAssociative
    <2>2. said' \o held' = said \o all
      <3> PICK u, v \in Seq(Heard) : u = SubSeq(all, 1, c) /\ v = SubSeq(all, c + 1, Len(all))
        BY <1>8
      <3>1. (said \o u) \o v = said \o (u \o v) /\ u \o v = all
        BY <2>1, <2>6
      <3>2. said' = said \o u /\ held' = v
        BY <1>2
      <3>3. QED
        BY <3>1, <3>2
    <2>3. acc' = said \o all
      <3>1. acc = said \o held
        BY <1>1 DEF WordsInv
      <3>2. QED
        BY <1>1, <1>4, <2>5, <2>6, <3>1
    <2>4. QED
      BY <2>2, <2>3
  <1>11. Heard' = Heard /\ Entries' = Entries /\ (Marked' <=> Marked) /\ (TagOpen(sent)' <=> TagOpen(sent + n))
    BY <1>1 DEF Heard, Entries, Marked, TagOpen
  <1>12. sent' \in 0 .. Len(reply) /\ sent' # 0
    BY <1>1, <1>3
  <1>13. inside' \in BOOLEAN
    BY <1>1 DEF CallInv, Answer!Flag, Answer!InsideAt
  <1>14. CallInv'
    BY <1>1, <1>4, <1>5, <1>9, <1>11, <1>12, <1>13 DEF CallInv
  <1>15. WordsInv' /\ Answer!SpokenIsReturned'
    BY <1>1, <1>10, <1>12 DEF WordsInv, Answer!SpokenIsReturned
  <1>16. QED
    BY <1>14, <1>15

\* The loop ends, the events come and go, and a failed request is followed by the next one.
LEMMA QuietSteps ==
  ASSUME AnswerInv, \/ Answer!LoopEnds \/ Answer!NoConnection \/ Answer!AskFails \/ Answer!Store
                    \/ Answer!Cancel \/ Answer!Clear \/ UNCHANGED laVars
  PROVE  AnswerInv'
  <1> USE DEF AnswerInv
  <1>1. /\ UNCHANGED <<thinker, reply, sent, inside, acc, held, said, returned>>
        /\ cache' \in {cache, returned}
    BY DEF Answer!LoopEnds, Answer!NoConnection, Answer!AskFails, Answer!Store, Answer!Cancel, Answer!Clear,
           Answer!callVars, laVars
  <1>2. Heard' = Heard /\ Entries' = Entries /\ (Marked' <=> Marked) /\ (TagOpen(sent)' <=> TagOpen(sent))
    BY <1>1 DEF Heard, Entries, Marked, TagOpen
  <1>3. /\ at' \in {"idle", "stream", "ask", "done", "hit"} /\ cancel' \in BOOLEAN
        /\ cause' \in {"none", "end", "cancel", "late", "rejected", "unconnected", "silent", "broken"}
        /\ at' = "stream" => at = "stream" /\ tried' = tried
        /\ at' = "done" => at = "done" /\ tried' = tried /\ cause' = cause
        /\ at' = "ask" => \/ at = "ask" /\ cause' = cause
                          \/ at = "stream" /\ sent = 0 /\ cause' = "unconnected"
    BY DEF CallInv, Answer!LoopEnds, Answer!NoConnection, Answer!AskFails, Answer!Store, Answer!Cancel, Answer!Clear,
           Answer!callVars, Answer!Streaming, laVars
  <1>4. tried' \in 0 .. Models
    BY LimitAssumption DEF CallInv, Answer!LoopEnds, Answer!NoConnection, Answer!AskFails, Answer!Store, Answer!Cancel,
           Answer!Clear, Answer!callVars, Answer!Streaming, laVars
  <1>5. CallInv'
    BY <1>1, <1>2, <1>3, <1>4 DEF CallInv
  <1>6. WordsInv'
    <2>1. at = "stream" /\ sent = 0 => said = <<>>
      BY ConcatEqualIffEmpty DEF CallInv, WordsInv
    <2>2. QED
      BY <1>1, <1>3, <2>1 DEF WordsInv
  <1>7. Answer!SpokenIsReturned'
    BY <1>1, <1>3 DEF Answer!SpokenIsReturned
  <1>8. QED
    BY <1>5, <1>6, <1>7

\* The stream comes to its end: what came is returned, and it was said.
LEMMA EndSteps ==
  ASSUME AnswerInv, Answer!Rest \/ Answer!Rejected \/ Answer!Silent \/ Answer!Broken
  PROVE  AnswerInv'
  <1> USE DEF AnswerInv
  <1>1. /\ UNCHANGED <<thinker, reply, cache, sent, inside, acc, tried, cancel>> /\ at = "stream"
        /\ at' \in {"done", "ask"}
        /\ cause' \in {"none", "end", "cancel", "late", "rejected", "unconnected", "silent", "broken"}
    BY DEF Answer!Rest, Answer!Rejected, Answer!Silent, Answer!Broken, Answer!callVars, Answer!Streaming
  <1>2. Heard' = Heard /\ Entries' = Entries /\ (Marked' <=> Marked)
    BY <1>1 DEF Heard, Entries, Marked, TagOpen
  <1>3. acc = said \o held /\ acc \in Seq(Heard) /\ said \in Seq(Heard) /\ held \in Seq(Heard)
    BY <1>1 DEF CallInv, WordsInv
  <1>4. acc = <<>> => said = <<>>
    <2>1. said \o held = <<>> => said = <<>>
      <3>1. said \in Seq(Heard) /\ held \in Seq(Heard)
        BY <1>3
      <3>2. QED
        BY <3>1, ConcatEqualIffEmpty
    <2>2. QED
      BY <1>3, <2>1
  <1>5. Answer!IsPrefix(said, acc) /\ Answer!IsPrefix(acc, acc)
    <2>1. Len(said) \in Nat /\ Len(held) \in Nat /\ Len(acc) = Len(said) + Len(held)
      BY <1>3, ConcatProperties, LenProperties
    <2>2. SubSeq(acc, 1, Len(said)) = SubSeq(said, 1, Len(said))
      <3>1. CASE Len(said) = 0
        BY <3>1, SubSeqEmpty
      <3>2. CASE Len(said) # 0
        <4>1. 1 \in 1 .. Len(said) /\ Len(said) \in 1 .. Len(said)
          BY <2>1, <3>2
        <4>2. QED
          BY <1>3, <4>1, SubSeqOfConcat1
      <3>3. QED
        BY <3>1, <3>2
    <2>3. Len(said) <= Len(acc) /\ Len(acc) <= Len(acc)
      BY <2>1
    <2>4. QED
      BY <2>2, <2>3 DEF Answer!IsPrefix
  <1>6. CASE Answer!Rest
    <2>1. /\ said' = acc /\ held' = <<>> /\ at' = "done" /\ cause' = cause
          /\ \/ returned' = Answer!Text(acc) /\ acc # <<>>
             \/ returned' \in {Answer!Error("timed_out"), Answer!Error("could_not")} /\ acc = <<>>
      BY <1>3, <1>6 DEF Answer!Rest
    <2>2. /\ returned' \in Entries
          /\ \/ returned'.kind = "text" /\ returned'.parts = acc
             \/ returned'.kind # "text" /\ acc = <<>>
      BY <1>3, <2>1, EntriesAre
    <2>3. CallInv'
      BY <1>1, <1>2, <1>3, <2>1, <2>2, EntriesAre DEF CallInv
    <2>4. WordsInv' /\ Answer!SpokenIsReturned'
      BY <1>5, <2>1, <2>2 DEF WordsInv, Answer!SpokenIsReturned
    <2>5. QED
      BY <2>3, <2>4
  <1>7. CASE Answer!Rejected \/ Answer!Broken
    <2>1. /\ UNCHANGED <<held, said>> /\ at' = "done"
          /\ \/ sent = 0 /\ cause' = "rejected" /\ returned' = Answer!Error("could_not")
             \/ cause' = "broken" /\ returned' = Answer!Error("internal")
      BY <1>7 DEF Answer!Rejected, Answer!Broken
    <2>2. returned' \in Entries /\ returned'.kind # "text"
      BY <2>1, EntriesAre
    <2>3. cause' = "rejected" => said = <<>>
      BY <1>1, <1>4, <2>1 DEF WordsInv
    <2>4. CallInv'
      BY <1>1, <1>2, <2>1, <2>2 DEF CallInv
    <2>5. WordsInv' /\ Answer!SpokenIsReturned'
      BY <2>1, <2>2, <2>3 DEF WordsInv, Answer!SpokenIsReturned
    <2>6. QED
      BY <2>4, <2>5
  <1>8. CASE Answer!Silent
    <2>1. /\ UNCHANGED <<held, said>> /\ cause' = "silent"
          /\ \/ acc # <<>> /\ at' = "done" /\ returned' = Answer!Text(acc)
             \/ acc = <<>> /\ at' = "ask" /\ returned' = returned
      BY <1>8 DEF Answer!Silent
    <2>2. /\ returned' \in Entries
          /\ at' = "done" => returned'.kind = "text" /\ returned'.parts = acc
      BY <1>3, <2>1, EntriesAre DEF CallInv
    <2>3. CallInv'
      BY <1>1, <1>2, <2>1, <2>2 DEF CallInv
    <2>4. WordsInv' /\ Answer!SpokenIsReturned'
      BY <1>4, <1>5, <2>1, <2>2 DEF WordsInv, Answer!SpokenIsReturned
    <2>5. QED
      BY <2>3, <2>4
  <1>9. QED
    BY <1>6, <1>7, <1>8

\* What is said of an entry is words.
LEMMA SaidIsHeard ==
  ASSUME thinker \in BOOLEAN, NEW e \in Entries
  PROVE  Answer!Said(e) \in Seq(Heard)
  <1>1. CASE e.kind = "text"
    BY <1>1 DEF Answer!Said, Entries
  <1>2. CASE e.kind # "text"
    <2>1. e.kind \in AnswerKinds /\ e.kind # "muse"
      BY DEF Entries, AnswerKinds
    <2>2. <<0, e.kind>> \in Heard
      BY <2>1 DEF Heard, Quiet, Pieces
    <2>3. QED
      BY <1>2, <2>2 DEF Answer!Said
  <1>3. QED
    BY <1>1, <1>2

\* The second way answers or gives up.
LEMMA SecondWaySteps ==
  ASSUME AnswerInv, Answer!AskAnswers \/ Answer!AskGivesUp
  PROVE  AnswerInv'
  <1> USE DEF AnswerInv
  <1>1. UNCHANGED <<thinker, reply, cache, sent, inside, acc, held, cause, cancel>> /\ at = "ask" /\ at' = "done"
    BY DEF Answer!AskAnswers, Answer!AskGivesUp, Answer!Fallback, Answer!callVars
  <1>2. Heard' = Heard /\ Entries' = Entries /\ (Marked' <=> Marked)
    BY <1>1 DEF Heard, Entries, Marked, TagOpen
  <1>3. Answer!Whole \in Seq(Heard)
    BY WholeIsHeard DEF CallInv
  <1>4. PICK e \in Entries : Answer!Fallback(e) /\ (tried' = 0 => e.kind # "text") /\ tried' \in 0 .. Models
    <2>1. CASE Answer!AskAnswers
      <3>1. tried' \in 0 .. Models /\ tried' # 0
        BY <2>1, LimitAssumption DEF Answer!AskAnswers, CallInv
      <3>2. Answer!Text(Answer!Whole) \in Entries
        BY <1>3, EntriesAre
      <3>3. Answer!Error(Answer!Same) \in Entries
        BY EntriesAre DEF Answer!Same
      <3>4. Answer!Fallback(Answer!Text(Answer!Whole)) \/ Answer!Fallback(Answer!Error(Answer!Same))
        BY <2>1 DEF Answer!AskAnswers
      <3>5. QED
        BY <3>1, <3>2, <3>3, <3>4
    <2>2. CASE Answer!AskGivesUp
      <3>1. tried' \in 0 .. Models
        BY <2>2 DEF Answer!AskGivesUp, CallInv
      <3>2. PICK k \in {"could_not", "timed_out", "no_connection", "internal"} : Answer!Fallback(Answer!Error(k))
        BY <2>2 DEF Answer!AskGivesUp
      <3>3. Answer!Error(k) \in Entries /\ Answer!Error(k).kind # "text"
        BY EntriesAre
      <3>4. QED
        BY <3>1, <3>2, <3>3
    <2>3. QED
      BY <2>1, <2>2
  <1>5. returned' = e /\ said' \in {said, said \o Answer!Said(e)}
    BY <1>4 DEF Answer!Fallback
  <1>6. said' \in Seq(Heard)
    <2>1. Answer!Said(e) \in Seq(Heard) /\ said \in Seq(Heard)
      BY SaidIsHeard DEF CallInv
    <2>2. QED
      BY <1>5, <2>1, ConcatProperties
  <1>7. CallInv'
    BY <1>1, <1>2, <1>4, <1>5, <1>6 DEF CallInv
  <1>8. WordsInv' /\ Answer!SpokenIsReturned'
    BY <1>1, <1>4, <1>5 DEF WordsInv, Answer!SpokenIsReturned
  <1>9. QED
    BY <1>7, <1>8

\* Every step of the call keeps its invariant.
LEMMA AnswerSteps ==
  ASSUME AnswerInv, [Answer!Next]_laVars
  PROVE  AnswerInv'
  BY AskStep, ReceiveStep, QuietSteps, EndSteps, SecondWaySteps DEF Answer!Next, Answer!CallStep

\* What the invariant promises of the answer.
LEMMA AnswerPromise ==
  AnswerInv => /\ Answer!TypeOK /\ Answer!ReasoningIsSilent /\ Answer!SpokenIsReturned /\ Answer!AskedInSilence
  <1> SUFFICES ASSUME AnswerInv
               PROVE  Answer!TypeOK /\ Answer!ReasoningIsSilent /\ Answer!SpokenIsReturned /\ Answer!AskedInSilence
    OBVIOUS
  <1> USE DEF AnswerInv
  <1>1. Answer!TypeOK
    BY DEF CallInv, Entries, AnswerKinds, Answer!TypeOK, Answer!Errors
  <1>2. Answer!AskedInSilence
    BY DEF WordsInv, Answer!AskedInSilence
  <1>3. ASSUME thinker, NEW s \in Seq(Heard), NEW k \in DOMAIN s PROVE s[k][2] # "muse"
    <2>1. s[k] \in Heard
      BY ElementOfSeq, LenProperties
    <2>2. QED
      BY <1>3, <2>1 DEF Heard, Quiet
  <1>4. Answer!ReasoningIsSilent
    <2>1. cache.parts \in Seq(Heard)
      BY DEF CallInv, Entries
    <2>2. QED
      BY <1>3, <2>1 DEF CallInv, Answer!ReasoningIsSilent
  <1>5. QED
    BY <1>1, <1>2, <1>4

-----------------------------------------------------------------------------
(* What is recorded.                                                       *)

Chunks == [n : Nat, voiced : BOOLEAN]

\* Between a chunk and the one before it only dropped ones are missing.
Gap(s, k, D) == s[k - 1].n < s[k].n /\ (s[k - 1].n + 1) .. (s[k].n - 1) \subseteq D

\* The queue and what the callback holds are what came after the chunk T, in order and without
\* what was dropped.
Pending(q, m, h, T, D) ==
  /\ \A i, j \in 1 .. Len(q) : i < j => q[i].n < q[j].n
  /\ \A i \in 1 .. Len(q) : T < q[i].n /\ q[i].n <= h
  /\ m # <<>> => m[1].n = h /\ T < h /\ \A i \in 1 .. Len(q) : q[i].n < h
  /\ \A x \in (T + 1) .. h : x \in D \/ (\E i \in 1 .. Len(q) : q[i].n = x) \/ (m # <<>> /\ m[1].n = x)

\* The number of the last chunk the loop has taken.
LastN(s) == IF s = <<>> THEN 0 ELSE s[Len(s)].n
Taken    == IF captured = <<>> THEN LastN(pre) ELSE LastN(captured)

DeviceInv ==
  /\ heard \in 0 .. MaxHeard
  /\ mic \in Seq(Chunks) /\ Len(mic) <= 1 /\ queue \in Seq(Chunks) /\ Len(queue) <= QueueSize
  /\ Taken \in Nat /\ Taken <= heard /\ Pending(queue, mic, heard, Taken, dropped)

\* The pre-roll is quiet, has no hole, and goes back to the first chunk unless it is full.
Roll(s, D) ==
  /\ s \in Seq(Chunks) /\ Len(s) <= PreRoll
  /\ \A k \in 1 .. Len(s) : ~s[k].voiced
  /\ \A k \in 2 .. Len(s) : Gap(s, k, D)
  /\ s # <<>> /\ Len(s) < PreRoll => 1 .. s[1].n - 1 \subseteq D

\* The speech begins at f, which comes twice.
FirstOf(s, f) == f \in 1 .. Len(s) /\ s[f].voiced /\ \A i \in 1 .. f - 1 : ~s[i].voiced
Onset(s, f, D) ==
  /\ FirstOf(s, f) /\ f + 1 <= Len(s) /\ s[f + 1] = s[f]
  /\ \A k \in 2 .. Len(s) : Gap(s, k, D) \/ (k = f + 1 /\ s[k - 1].n = s[k].n)
  /\ f = PreRoll \/ 1 .. s[1].n - 1 \subseteq D

\* It was voiced twice in a row at m, and not since.
PairOf(s, f, k)   == k > f + 1 /\ s[k].voiced /\ s[k - 1].voiced
LastPair(s, f, m) ==
  /\ m \in 1 .. Len(s) /\ (m = f \/ PairOf(s, f, m))
  /\ f <= m /\ \A k \in 1 .. Len(s) : PairOf(s, f, k) => k <= m
QuietFrom(s, m)   == {k \in m + 1 .. Len(s) : ~s[k].voiced}

SpeechInv ==
  /\ captured \in Seq(Chunks) /\ pre \in Seq(Chunks)
  /\ captured = <<>> => Roll(pre, dropped) /\ onset = 0 /\ samples = 0 /\ silence = 0 /\ run = 0
  /\ captured # <<>> =>
       /\ pre = <<>>
       /\ \E f \in 1 .. Len(captured), m \in 1 .. Len(captured) :
            /\ Onset(captured, f, dropped)
            /\ LastPair(captured, f, m) /\ Cardinality(QuietFrom(captured, m)) = silence
       /\ run > 0 <=> captured[Len(captured)].voiced

StopReasons == {"", "max_duration", "start_timeout", "silence", "max_speech_cap", "max_chunks"}

TimeInv ==
  /\ index \in 0 .. MaxChunks /\ onset \in 0 .. index /\ samples \in Nat /\ silence \in 0 .. samples /\ run \in 0 .. samples
  /\ captured # <<>> => onset > 0 /\ samples > 0 /\ samples <= index - onset + 1
  /\ samples <= MaxSpeech /\ reason \in StopReasons
  /\ reason = "" => samples < MaxSpeech
  /\ captured # <<>> /\ reason = "" /\ samples >= MinSpeech => silence < Capture!SilenceTarget(samples)

\* The gate holds the last text that was not of another script alone.
GateInv ==
  /\ window \in [pc : {"none", "submitted", "listening", "over"}, last : Partials]
  /\ texts \in Seq(Partials) /\ emitted \subseteq Partials
  /\ gate \in [text : Partials, count : 0 .. 2]
  /\ gate.count > 0 => \E i \in 1 .. Len(texts) : /\ texts[i] = gate.text
                                                 /\ \A m \in i + 1 .. Len(texts) : texts[m] \notin Arabic
  /\ Capture!ArabicConfirmed

CaptureInv == DeviceInv /\ SpeechInv /\ TimeInv /\ GateInv

\* Nothing was recorded yet.
LEMMA CaptureBegins == Capture!Init => CaptureInv
  <1> SUFFICES ASSUME Capture!Init PROVE CaptureInv
    OBVIOUS
  <1>1. /\ mic = <<>> /\ queue = <<>> /\ pre = <<>> /\ captured = <<>> /\ texts = <<>>
        /\ heard = 0 /\ index = 0 /\ onset = 0 /\ samples = 0 /\ silence = 0 /\ run = 0
    BY DEF Capture!Init
  <1>2. DeviceInv
    <2>1. Taken = 0
      BY <1>1 DEF Taken, LastN
    <2>2. Len(queue) = 0 /\ Len(mic) = 0
      BY <1>1
    <2>3. Pending(queue, mic, heard, Taken, dropped)
      BY <1>1, <2>1, <2>2 DEF Pending
    <2>4. mic \in Seq(Chunks) /\ queue \in Seq(Chunks)
      BY <1>1
    <2>5. QED
      BY <1>1, <2>1, <2>2, <2>3, <2>4, LimitAssumption DEF DeviceInv
  <1>3. SpeechInv
    <2>1. Len(pre) = 0 /\ pre \in Seq(Chunks) /\ captured \in Seq(Chunks)
      BY <1>1
    <2>2. Roll(pre, dropped)
      BY <1>1, <2>1, LimitAssumption DEF Roll
    <2>3. QED
      BY <1>1, <2>1, <2>2 DEF SpeechInv
  <1>4. TimeInv
    <2>1. reason = ""
      BY DEF Capture!Init
    <2>2. /\ index \in 0 .. MaxChunks /\ onset \in 0 .. index /\ samples \in Nat /\ silence \in 0 .. samples
          /\ run \in 0 .. samples /\ samples <= MaxSpeech /\ samples < MaxSpeech
      BY <1>1, LimitAssumption
    <2>3. reason \in StopReasons
      BY <2>1 DEF StopReasons
    <2>4. QED
      BY <1>1, <2>2, <2>3 DEF TimeInv
  <1>5. GateInv
    <2>1. /\ window = [pc |-> "none", last |-> ""] /\ gate = [text |-> "", count |-> 0] /\ emitted = {}
      BY DEF Capture!Init
    <2>2. texts \in Seq(Partials)
      BY <1>1
    <2>3. gate \in [text : Partials, count : 0 .. 2] /\ ~(gate.count > 0)
      <3>4. gate.count = 0
        BY <2>1
      <3>1. gate.count = 0 /\ 0 \in 0 .. 2
        BY <3>4
      <3>2. gate \in [text : Partials, count : 0 .. 2]
        BY <2>1, <3>1, NameAssumption
      <3>3. QED
        BY <3>1, <3>2
    <2>4. window \in [pc : {"none", "submitted", "listening", "over"}, last : Partials]
      BY <2>1, NameAssumption
    <2>5. Capture!ArabicConfirmed
      BY <2>1 DEF Capture!ArabicConfirmed
    <2>6. QED
      BY <2>1, <2>2, <2>3, <2>4, <2>5 DEF GateInv
  <1>6. QED
    BY <1>2, <1>3, <1>4, <1>5 DEF CaptureInv

\* A window is transcribed: Arabic text is given on when it is heard again.
LEMMA WindowSteps ==
  ASSUME GateInv, Capture!Submit \/ Capture!Begin \/ Capture!Transcribe
  PROVE  GateInv'
  <1> USE DEF GateInv
  <1>1. CASE Capture!Submit \/ Capture!Begin
    <2>1. UNCHANGED <<gate, texts, emitted>>
      BY <1>1 DEF Capture!Submit, Capture!Begin
    <2>2. window' = [window EXCEPT !.pc = "submitted"] \/ window' = [window EXCEPT !.pc = "listening"]
          \/ window' = [window EXCEPT !.pc = "over"]
      BY <1>1 DEF Capture!Submit, Capture!Begin
    <2>3. window' \in [pc : {"none", "submitted", "listening", "over"}, last : Partials]
      BY <2>2
    <2>4. Capture!ArabicConfirmed'
      BY <2>1 DEF Capture!ArabicConfirmed
    <2>5. QED
      BY <2>1, <2>3, <2>4
  <1>2. CASE Capture!Transcribe
    <2>1. PICK t \in Partials :
            /\ texts' = Append(texts, t)
            /\ gate' = IF t \in Arabic \cup Mixed THEN [text |-> t, count |-> Capture!Least(Capture!Count(t), 2)] ELSE gate
            /\ emitted' = emitted \/ (emitted' = emitted \cup {t} /\ (t \notin Arabic \/ Capture!Count(t) >= 2))
            /\ window' = [pc |-> "none", last |-> t] \/ window' = [pc |-> "none", last |-> window.last]
      BY <1>2 DEF Capture!Transcribe
    <2> PICK n : n = Len(texts) + 1
      OBVIOUS
    <2>2. /\ texts' \in Seq(Partials) /\ Len(texts') = n /\ texts'[n] = t /\ n \in Nat /\ Len(texts) \in Nat
          /\ \A i \in 1 .. Len(texts) : texts'[i] = texts[i]
      BY <2>1, AppendProperties, LenProperties
    <2>3. \A i \in Int : i <= n /\ i > 0 => i = n \/ i \in 1 .. Len(texts)
      BY <2>2
    <2>4. gate' \in [text : Partials, count : 0 .. 2]
      BY <2>1 DEF Capture!Least, Capture!Count
    <2>5. gate'.count > 0 => \E i \in 1 .. Len(texts') : /\ texts'[i] = gate'.text
                                                        /\ \A m \in i + 1 .. Len(texts') : texts'[m] \notin Arabic
      <3>1. CASE t \in Arabic \cup Mixed
        <4>1. gate'.text = t
          BY <2>1, <3>1
        <4>2. n \in 1 .. Len(texts') /\ \A m \in n + 1 .. Len(texts') : FALSE
          BY <2>2
        <4>3. QED
          BY <2>2, <4>1, <4>2
      <3>2. CASE t \notin Arabic \cup Mixed
        <4>1. gate' = gate
          BY <2>1, <3>2
        <4>2. ASSUME gate.count > 0
              PROVE  \E i \in 1 .. Len(texts') : /\ texts'[i] = gate.text
                                                /\ \A m \in i + 1 .. Len(texts') : texts'[m] \notin Arabic
          <5>1. PICK i \in 1 .. Len(texts) : /\ texts[i] = gate.text
                                             /\ \A m \in i + 1 .. Len(texts) : texts[m] \notin Arabic
            BY <4>2
          <5>2. i \in 1 .. n
            BY <2>2
          <5>3. ASSUME NEW m \in i + 1 .. n PROVE texts'[m] \notin Arabic
            <6>1. m = n \/ m \in i + 1 .. Len(texts)
              BY <2>2
            <6>2. m \in i + 1 .. Len(texts) => m \in 1 .. Len(texts)
              BY <2>2
            <6>3. QED
              BY <2>2, <3>2, <5>1, <6>1, <6>2
          <5>4. QED
            BY <2>2, <5>1, <5>2, <5>3
        <4>3. QED
          BY <4>1, <4>2
      <3>3. QED
        BY <3>1, <3>2
    <2>6. Capture!ArabicConfirmed'
      <3>1. ASSUME NEW x \in emitted', x \in Arabic
            PROVE  \E k \in 2 .. Len(texts'), i \in 1 .. Len(texts') :
                     /\ i < k /\ texts'[i] = x /\ texts'[k] = x
                     /\ \A m \in i + 1 .. k - 1 : texts'[m] \notin Arabic
        <4>1. CASE x \in emitted
          <5>1. PICK k \in 2 .. Len(texts), i \in 1 .. Len(texts) :
                       /\ i < k /\ texts[i] = x /\ texts[k] = x
                       /\ \A m \in i + 1 .. k - 1 : texts[m] \notin Arabic
            BY <3>1, <4>1 DEF Capture!ArabicConfirmed
          <5>2. k \in 2 .. n /\ i \in 1 .. n /\ k \in 1 .. Len(texts)
            BY <2>2
          <5>3. \A m \in i + 1 .. k - 1 : m \in 1 .. Len(texts)
            BY <2>2
          <5>4. QED
            BY <2>2, <5>1, <5>2, <5>3
        <4>2. CASE x \notin emitted
          <5>1. x = t /\ Capture!Count(t) >= 2
            BY <2>1, <3>1, <4>2
          <5>2. gate.text = t /\ gate.count > 0
            BY <5>1 DEF Capture!Count
          <5>3. PICK i \in 1 .. Len(texts) : /\ texts[i] = t
                                             /\ \A m \in i + 1 .. Len(texts) : texts[m] \notin Arabic
            BY <5>2
          <5>4. n \in 2 .. n /\ i \in 1 .. n /\ i < n /\ n - 1 = Len(texts)
            BY <2>2
          <5>5. \A m \in i + 1 .. Len(texts) : m \in 1 .. Len(texts)
            BY <2>2
          <5>6. QED
            BY <2>2, <5>1, <5>3, <5>4, <5>5
        <4>3. QED
          BY <4>1, <4>2
      <3>2. QED
        BY <3>1 DEF Capture!ArabicConfirmed
    <2>7. window' \in [pc : {"none", "submitted", "listening", "over"}, last : Partials]
      BY <2>1
    <2>8. emitted' \subseteq Partials
      BY <2>1
    <2>9. QED
      BY <2>2, <2>4, <2>5, <2>6, <2>7, <2>8
  <1>3. QED
    BY <1>1, <1>2

\* The chunks of a sequence.
LEMMA ChunksAre ==
  \A s \in Seq(Chunks) : /\ Len(s) \in Nat /\ (s # <<>> <=> Len(s) > 0)
                         /\ \A i \in 1 .. Len(s) : s[i] \in Chunks /\ s[i].n \in Nat /\ s[i].voiced \in BOOLEAN
  <1>1. ASSUME NEW s \in Seq(Chunks)
        PROVE  /\ Len(s) \in Nat /\ (s # <<>> <=> Len(s) > 0)
               /\ \A i \in 1 .. Len(s) : s[i] \in Chunks /\ s[i].n \in Nat /\ s[i].voiced \in BOOLEAN
    <2>1. Len(s) \in Nat /\ (s # <<>> <=> Len(s) > 0)
      BY EmptySeq, LenProperties
    <2>2. \A i \in 1 .. Len(s) : s[i] \in Chunks
      BY ElementOfSeq
    <2>3. QED
      BY <2>1, <2>2 DEF Chunks
  <1>2. QED
    BY <1>1

\* The callback puts a chunk, and drops the oldest one of a full queue.
LEMMA CallbackSteps ==
  ASSUME NEW T \in Nat, NEW D, heard \in Nat, mic \in Seq(Chunks), Len(mic) <= 1, queue \in Seq(Chunks),
         Len(queue) <= QueueSize, Pending(queue, mic, heard, T, D), T <= heard,
         \/ \E v \in BOOLEAN : Capture!Deliver(v) /\ dropped = D
         \/ Capture!DropOldest /\ dropped = D
  PROVE  /\ mic' \in Seq(Chunks) /\ Len(mic') <= 1 /\ queue' \in Seq(Chunks) /\ Len(queue') <= QueueSize
         /\ Pending(queue', mic', heard', T, dropped') /\ D \subseteq dropped'
  <1>1. ASSUME NEW v \in BOOLEAN, Capture!Deliver(v), dropped = D
        PROVE /\ mic' \in Seq(Chunks) /\ Len(mic') <= 1 /\ queue' \in Seq(Chunks) /\ Len(queue') <= QueueSize
              /\ Pending(queue', mic', heard', T, dropped') /\ D \subseteq dropped'
    <2> PICK c : c = [n |-> heard + 1, voiced |-> v]
      OBVIOUS
    <2>1. /\ mic = <<>> /\ heard' = heard + 1 /\ dropped' = D
          /\ \/ Len(queue) < QueueSize /\ queue' = Append(queue, c) /\ mic' = mic
             \/ mic' = <<c>> /\ queue' = queue
      BY <1>1 DEF Capture!Deliver
    <2>2. c \in Chunks /\ c.n = heard + 1
      BY DEF Chunks
    <2>3. \A i \in 1 .. Len(queue) : queue[i] \in Chunks /\ queue[i].n \in Nat
      BY ChunksAre
    <2>4. CASE Len(queue) < QueueSize /\ queue' = Append(queue, c) /\ mic' = mic
      <3> PICK q : q = queue'
        OBVIOUS
      <3> PICK n : n = Len(queue) + 1
        OBVIOUS
      <3>1. /\ q \in Seq(Chunks) /\ Len(q) = n /\ q[n] = c /\ Len(queue) \in Nat
            /\ \A i \in 1 .. Len(queue) : q[i] = queue[i]
        BY <2>2, <2>4, AppendProperties, LenProperties
      <3>2. \A i \in 1 .. n : i \in 1 .. Len(queue) \/ i = n
        BY <3>1
      <3>3. \A i, j \in 1 .. n : i < j => q[i].n < q[j].n
        <4>1. ASSUME NEW i \in 1 .. n, NEW j \in 1 .. n, i < j PROVE q[i].n < q[j].n
          <5>1. i \in 1 .. Len(queue)
            BY <3>1, <4>1
          <5>2. queue[i].n \in Nat /\ queue[i].n <= heard
            BY <2>3, <5>1 DEF Pending
          <5>3. CASE j = n
            BY <2>2, <3>1, <5>1, <5>2, <5>3
          <5>4. CASE j \in 1 .. Len(queue)
            BY <3>1, <4>1, <5>1, <5>4 DEF Pending
          <5>5. QED
            BY <3>2, <5>3, <5>4
        <4>2. QED
          BY <4>1
      <3>4. \A i \in 1 .. n : T < q[i].n /\ q[i].n <= heard + 1
        <4>1. \A i \in 1 .. Len(queue) : T < queue[i].n /\ queue[i].n <= heard /\ queue[i].n \in Nat
          BY <2>3 DEF Pending
        <4>2. QED
          BY <2>2, <3>1, <3>2, <4>1
      <3>5. ASSUME NEW x \in (T + 1) .. (heard + 1) PROVE x \in D \/ \E i \in 1 .. n : q[i].n = x
        <4>1. CASE x = heard + 1
          <5>1. n \in 1 .. n
            BY <3>1
          <5>2. QED
            BY <2>2, <3>1, <4>1, <5>1
        <4>2. CASE x \in (T + 1) .. heard
          <5>1. x \in D \/ \E i \in 1 .. Len(queue) : queue[i].n = x
            BY <2>1, <4>2 DEF Pending
          <5>2. \A i \in 1 .. Len(queue) : i \in 1 .. n /\ q[i].n = queue[i].n
            BY <3>1
          <5>3. QED
            BY <5>1, <5>2
        <4>3. QED
          BY <4>1, <4>2
      <3>6. Pending(q, mic', heard + 1, T, D)
        BY <2>1, <2>4, <3>1, <3>3, <3>4, <3>5 DEF Pending
      <3>7. n <= QueueSize
        BY <2>4, <3>1, LimitAssumption
      <3>8. QED
        BY <2>1, <2>4, <3>1, <3>6, <3>7
    <2>5. CASE mic' = <<c>> /\ queue' = queue
      <3>1. mic' \in Seq(Chunks) /\ Len(mic') = 1 /\ mic' # <<>> /\ mic'[1] = c
        BY <2>2, <2>5
      <3>2. \A i \in 1 .. Len(queue) : T < queue[i].n /\ queue[i].n <= heard + 1 /\ queue[i].n < heard + 1
        BY <2>3 DEF Pending
      <3>3. ASSUME NEW x \in (T + 1) .. (heard + 1) PROVE x \in D \/ (\E i \in 1 .. Len(queue) : queue[i].n = x) \/ c.n = x
        <4>1. x = heard + 1 \/ x \in (T + 1) .. heard
          OBVIOUS
        <4>2. QED
          BY <2>1, <2>2, <4>1 DEF Pending
      <3>4. Pending(queue, mic', heard + 1, T, D)
        BY <2>2, <3>1, <3>2, <3>3 DEF Pending
      <3>5. QED
        BY <2>1, <2>5, <3>1, <3>4
    <2>6. QED
      BY <2>1, <2>4, <2>5
  <1>2. ASSUME Capture!DropOldest, dropped = D
        PROVE /\ mic' \in Seq(Chunks) /\ Len(mic') <= 1 /\ queue' \in Seq(Chunks) /\ Len(queue') <= QueueSize
              /\ Pending(queue', mic', heard', T, dropped') /\ D \subseteq dropped'
    <2>1. mic # <<>> /\ mic' = <<>> /\ heard' = heard
      BY <1>2 DEF Capture!DropOldest
    <2> PICK c : c = mic[1]
      OBVIOUS
    <2>2. mic = <<c>> /\ c \in Chunks /\ c.n = heard /\ c.n \in Nat
      <3>4. Len(mic) \in Nat /\ Len(mic) > 0 /\ \A i \in 1 .. Len(mic) : mic[i] \in Chunks
        BY <2>1, ChunksAre
      <3>1. Len(mic) = 1
        <4> PICK k \in Nat : k = Len(mic)
          BY <3>4
        <4>1. k > 0 /\ k <= 1
          BY <3>4
        <4>2. k = 1
          BY <4>1
        <4>3. QED
          BY <4>2
      <3>5. 1 \in 1 .. Len(mic)
        BY <3>1
      <3>2. mic[1] \in Chunks
        BY <3>4, <3>5
      <3>3. mic = <<c>>
        BY <3>1
      <3>6. QED
        BY <2>1, <3>2, <3>3 DEF Pending, Chunks
    <2>3. \A i \in 1 .. Len(queue) : queue[i].n \in Nat /\ queue[i].n < heard /\ T < queue[i].n
      BY <2>1, ChunksAre DEF Pending
    <2>4. CASE queue = <<>>
      <3>1. queue' = <<c>> /\ dropped' = D
        <4>1. queue' = <<>> \o mic /\ dropped' = D
          BY <1>2, <2>4 DEF Capture!DropOldest, Capture!Rest
        <4>2. QED
          BY <2>2, <4>1, ConcatEmptySeq
      <3>2. Len(queue) = 0 /\ 1 <= QueueSize
        BY <2>4, LimitAssumption
      <3>3. <<c>> \in Seq(Chunks) /\ Len(<<c>>) = 1 /\ <<c>>[1] = c
        BY <2>2
      <3>4. \A x \in (T + 1) .. heard : x \in D \/ c.n = x
        BY <2>1, <2>2, <3>2 DEF Pending
      <3>5. T < c.n
        BY <2>1, <2>2 DEF Pending
      <3>6. Pending(<<c>>, <<>>, heard, T, D)
        BY <2>2, <3>3, <3>4, <3>5 DEF Pending
      <3>7. QED
        BY <2>1, <3>1, <3>2, <3>3, <3>6
    <2>5. CASE queue # <<>>
      <3> PICK t : t = Tail(queue)
        OBVIOUS
      <3> PICK q : q = t \o <<c>>
        OBVIOUS
      <3> PICK n : n = Len(queue)
        OBVIOUS
      <3>1. queue' = q /\ dropped' = D \cup {queue[1].n}
        BY <1>2, <2>2, <2>5 DEF Capture!DropOldest, Capture!Rest
      <3>2. t \in Seq(Chunks) /\ Len(t) = n - 1 /\ n \in Nat /\ n > 0 /\ \A i \in 1 .. n - 1 : t[i] = queue[i + 1]
        BY <2>5, HeadTailProperties, ChunksAre
      <3>3. q \in Seq(Chunks) /\ Len(q) = n /\ q[n] = c /\ \A i \in 1 .. n - 1 : q[i] = queue[i + 1]
        <4>1. <<c>> \in Seq(Chunks) /\ Len(<<c>>) = 1 /\ <<c>>[1] = c
          BY <2>2
        <4>2. q \in Seq(Chunks) /\ Len(q) = n
          BY <3>2, <4>1, ConcatProperties
        <4>3. \A i \in 1 .. n : q[i] = IF i <= n - 1 THEN t[i] ELSE <<c>>[i - (n - 1)]
          BY <3>2, <4>1, ConcatProperties
        <4>4. QED
          BY <3>2, <4>1, <4>2, <4>3
      <3>4. \A i \in 1 .. n : i = n \/ (i \in 1 .. n - 1 /\ i + 1 \in 1 .. n)
        BY <3>2
      <3>5. \A i, j \in 1 .. n : i < j => q[i].n < q[j].n
        <4>1. ASSUME NEW i \in 1 .. n, NEW j \in 1 .. n, i < j PROVE q[i].n < q[j].n
          <5>1. i \in 1 .. n - 1 /\ i + 1 \in 1 .. n
            BY <3>2, <4>1
          <5>2. CASE j = n
            BY <2>2, <2>3, <3>3, <5>1, <5>2
          <5>3. CASE j \in 1 .. n - 1 /\ j + 1 \in 1 .. n
            <6>1. i + 1 < j + 1
              BY <4>1
            <6>2. queue[i + 1].n < queue[j + 1].n
              BY <5>1, <5>3, <6>1 DEF Pending
            <6>3. QED
              BY <3>3, <5>1, <5>3, <6>2
          <5>4. QED
            BY <3>4, <5>2, <5>3
        <4>2. QED
          BY <4>1
      <3>6. \A i \in 1 .. n : T < q[i].n /\ q[i].n <= heard
        <4>1. T < c.n /\ c.n <= heard
          BY <2>1, <2>2 DEF Pending
        <4>2. \A i \in 1 .. n : T < queue[i].n /\ queue[i].n <= heard
          BY <2>3
        <4>3. QED
          BY <3>3, <3>4, <4>1, <4>2
      <3>7. ASSUME NEW x \in (T + 1) .. heard PROVE x \in D \cup {queue[1].n} \/ \E i \in 1 .. n : q[i].n = x
        <4>1. x \in D \/ (\E i \in 1 .. n : queue[i].n = x) \/ c.n = x
          BY <2>1, <2>2 DEF Pending
        <4>2. ASSUME NEW i \in 1 .. n, queue[i].n = x, i # 1 PROVE \E j \in 1 .. n : q[j].n = x
          <5>1. i - 1 \in 1 .. n - 1 /\ i - 1 \in 1 .. n /\ (i - 1) + 1 = i
            BY <3>2, <4>2
          <5>2. QED
            BY <3>3, <4>2, <5>1
        <4>3. c.n = x => \E j \in 1 .. n : q[j].n = x
          <5>1. n \in 1 .. n
            BY <3>2
          <5>2. QED
            BY <3>3, <5>1
        <4>4. QED
          BY <4>1, <4>2, <4>3
      <3>8. Pending(q, <<>>, heard, T, dropped')
        BY <3>1, <3>3, <3>5, <3>6, <3>7 DEF Pending
      <3>9. QED
        BY <2>1, <3>1, <3>3, <3>8
    <2>6. QED
      BY <2>4, <2>5
  <1>3. QED
    BY <1>1, <1>2

\* What the loop takes comes after the chunk it took last: between them all was dropped.
LEMMA Taking ==
  ASSUME NEW T \in Nat, NEW D, heard \in Nat, mic \in Seq(Chunks), queue \in Seq(Chunks),
         Pending(queue, mic, heard, T, D), queue # <<>>
  PROVE  LET c == Head(queue)
         IN  /\ c \in Chunks /\ T < c.n /\ (T + 1) .. (c.n - 1) \subseteq D
             /\ Tail(queue) \in Seq(Chunks) /\ Len(Tail(queue)) = Len(queue) - 1
             /\ c.n <= heard /\ Pending(Tail(queue), mic, heard, c.n, D)
  <1> PICK c : c = Head(queue)
    OBVIOUS
  <1> PICK t : t = Tail(queue)
    OBVIOUS
  <1> PICK n : n = Len(queue)
    OBVIOUS
  <1>1. /\ t \in Seq(Chunks) /\ Len(t) = n - 1 /\ n \in Nat /\ n > 0 /\ (\A i \in 1 .. n - 1 : t[i] = queue[i + 1])
        /\ c = queue[1]
    BY HeadTailProperties, ChunksAre
  <1>2. \A i \in 1 .. n : queue[i] \in Chunks /\ queue[i].n \in Nat /\ T < queue[i].n /\ queue[i].n <= heard
    BY ChunksAre DEF Pending
  <1>3. 1 \in 1 .. n /\ \A i \in 1 .. n - 1 : i + 1 \in 1 .. n /\ 1 < i + 1
    BY <1>1
  <1>4. \A i \in 1 .. n : i # 1 => c.n < queue[i].n
    <2>1. \A i \in 1 .. n : i # 1 => 1 < i
      OBVIOUS
    <2>2. QED
      BY <1>1, <1>3, <2>1 DEF Pending
  <1>5. c \in Chunks /\ c.n \in Nat /\ T < c.n /\ c.n <= heard
    BY <1>1, <1>2, <1>3
  <1>6. mic # <<>> => mic[1].n = heard /\ T < heard /\ c.n < heard
    BY <1>1, <1>3 DEF Pending
  <1>7. ASSUME NEW x \in (T + 1) .. (c.n - 1) PROVE x \in D
    <2>1. x \in (T + 1) .. heard /\ x < c.n
      BY <1>5
    <2>2. x \in D \/ (\E i \in 1 .. n : queue[i].n = x) \/ (mic # <<>> /\ heard = x)
      BY <1>6, <2>1 DEF Pending
    <2>3. \A i \in 1 .. n : queue[i].n = x => FALSE
      <3>1. \A i \in 1 .. n : c.n <= queue[i].n
        BY <1>1, <1>2, <1>4, <1>5
      <3>2. QED
        BY <1>2, <1>5, <2>1, <3>1
    <2>4. QED
      BY <1>5, <1>6, <2>1, <2>2, <2>3
  <1>8. Pending(t, mic, heard, c.n, D)
    <2>1. \A i, j \in 1 .. n - 1 : i < j => t[i].n < t[j].n
      <3>1. ASSUME NEW i \in 1 .. n - 1, NEW j \in 1 .. n - 1, i < j PROVE t[i].n < t[j].n
        <4>1. i + 1 < j + 1
          BY <3>1
        <4>2. queue[i + 1].n < queue[j + 1].n
          BY <1>3, <4>1 DEF Pending
        <4>3. QED
          BY <1>1, <4>2
      <3>2. QED
        BY <3>1
    <2>2. \A i \in 1 .. n - 1 : c.n < t[i].n /\ t[i].n <= heard
      <3>1. ASSUME NEW i \in 1 .. n - 1 PROVE c.n < t[i].n /\ t[i].n <= heard
        <4>1. i + 1 \in 1 .. n /\ i + 1 # 1 /\ t[i] = queue[i + 1]
          BY <1>1, <1>3
        <4>2. QED
          BY <1>2, <1>4, <4>1
      <3>2. QED
        BY <3>1
    <2>3. mic # <<>> => \A i \in 1 .. n - 1 : t[i].n < heard
      BY <1>1, <1>3 DEF Pending
    <2>4. ASSUME NEW x \in (c.n + 1) .. heard
          PROVE  x \in D \/ (\E i \in 1 .. n - 1 : t[i].n = x) \/ (mic # <<>> /\ mic[1].n = x)
      <3>1. x \in (T + 1) .. heard /\ x # c.n
        BY <1>5
      <3>2. x \in D \/ (\E i \in 1 .. n : queue[i].n = x) \/ (mic # <<>> /\ mic[1].n = x)
        BY <3>1 DEF Pending
      <3>3. ASSUME NEW i \in 1 .. n, queue[i].n = x PROVE \E j \in 1 .. n - 1 : t[j].n = x
        <4>1. i # 1
          BY <1>1, <3>1, <3>3
        <4>2. i - 1 \in 1 .. n - 1 /\ (i - 1) + 1 = i
          BY <1>1, <4>1
        <4>3. QED
          BY <1>1, <3>3, <4>2
      <3>4. QED
        BY <3>2, <3>3
    <2>5. QED
      BY <1>1, <1>6, <2>1, <2>2, <2>3, <2>4 DEF Pending
  <1>9. QED
    BY <1>1, <1>5, <1>7, <1>8

\* The pre-roll and one more chunk.
Rolled(w, c, D) ==
  /\ w \in Seq(Chunks) /\ Len(w) \in 1 .. PreRoll /\ w[Len(w)] = c
  /\ \A k \in 1 .. Len(w) - 1 : ~w[k].voiced
  /\ \A k \in 2 .. Len(w) : Gap(w, k, D)
  /\ Len(w) < PreRoll => 1 .. w[1].n - 1 \subseteq D

LEMMA Rolling ==
  ASSUME NEW D, NEW p \in Seq(Chunks), Roll(p, D), NEW c \in Chunks, LastN(p) < c.n, (LastN(p) + 1) .. (c.n - 1) \subseteq D,
         NEW w, w = Capture!LastOf(Append(p, c), PreRoll)
  PROVE  Rolled(w, c, D)
  <1> PICK s : s = Append(p, c)
    OBVIOUS
  <1> PICK n : n = Len(p) + 1
    OBVIOUS
  <1>1. /\ s \in Seq(Chunks) /\ Len(s) = n /\ s[n] = c /\ Len(p) \in Nat /\ n \in Nat /\ n > 0
        /\ \A i \in 1 .. Len(p) : s[i] = p[i]
    BY AppendProperties, LenProperties
  <1>2. PreRoll \in Nat /\ PreRoll > 0 /\ n <= PreRoll + 1
    BY <1>1, LimitAssumption DEF Roll
  <1>3. \A k \in 2 .. n : Gap(s, k, D)
    <2>1. ASSUME NEW k \in 2 .. n PROVE Gap(s, k, D)
      <3>1. CASE k = n
        <4>1. p # <<>> /\ s[k - 1] = p[Len(p)] /\ s[k] = c
          <5>1. Len(p) \in 1 .. Len(p) /\ k - 1 = Len(p)
            BY <1>1, <3>1
          <5>2. p # <<>>
            BY <5>1, ChunksAre
          <5>3. QED
            BY <1>1, <3>1, <5>1, <5>2
        <4>2. LastN(p) = s[k - 1].n
          BY <4>1 DEF LastN
        <4>3. QED
          BY <4>1, <4>2 DEF Gap
      <3>2. CASE k # n
        <4>1. k \in 2 .. Len(p) /\ k \in 1 .. Len(p) /\ k - 1 \in 1 .. Len(p)
          BY <1>1, <3>2
        <4>2. s[k] = p[k] /\ s[k - 1] = p[k - 1]
          BY <1>1, <4>1
        <4>3. Gap(p, k, D)
          BY <4>1 DEF Roll
        <4>4. QED
          BY <4>2, <4>3 DEF Gap
      <3>3. QED
        BY <3>1, <3>2
    <2>2. QED
      BY <2>1
  <1>4. \A k \in 1 .. n - 1 : ~s[k].voiced
    BY <1>1 DEF Roll
  <1>5. CASE n <= PreRoll
    <2>1. w = s
      BY <1>1, <1>5 DEF Capture!LastOf
    <2>2. n < PreRoll => 1 .. s[1].n - 1 \subseteq D
      <3>1. CASE p = <<>>
        <4>1. n = 1 /\ LastN(p) = 0
          BY <3>1 DEF LastN
        <4>2. QED
          BY <1>1, <4>1
      <3>2. CASE p # <<>>
        <4>1. Len(p) > 0
          BY <3>2, ChunksAre
        <4>2. 1 \in 1 .. Len(p)
          BY <1>1, <4>1
        <4>3. s[1] = p[1]
          BY <1>1, <4>2
        <4>4. n < PreRoll => Len(p) < PreRoll
          BY <1>1, <1>2
        <4>5. QED
          BY <3>2, <4>3, <4>4 DEF Roll
      <3>3. QED
        BY <3>1, <3>2
    <2>3. QED
      BY <1>1, <1>2, <1>3, <1>4, <1>5, <2>1, <2>2 DEF Rolled
  <1>6. CASE n > PreRoll
    <2>1. n = PreRoll + 1
      BY <1>1, <1>2, <1>6
    <2>2. w = SubSeq(s, 2, n)
      <3>1. n - PreRoll + 1 = 2 /\ ~(n <= PreRoll)
        BY <1>2, <2>1
      <3>2. QED
        BY <1>1, <3>1 DEF Capture!LastOf
    <2>3. \A i \in 2 .. n : s[i] \in Chunks
      <3>1. \A i \in 2 .. n : i \in 1 .. Len(s)
        BY <1>1
      <3>2. QED
        BY <1>1, <3>1, ChunksAre
    <2>4. w \in Seq(Chunks) /\ Len(w) = PreRoll /\ \A i \in 1 .. PreRoll : w[i] = s[i + 1]
      <3>1. /\ w \in Seq(Chunks) /\ Len(w) = (IF 2 <= n THEN n - 2 + 1 ELSE 0)
            /\ \A i \in 1 .. n - 2 + 1 : w[i] = s[2 + i - 1]
        BY <1>1, <2>2, <2>3, SubSeqProperties
      <3>2. n - 2 + 1 = PreRoll /\ 2 <= n /\ \A i \in 1 .. PreRoll : 2 + i - 1 = i + 1
        BY <1>2, <2>1
      <3>3. QED
        BY <3>1, <3>2
    <2>5. \A k \in 2 .. PreRoll : Gap(w, k, D)
      <3>1. ASSUME NEW k \in 2 .. PreRoll PROVE Gap(w, k, D)
        <4>1. k \in 1 .. PreRoll /\ k - 1 \in 1 .. PreRoll /\ k + 1 \in 2 .. n /\ (k - 1) + 1 = k /\ (k + 1) - 1 = k
          BY <1>2, <2>1
        <4>2. w[k] = s[k + 1] /\ w[k - 1] = s[k]
          BY <2>4, <4>1
        <4>3. Gap(s, k + 1, D)
          BY <1>3, <4>1
        <4>4. QED
          BY <4>1, <4>2, <4>3 DEF Gap
      <3>2. QED
        BY <3>1
    <2>6. \A k \in 1 .. PreRoll - 1 : ~w[k].voiced
      <3>1. \A k \in 1 .. PreRoll - 1 : k \in 1 .. PreRoll /\ k + 1 \in 1 .. n - 1
        BY <1>2, <2>1
      <3>2. QED
        BY <1>4, <2>4, <3>1
    <2>7. w[PreRoll] = c /\ PreRoll \in 1 .. PreRoll
      <3>1. PreRoll \in 1 .. PreRoll /\ PreRoll + 1 = n
        BY <1>2, <2>1
      <3>2. QED
        BY <1>1, <2>4, <3>1
    <2>8. ~(Len(w) < PreRoll)
      BY <1>2, <2>4
    <2>9. QED
      BY <2>4, <2>5, <2>6, <2>7, <2>8 DEF Rolled
  <1>7. QED
    BY <1>1, <1>2, <1>5, <1>6

\* What is dropped later leaves no other hole.
LEMMA MoreDropped ==
  ASSUME NEW D, NEW E, D \subseteq E, NEW s
  PROVE  /\ Roll(s, D) => Roll(s, E)
         /\ \A f : Onset(s, f, D) => Onset(s, f, E)
  <1>1. \A k : Gap(s, k, D) => Gap(s, k, E)
    BY DEF Gap
  <1>2. Roll(s, D) => Roll(s, E)
    BY <1>1 DEF Roll
  <1>3. \A f : Onset(s, f, D) => Onset(s, f, E)
    BY <1>1 DEF Onset
  <1>4. QED
    BY <1>2, <1>3

\* The speech begins: its first chunk comes with the pre-roll and once more.
Began(s, w, c, D) ==
  /\ s \in Seq(Chunks) /\ Len(s) = Len(w) + 1 /\ s # <<>> /\ s[Len(s)] = c
  /\ Onset(s, Len(w), D) /\ LastPair(s, Len(w), Len(w)) /\ QuietFrom(s, Len(w)) = {}

LEMMA SpeechBegins ==
  ASSUME NEW D, NEW c \in Chunks, c.voiced,
         NEW w, Rolled(w, c, D), NEW s, s = w \o <<c>>
  PROVE  Began(s, w, c, D)
  <1> USE DEF Rolled
  <1> PICK f : f = Len(w)
    OBVIOUS
  <1>1. f \in Nat /\ f > 0 /\ f <= PreRoll /\ PreRoll \in Nat
    BY LimitAssumption
  <1>2. s \in Seq(Chunks) /\ Len(s) = f + 1 /\ s[f + 1] = c /\ \A i \in 1 .. f : s[i] = w[i]
    <2>1. <<c>> \in Seq(Chunks) /\ Len(<<c>>) = 1 /\ <<c>>[1] = c
      OBVIOUS
    <2>2. s \in Seq(Chunks) /\ Len(s) = f + 1
      BY <2>1, ConcatProperties
    <2>3. \A i \in 1 .. f + 1 : s[i] = IF i <= f THEN w[i] ELSE <<c>>[i - f]
      BY <1>1, <2>1, ConcatProperties
    <2>4. s[f + 1] = c
      <3>1. f + 1 \in 1 .. f + 1 /\ ~(f + 1 <= f) /\ f + 1 - f = 1
        BY <1>1
      <3>2. QED
        BY <2>1, <2>3, <3>1
    <2>5. \A i \in 1 .. f : s[i] = w[i]
      BY <1>1, <2>3
    <2>6. QED
      BY <2>2, <2>4, <2>5
  <1>3. FirstOf(s, f)
    <2>1. f \in 1 .. f /\ f \in 1 .. f + 1 /\ \A i \in 1 .. f - 1 : i \in 1 .. f
      BY <1>1
    <2>2. QED
      BY <1>2, <2>1 DEF FirstOf
  <1>4. \A k \in 2 .. Len(s) : Gap(s, k, D) \/ (k = f + 1 /\ s[k - 1].n = s[k].n)
    <2>1. ASSUME NEW k \in 2 .. f + 1 PROVE Gap(s, k, D) \/ (k = f + 1 /\ s[k - 1].n = s[k].n)
      <3>1. CASE k = f + 1
        <4>1. k - 1 = f /\ f \in 1 .. f
          BY <1>1, <3>1
        <4>2. QED
          BY <1>2, <3>1, <4>1
      <3>2. CASE k # f + 1
        <4>1. k \in 2 .. f /\ k \in 1 .. f /\ k - 1 \in 1 .. f
          BY <1>1, <3>2
        <4>2. s[k] = w[k] /\ s[k - 1] = w[k - 1] /\ Gap(w, k, D)
          BY <1>2, <4>1
        <4>3. QED
          BY <4>2 DEF Gap
      <3>3. QED
        BY <3>1, <3>2
    <2>2. QED
      BY <1>2, <2>1
  <1>5. f = PreRoll \/ 1 .. s[1].n - 1 \subseteq D
    <2>1. 1 \in 1 .. f
      BY <1>1
    <2>2. s[1] = w[1] /\ (f = PreRoll \/ f < PreRoll)
      BY <1>1, <1>2, <2>1
    <2>3. QED
      BY <2>2
  <1>6. f + 1 <= Len(s) /\ s[f + 1] = s[f]
    <2>1. f \in 1 .. f
      BY <1>1
    <2>2. QED
      BY <1>1, <1>2, <2>1
  <1>7. Onset(s, f, D)
    BY <1>3, <1>4, <1>5, <1>6 DEF Onset
  <1>8. LastPair(s, f, f)
    <2>1. f \in 1 .. f + 1 /\ f <= f /\ \A k \in 1 .. f + 1 : ~(k > f + 1)
      BY <1>1
    <2>2. QED
      BY <1>2, <2>1 DEF LastPair, PairOf
  <1>9. QuietFrom(s, f) = {}
    <2>1. \A k \in f + 1 .. f + 1 : k = f + 1
      BY <1>1
    <2>2. QED
      BY <1>2, <2>1 DEF QuietFrom
  <1>10. s # <<>>
    BY <1>1, <1>2, ChunksAre
  <1>11. QED
    BY <1>2, <1>7, <1>8, <1>9, <1>10 DEF Began

\* The speech goes on: the pause begins again after two voiced chunks in a row.
GoesOn(s, c, t, f, m, D) ==
  /\ t \in Seq(Chunks) /\ Len(t) = Len(s) + 1 /\ t # <<>> /\ t[Len(t)] = c /\ Onset(t, f, D)
  /\ c.voiced /\ s[Len(s)].voiced => LastPair(t, f, Len(t)) /\ QuietFrom(t, Len(t)) = {}
  /\ c.voiced /\ ~s[Len(s)].voiced => LastPair(t, f, m) /\ QuietFrom(t, m) = QuietFrom(s, m)
  /\ ~c.voiced => /\ LastPair(t, f, m) /\ QuietFrom(t, m) = QuietFrom(s, m) \cup {Len(t)}
                  /\ Len(t) \notin QuietFrom(s, m)

LEMMA SpeechGoesOn ==
  ASSUME NEW D, NEW s \in Seq(Chunks), s # <<>>, NEW f \in 1 .. Len(s), NEW m \in 1 .. Len(s),
         Onset(s, f, D), LastPair(s, f, m),
         NEW c \in Chunks, s[Len(s)].n < c.n, (s[Len(s)].n + 1) .. (c.n - 1) \subseteq D,
         NEW t, t = Append(s, c)
  PROVE  GoesOn(s, c, t, f, m, D)
  <1> PICK L : L = Len(s)
    OBVIOUS
  <1> PICK n : n = L + 1
    OBVIOUS
  <1>1. /\ t \in Seq(Chunks) /\ Len(t) = n /\ t[n] = c /\ L \in Nat /\ L > 0 /\ n \in Nat
        /\ \A i \in 1 .. L : t[i] = s[i]
    BY AppendProperties, LenProperties, ChunksAre
  <1>2. /\ \A i \in 1 .. n : i \in 1 .. L \/ i = n
        /\ f \in 1 .. L /\ f + 1 \in 1 .. L /\ m \in 1 .. L /\ f <= m /\ L \in 1 .. L /\ f \in Nat /\ m \in Nat
    BY <1>1 DEF Onset, LastPair
  <1>3. Onset(t, f, D)
    <2>1. FirstOf(t, f)
      <3>1. f \in 1 .. n /\ \A i \in 1 .. f - 1 : i \in 1 .. L
        BY <1>1, <1>2
      <3>2. FirstOf(s, f)
        BY DEF Onset
      <3>3. QED
        BY <1>1, <1>2, <3>1, <3>2 DEF FirstOf
    <2>2. f + 1 <= n /\ t[f + 1] = t[f]
      BY <1>1, <1>2 DEF Onset
    <2>3. ASSUME NEW k \in 2 .. n PROVE Gap(t, k, D) \/ (k = f + 1 /\ t[k - 1].n = t[k].n)
      <3>1. CASE k = n
        <4>1. k - 1 = L
          BY <1>1, <3>1
        <4>2. QED
          BY <1>1, <1>2, <3>1, <4>1 DEF Gap
      <3>2. CASE k # n
        <4>1. k \in 2 .. L /\ k \in 1 .. L /\ k - 1 \in 1 .. L
          BY <1>1, <3>2
        <4>2. t[k] = s[k] /\ t[k - 1] = s[k - 1]
          BY <1>1, <4>1
        <4>3. Gap(s, k, D) \/ (k = f + 1 /\ s[k - 1].n = s[k].n)
          BY <4>1 DEF Onset
        <4>4. QED
          BY <4>2, <4>3 DEF Gap
      <3>3. QED
        BY <3>1, <3>2
    <2>4. f = PreRoll \/ 1 .. t[1].n - 1 \subseteq D
      <3>1. 1 \in 1 .. L
        BY <1>1
      <3>2. QED
        BY <1>1, <3>1 DEF Onset
    <2>5. QED
      BY <1>1, <2>1, <2>2, <2>3, <2>4 DEF Onset
  <1>4. \A k \in 1 .. L : PairOf(t, f, k) <=> PairOf(s, f, k)
    <2>1. ASSUME NEW k \in 1 .. L PROVE PairOf(t, f, k) <=> PairOf(s, f, k)
      <3>1. k > f + 1 => k - 1 \in 1 .. L
        BY <1>1, <1>2
      <3>2. QED
        BY <1>1, <3>1 DEF PairOf
    <2>2. QED
      BY <2>1
  <1>5. PairOf(t, f, n) <=> c.voiced /\ s[L].voiced
    <2>1. n > f + 1 /\ n - 1 = L
      BY <1>1, <1>2
    <2>2. QED
      BY <1>1, <1>2, <2>1 DEF PairOf
  <1>6. ASSUME c.voiced /\ s[L].voiced PROVE LastPair(t, f, n) /\ QuietFrom(t, n) = {}
    <2>1. n \in 1 .. n /\ f <= n /\ (\A k \in 1 .. n : k <= n) /\ \A k \in n + 1 .. n : FALSE
      BY <1>1, <1>2
    <2>2. LastPair(t, f, n)
      BY <1>1, <1>5, <1>6, <2>1 DEF LastPair
    <2>3. QuietFrom(t, n) = {}
      BY <1>1, <2>1 DEF QuietFrom
    <2>4. QED
      BY <2>2, <2>3
  <1>7. ASSUME ~(c.voiced /\ s[L].voiced) PROVE LastPair(t, f, m)
    <2>1. m \in 1 .. n
      BY <1>1, <1>2
    <2>2. m = f \/ PairOf(t, f, m)
      BY <1>2, <1>4 DEF LastPair
    <2>3. \A k \in 1 .. n : PairOf(t, f, k) => k <= m
      BY <1>2, <1>4, <1>5, <1>7 DEF LastPair
    <2>4. QED
      BY <1>1, <1>2, <2>1, <2>2, <2>3 DEF LastPair
  <1>8. \A k : k \in m + 1 .. n <=> k \in m + 1 .. L \/ k = n
    BY <1>1, <1>2
  <1>9. \A k \in m + 1 .. L : k \in 1 .. L /\ k # n
    BY <1>1, <1>2
  <1>10. c.voiced => QuietFrom(t, m) = QuietFrom(s, m)
    BY <1>1, <1>8, <1>9 DEF QuietFrom
  <1>11. ~c.voiced => QuietFrom(t, m) = QuietFrom(s, m) \cup {n}
    BY <1>1, <1>8, <1>9 DEF QuietFrom
  <1>12. n \notin QuietFrom(s, m)
    BY <1>9 DEF QuietFrom
  <1>13. t # <<>>
    BY <1>1, ChunksAre
  <1>14. QED
    BY <1>1, <1>3, <1>6, <1>7, <1>10, <1>11, <1>12, <1>13 DEF GoesOn

\* The cardinality the module counts with is that of the library.
LEMMA CaptureCount == \A S : Capture!Cardinality(S) = Cardinality(S)
  BY DEF Capture!Cardinality, Cardinality

LEMMA TargetIsNumber == \A n \in Nat : Capture!SilenceTarget(n) \in Int
  <1>1. ASSUME NEW n \in Nat PROVE Capture!SilenceTarget(n) \in Int
    <2>1. Capture!Least(n, GraceSpeech) \in Int
      BY LimitAssumption DEF Capture!Least
    <2>2. (MaxSilence - BaseSilence) * Capture!Least(n, GraceSpeech) \in Int
      BY <2>1, LimitAssumption
    <2>3. \A x \in Int : x \div GraceSpeech \in Int
      BY LimitAssumption
    <2>4. QED
      BY <2>2, <2>3, LimitAssumption DEF Capture!SilenceTarget
  <1>2. QED
    BY <1>1

\* The callback does not touch what was recorded.
LEMMA DeviceSteps ==
  ASSUME CaptureInv, (\E v \in BOOLEAN : Capture!Deliver(v)) \/ Capture!DropOldest
  PROVE  CaptureInv'
  <1>1. UNCHANGED <<index, Capture!counters, Capture!partials, reason>>
    BY DEF Capture!Deliver, Capture!DropOldest
  <1> PICK T \in Nat : T = Taken
    BY DEF CaptureInv, DeviceInv
  <1>2. Taken' = T
    BY <1>1 DEF Taken, LastN, Capture!counters
  <1>3. heard' \in 0 .. MaxHeard
    <2>1. heard \in 0 .. MaxHeard
      BY DEF CaptureInv, DeviceInv
    <2>2. heard' = heard \/ (heard < MaxHeard /\ heard' = heard + 1)
      BY DEF Capture!Deliver, Capture!DropOldest
    <2>3. QED
      BY <2>1, <2>2, LimitAssumption
  <1>4. T <= heard'
    <2>1. heard \in Nat /\ T <= heard
      BY LimitAssumption DEF CaptureInv, DeviceInv
    <2>2. heard' = heard \/ heard' = heard + 1
      BY DEF Capture!Deliver, Capture!DropOldest
    <2>3. QED
      BY <2>1, <2>2
  <1>5. /\ mic' \in Seq(Chunks) /\ Len(mic') <= 1 /\ queue' \in Seq(Chunks) /\ Len(queue') <= QueueSize
        /\ Pending(queue', mic', heard', T, dropped') /\ dropped \subseteq dropped'
    <2>1. heard \in Nat
      BY LimitAssumption DEF CaptureInv, DeviceInv
    <2>2. /\ mic \in Seq(Chunks) /\ Len(mic) <= 1 /\ queue \in Seq(Chunks) /\ Len(queue) <= QueueSize
          /\ Pending(queue, mic, heard, T, dropped) /\ T <= heard
      BY DEF CaptureInv, DeviceInv
    <2> PICK D : D = dropped
      OBVIOUS
    <2>3. (\E v \in BOOLEAN : Capture!Deliver(v) /\ dropped = D) \/ (Capture!DropOldest /\ dropped = D)
      OBVIOUS
    <2>4. QED
      BY <2>1, <2>2, <2>3, CallbackSteps
  <1>6. DeviceInv'
    BY <1>2, <1>3, <1>4, <1>5 DEF DeviceInv
  <1>7. SpeechInv'
    <2> PICK D : D = dropped
      OBVIOUS
    <2> PICK E : E = dropped'
      OBVIOUS
    <2>1. /\ captured' = captured /\ pre' = pre /\ onset' = onset /\ samples' = samples
          /\ silence' = silence /\ run' = run
      BY <1>1 DEF Capture!counters
    <2>2. Roll(pre, D) => Roll(pre, E)
      BY <1>5, MoreDropped
    <2>3. \A f : Onset(captured, f, D) => Onset(captured, f, E)
      BY <1>5, MoreDropped
    <2>4. SpeechInv
      BY DEF CaptureInv
    <2>5. captured = <<>> => Roll(pre, E) /\ onset = 0 /\ samples = 0 /\ silence = 0 /\ run = 0
      BY <2>2, <2>4 DEF SpeechInv
    <2>6. captured # <<>> =>
            /\ pre = <<>> /\ (run > 0 <=> captured[Len(captured)].voiced)
            /\ \E f \in 1 .. Len(captured), m \in 1 .. Len(captured) :
                 Onset(captured, f, E) /\ LastPair(captured, f, m) /\ Cardinality(QuietFrom(captured, m)) = silence
      BY <2>3, <2>4 DEF SpeechInv
    <2>7. QED
      BY <2>1, <2>4, <2>5, <2>6 DEF SpeechInv
  <1>8. TimeInv'
    BY <1>1 DEF CaptureInv, TimeInv, Capture!counters, Capture!SilenceTarget, Capture!Least
  <1>9. GateInv'
    BY <1>1 DEF CaptureInv, GateInv, Capture!partials, Capture!ArabicConfirmed
  <1>10. QED
    BY <1>6, <1>7, <1>8, <1>9 DEF CaptureInv

\* Where only windows and time go on, what was recorded stays.
LEMMA RecordKept ==
  ASSUME DeviceInv, SpeechInv, UNCHANGED <<Capture!device, Capture!counters, dropped>>
  PROVE  DeviceInv' /\ SpeechInv'
  <1>1. /\ heard' = heard /\ mic' = mic /\ queue' = queue /\ dropped' = dropped /\ captured' = captured /\ pre' = pre
        /\ onset' = onset /\ samples' = samples /\ silence' = silence /\ run' = run
    BY DEF Capture!device, Capture!counters
  <1>2. Taken' = Taken
    BY <1>1 DEF Taken, LastN
  <1>3. DeviceInv'
    BY <1>1, <1>2 DEF DeviceInv
  <1>4. SpeechInv'
    BY <1>1 DEF SpeechInv
  <1>5. QED
    BY <1>3, <1>4

\* The windows do not touch the recording.
LEMMA PartialSteps ==
  ASSUME CaptureInv, Capture!Submit \/ Capture!Begin \/ Capture!Transcribe
  PROVE  CaptureInv'
  <1>1. UNCHANGED <<Capture!device, index, Capture!counters, reason, dropped>>
    BY DEF Capture!Submit, Capture!Begin, Capture!Transcribe
  <1>2. DeviceInv' /\ SpeechInv'
    BY <1>1, RecordKept DEF CaptureInv
  <1>3. TimeInv'
    BY <1>1 DEF CaptureInv, TimeInv, Capture!counters, Capture!SilenceTarget, Capture!Least
  <1>4. GateInv'
    BY WindowSteps DEF CaptureInv
  <1>5. QED
    BY <1>2, <1>3, <1>4 DEF CaptureInv

\* Nothing came, or all the iterations are over.
LEMMA WaitingSteps ==
  ASSUME CaptureInv, Capture!Idle \/ Capture!Exhausted
  PROVE  CaptureInv'
  <1>1. UNCHANGED <<Capture!device, Capture!counters, Capture!partials, dropped>>
    BY DEF Capture!Idle, Capture!Exhausted
  <1>2. DeviceInv' /\ SpeechInv'
    BY <1>1, RecordKept DEF CaptureInv
  <1>3. GateInv'
    BY <1>1 DEF CaptureInv, GateInv, Capture!partials, Capture!ArabicConfirmed
  <1>4. TimeInv'
    <2>1. /\ captured' = captured /\ onset' = onset /\ samples' = samples /\ silence' = silence /\ run' = run
      BY <1>1 DEF Capture!counters
    <2>2. TimeInv
      BY DEF CaptureInv
    <2>3. \/ reason = "" /\ reason' = "" /\ index' = index + 1 /\ index < MaxChunks
          \/ reason' \in {"max_duration", "max_chunks"} /\ index' = index
      BY DEF Capture!Idle, Capture!Exhausted, Capture!Recording, Capture!Counted
    <2>4. CASE reason = "" /\ reason' = "" /\ index' = index + 1 /\ index < MaxChunks
      <3>5. index' = index + 1 /\ index < MaxChunks
        BY <2>4
      <3>6. index \in 0 .. MaxChunks /\ onset \in 0 .. index /\ samples \in Nat
        BY <2>2 DEF TimeInv
      <3>1. index \in Nat /\ onset \in Nat /\ onset <= index /\ MaxChunks \in Nat
        BY <3>6, LimitAssumption
      <3>2. index' \in 0 .. MaxChunks /\ onset \in 0 .. index' /\ index' - onset + 1 >= index - onset + 1
        BY <3>1, <3>5
      <3>3. captured # <<>> => onset > 0 /\ samples > 0 /\ samples <= index' - onset + 1
        <4>1. captured # <<>> => onset > 0 /\ samples > 0 /\ samples <= index - onset + 1
          BY <2>2 DEF TimeInv
        <4>2. QED
          BY <3>1, <3>5, <3>6, <4>1
      <3>4. QED
        BY <2>1, <2>2, <2>4, <3>2, <3>3 DEF TimeInv, Capture!SilenceTarget, Capture!Least
    <2>5. CASE reason' \in {"max_duration", "max_chunks"} /\ index' = index
      <3>1. reason' \in StopReasons /\ reason' # ""
        BY <2>5 DEF StopReasons
      <3>2. QED
        BY <2>1, <2>2, <2>5, <3>1 DEF TimeInv
    <2>6. QED
      BY <2>3, <2>4, <2>5
  <1>5. QED
    BY <1>2, <1>3, <1>4 DEF CaptureInv

\* The loop takes the oldest chunk of the queue.
LEMMA ChunkTaken ==
  ASSUME DeviceInv, NEW c, Capture!Take(c), UNCHANGED <<heard, mic, dropped>>
  PROVE  /\ c \in Chunks /\ Taken < c.n /\ (Taken + 1) .. (c.n - 1) \subseteq dropped
         /\ Taken' = c.n => DeviceInv'
  <1>1. queue # <<>> /\ c = Head(queue) /\ queue' = Tail(queue)
    BY DEF Capture!Take
  <1> PICK T : T = Taken
    OBVIOUS
  <1>2. /\ T \in Nat /\ heard \in Nat /\ heard \in 0 .. MaxHeard /\ mic \in Seq(Chunks) /\ Len(mic) <= 1
        /\ queue \in Seq(Chunks) /\ Len(queue) <= QueueSize /\ Pending(queue, mic, heard, T, dropped)
    BY LimitAssumption DEF DeviceInv
  <1>3. /\ c \in Chunks /\ T < c.n /\ (T + 1) .. (c.n - 1) \subseteq dropped
        /\ queue' \in Seq(Chunks) /\ Len(queue') = Len(queue) - 1
        /\ c.n <= heard /\ Pending(queue', mic, heard, c.n, dropped)
    BY <1>1, <1>2, Taking
  <1>4. Len(queue') <= QueueSize
    <2>1. Len(queue) \in Nat
      BY <1>2, LenProperties
    <2>2. QED
      BY <1>2, <1>3, <2>1, LimitAssumption
  <1>5. c.n \in Nat
    BY <1>3 DEF Chunks
  <1>6. ASSUME Taken' = c.n PROVE DeviceInv'
    BY <1>2, <1>3, <1>4, <1>5, <1>6 DEF DeviceInv
  <1>7. QED
    BY <1>3, <1>6

LEMMA GateKept == GateInv /\ UNCHANGED Capture!partials => GateInv'
  BY DEF GateInv, Capture!partials, Capture!ArabicConfirmed

\* A chunk of the pre-roll.
LEMMA BeforeSpeechSteps ==
  ASSUME CaptureInv, Capture!BeforeSpeech
  PROVE  CaptureInv'
  <1>1. PICK c : /\ Capture!Take(c) /\ ~c.voiced
                 /\ pre' = Capture!LastOf(Append(pre, c), PreRoll)
    BY DEF Capture!BeforeSpeech
  <1>2. /\ onset = 0 /\ index' = index + 1 /\ dropped' = dropped
        /\ UNCHANGED <<heard, mic, captured, onset, samples, silence, run, Capture!partials>>
    BY DEF Capture!BeforeSpeech
  <1>3. captured = <<>> /\ Roll(pre, dropped) /\ samples = 0 /\ silence = 0 /\ run = 0
    <2>1. captured = <<>>
      <3>1. captured # <<>> => onset > 0
        BY DEF CaptureInv, TimeInv
      <3>2. QED
        BY <1>2, <3>1
    <2>2. QED
      BY <2>1 DEF CaptureInv, SpeechInv
  <1>4. Taken = LastN(pre)
    BY <1>3 DEF Taken
  <1>5. /\ c \in Chunks /\ LastN(pre) < c.n /\ (LastN(pre) + 1) .. (c.n - 1) \subseteq dropped
        /\ Taken' = c.n => DeviceInv'
    BY <1>1, <1>2, <1>4, ChunkTaken DEF CaptureInv
  <1> PICK w : w = pre'
    OBVIOUS
  <1>6. /\ w \in Seq(Chunks) /\ Len(w) \in 1 .. PreRoll /\ w[Len(w)] = c
        /\ \A k \in 1 .. Len(w) - 1 : ~w[k].voiced
        /\ \A k \in 2 .. Len(w) : Gap(w, k, dropped)
        /\ Len(w) < PreRoll => 1 .. w[1].n - 1 \subseteq dropped
    <2>1. pre \in Seq(Chunks) /\ w = Capture!LastOf(Append(pre, c), PreRoll)
      BY <1>1, <1>3 DEF Roll
    <2>2. Rolled(w, c, dropped)
      BY <1>3, <1>5, <2>1, Rolling, Zenon
    <2>3. QED
      BY <2>2 DEF Rolled
  <1>7. w # <<>>
    BY <1>6, ChunksAre
  <1>8. DeviceInv'
    <2>1. Taken' = c.n
      BY <1>2, <1>3, <1>6, <1>7 DEF Taken, LastN
    <2>2. QED
      BY <1>5, <2>1
  <1>9. SpeechInv'
    <2>1. \A k \in 1 .. Len(w) : k = Len(w) \/ k \in 1 .. Len(w) - 1
      BY <1>6
    <2>2. \A k \in 1 .. Len(w) : ~w[k].voiced
      BY <1>1, <1>6, <2>1
    <2>3. Len(w) <= PreRoll
      BY <1>6, LimitAssumption
    <2>4. Roll(w, dropped)
      BY <1>6, <2>2, <2>3 DEF Roll
    <2>5. captured \in Seq(Chunks)
      BY <1>3
    <2>6. QED
      BY <1>2, <1>3, <1>6, <2>4, <2>5 DEF SpeechInv
  <1>10. TimeInv'
    <2>1. index < MaxChunks
      BY <1>1 DEF Capture!Take, Capture!Recording
    <2>2. index \in 0 .. MaxChunks
      BY DEF CaptureInv, TimeInv
    <2>3. index' \in 0 .. MaxChunks /\ onset' \in 0 .. index'
      BY <1>2, <2>1, <2>2, LimitAssumption
    <2>4. samples' \in Nat /\ silence' \in 0 .. samples' /\ run' \in 0 .. samples' /\ samples' <= MaxSpeech /\ samples' < MaxSpeech
      BY <1>2, <1>3, LimitAssumption
    <2>5. reason' \in {"start_timeout", ""}
      BY DEF Capture!BeforeSpeech
    <2>6. reason' \in StopReasons
      BY <2>5 DEF StopReasons
    <2>7. captured' = <<>>
      BY <1>2, <1>3
    <2>8. QED
      BY <2>3, <2>4, <2>6, <2>7 DEF TimeInv
  <1>11. GateInv'
    BY <1>2, GateKept DEF CaptureInv
  <1>12. QED
    BY <1>8, <1>9, <1>10, <1>11 DEF CaptureInv

\* The counters of the speech, which ends at a pause or at its limit.
LEMMA SpeechTimes ==
  ASSUME CaptureInv, Capture!Speech
  PROVE  /\ index' = index + 1 /\ samples' = samples + 1 /\ run' \in {0, run + 1} /\ silence' \in 0 .. silence + 1
         /\ (onset = 0 <=> captured = <<>>) /\ samples \in Nat /\ silence \in 0 .. samples /\ run \in 0 .. samples
         /\ TimeInv'
  <1>1. /\ index \in 0 .. MaxChunks /\ onset \in 0 .. index /\ samples \in Nat /\ silence \in 0 .. samples
        /\ run \in 0 .. samples
        /\ captured # <<>> => onset > 0 /\ samples > 0 /\ samples <= index - onset + 1
    BY DEF CaptureInv, TimeInv
  <1>2. captured = <<>> => onset = 0 /\ samples = 0
    BY DEF CaptureInv, SpeechInv
  <1>3. onset = 0 <=> captured = <<>>
    BY <1>1, <1>2
  <1>4. /\ index' = index + 1 /\ samples' = samples + 1 /\ run' \in {0, run + 1}
        /\ silence' \in {0, silence, silence + 1}
        /\ onset' = (IF onset = 0 THEN index + 1 ELSE onset)
        /\ index < MaxChunks
    BY DEF Capture!Speech, Capture!Take, Capture!Recording
  <1>5. silence' \in 0 .. silence + 1
    BY <1>1, <1>4
  <1>6. reason = "" /\ reason' = Capture!Stops(samples', silence', onset')
    BY DEF Capture!Speech, Capture!Take, Capture!Recording
  <1>7. samples < MaxSpeech
    BY <1>6 DEF CaptureInv, TimeInv
  <1>8. reason' \in StopReasons
    BY <1>6 DEF Capture!Stops, StopReasons
  <1>9. reason' = "" => ~(samples' >= MinSpeech /\ silence' >= Capture!SilenceTarget(samples')) /\ ~(index + 1 - onset' + 1 >= MaxSpeech)
    BY <1>6 DEF Capture!Stops
  <1>10. /\ index' \in 0 .. MaxChunks /\ onset' \in 0 .. index' /\ samples' \in Nat /\ silence' \in 0 .. samples'
         /\ run' \in 0 .. samples' /\ onset' > 0 /\ samples' > 0 /\ samples' <= MaxSpeech /\ onset' \in Int
    BY <1>1, <1>4, <1>7, LimitAssumption
  <1>11. samples' <= index' - onset' + 1
    BY <1>1, <1>2, <1>3, <1>4
  <1>12. ~(index + 1 - onset' + 1 >= MaxSpeech) => samples' < MaxSpeech
    BY <1>1, <1>4, <1>10, <1>11, LimitAssumption
  <1>13. ~(samples' >= MinSpeech /\ silence' >= Capture!SilenceTarget(samples')) =>
           (samples' >= MinSpeech => silence' < Capture!SilenceTarget(samples'))
    <2>1. Capture!SilenceTarget(samples') \in Int
      BY <1>10, TargetIsNumber
    <2>2. silence' \in Int
      BY <1>10
    <2>3. QED
      BY <2>1, <2>2
  <1>14. TimeInv'
    <2>1. Capture!SilenceTarget(samples)' = Capture!SilenceTarget(samples')
      BY DEF Capture!SilenceTarget, Capture!Least
    <2>2. QED
      BY <1>8, <1>9, <1>10, <1>11, <1>12, <1>13, <2>1 DEF TimeInv
  <1>15. QED
    BY <1>1, <1>3, <1>4, <1>5, <1>14

\* What one chunk of the speech does to the counters.
SpeechChunk(c) ==
  /\ Capture!Take(c) /\ (onset > 0 \/ c.voiced)
  /\ captured' = (IF onset = 0 THEN Capture!WithPreRoll(c) \o <<c>> ELSE Append(captured, c))
  /\ run' = (IF c.voiced THEN run + 1 ELSE 0)
  /\ silence' = (CASE onset = 0                                  -> 0
                   [] ~c.voiced                                  -> silence + 1
                   [] c.voiced /\ run + 1 >= Capture!VoicedTwice -> 0
                   [] OTHER                                      -> silence)

LEMMA SpeechTakes == Capture!Speech => \E c : SpeechChunk(c)
  BY DEF Capture!Speech, SpeechChunk

\* The first chunk of the speech.
LEMMA OnsetStep ==
  ASSUME CaptureInv, Capture!Speech, onset = 0
  PROVE  DeviceInv' /\ SpeechInv'
  <1>1. PICK c : /\ Capture!Take(c) /\ c.voiced
                 /\ captured' = Capture!WithPreRoll(c) \o <<c>> /\ run' = run + 1 /\ silence' = 0
    <2>1. PICK c : SpeechChunk(c)
      BY SpeechTakes
    <2>2. c.voiced
      BY <2>1 DEF SpeechChunk
    <2>3. QED
      BY <2>1, <2>2 DEF SpeechChunk
  <1>2. pre' = <<>> /\ UNCHANGED <<heard, mic, dropped>>
    BY DEF Capture!Speech
  <1>3. captured = <<>> /\ Roll(pre, dropped) /\ run = 0
    <2>1. captured = <<>>
      BY SpeechTimes
    <2>2. QED
      BY <2>1 DEF CaptureInv, SpeechInv
  <1>4. Taken = LastN(pre)
    BY <1>3 DEF Taken
  <1>5. /\ c \in Chunks /\ LastN(pre) < c.n /\ (LastN(pre) + 1) .. (c.n - 1) \subseteq dropped
        /\ Taken' = c.n => DeviceInv'
    BY <1>1, <1>2, <1>4, ChunkTaken DEF CaptureInv
  <1> PICK D : D = dropped
    OBVIOUS
  <1> PICK w : w = Capture!WithPreRoll(c)
    OBVIOUS
  <1> PICK s : s = captured'
    OBVIOUS
  <1>6. Rolled(w, c, D)
    <2>1. pre \in Seq(Chunks) /\ Roll(pre, D)
      BY <1>3 DEF Roll
    <2>2. w = Capture!LastOf(Append(pre, c), PreRoll)
      BY DEF Capture!WithPreRoll
    <2>3. LastN(pre) < c.n /\ (LastN(pre) + 1) .. (c.n - 1) \subseteq D /\ c \in Chunks
      BY <1>5
    <2>4. QED
      BY <2>1, <2>2, <2>3, Rolling, Zenon
  <1>7. Began(s, w, c, D)
    <2>1. s = w \o <<c>>
      BY <1>1
    <2>2. c \in Chunks /\ c.voiced
      BY <1>1, <1>5
    <2>3. QED
      BY <1>6, <2>1, <2>2, SpeechBegins, Zenon
  <1>8. DeviceInv'
    <2>1. Taken' = c.n
      BY <1>7 DEF Taken, LastN, Began
    <2>2. QED
      BY <1>5, <2>1
  <1>9. SpeechInv'
    <2>1. Cardinality(QuietFrom(s, Len(w))) = 0
      BY <1>7, FS_EmptySet DEF Began
    <2>2. Len(w) \in 1 .. Len(s)
      BY <1>6, <1>7 DEF Rolled, Began
    <2>3. run' > 0
      BY <1>1, <1>3
    <2>4. pre' \in Seq(Chunks)
      BY <1>2
    <2>5. \E f \in 1 .. Len(s), m \in 1 .. Len(s) :
            Onset(s, f, D) /\ LastPair(s, f, m) /\ Cardinality(QuietFrom(s, m)) = silence'
      BY <1>1, <1>7, <2>1, <2>2 DEF Began
    <2>6. QED
      BY <1>1, <1>2, <1>7, <2>3, <2>4, <2>5 DEF SpeechInv, Began
  <1>10. QED
    BY <1>8, <1>9

\* A later chunk of the speech.
LEMMA SpeechStep ==
  ASSUME CaptureInv, Capture!Speech, onset # 0
  PROVE  DeviceInv' /\ SpeechInv'
  <1>1. PICK c : /\ Capture!Take(c) /\ captured' = Append(captured, c)
                 /\ run' = (IF c.voiced THEN run + 1 ELSE 0)
                 /\ silence' = (IF ~c.voiced THEN silence + 1 ELSE IF run + 1 >= 2 THEN 0 ELSE silence)
    <2>1. PICK c : SpeechChunk(c)
      BY SpeechTakes
    <2>2. /\ captured' = Append(captured, c) /\ run' = (IF c.voiced THEN run + 1 ELSE 0)
          /\ silence' = (IF ~c.voiced THEN silence + 1 ELSE IF run + 1 >= 2 THEN 0 ELSE silence)
      BY <2>1 DEF SpeechChunk, Capture!VoicedTwice
    <2>3. Capture!Take(c)
      BY <2>1 DEF SpeechChunk
    <2>4. QED
      BY <2>2, <2>3
  <1>2. pre' = pre /\ UNCHANGED <<heard, mic, dropped>>
    BY DEF Capture!Speech
  <1>3. captured # <<>> /\ run \in Nat /\ silence \in Nat
    BY SpeechTimes
  <1>4. captured \in Seq(Chunks) /\ pre = <<>> /\ (run > 0 <=> captured[Len(captured)].voiced)
    BY <1>3 DEF CaptureInv, SpeechInv
  <1>5. Taken = captured[Len(captured)].n
    BY <1>3 DEF Taken, LastN
  <1>6. /\ c \in Chunks /\ captured[Len(captured)].n < c.n
        /\ (captured[Len(captured)].n + 1) .. (c.n - 1) \subseteq dropped
        /\ Taken' = c.n => DeviceInv'
    BY <1>1, <1>2, <1>5, ChunkTaken DEF CaptureInv
  <1> PICK D : D = dropped
    OBVIOUS
  <1> PICK s : s = captured
    OBVIOUS
  <1> PICK t : t = captured'
    OBVIOUS
  <1>7. PICK f \in 1 .. Len(s), m \in 1 .. Len(s) :
          Onset(s, f, D) /\ LastPair(s, f, m) /\ Cardinality(QuietFrom(s, m)) = silence
    BY <1>3 DEF CaptureInv, SpeechInv
  <1>8. /\ t \in Seq(Chunks) /\ Len(t) = Len(s) + 1 /\ t # <<>> /\ t[Len(t)] = c /\ Onset(t, f, D)
        /\ c.voiced /\ s[Len(s)].voiced => LastPair(t, f, Len(t)) /\ QuietFrom(t, Len(t)) = {}
        /\ c.voiced /\ ~s[Len(s)].voiced => LastPair(t, f, m) /\ QuietFrom(t, m) = QuietFrom(s, m)
        /\ ~c.voiced => /\ LastPair(t, f, m) /\ QuietFrom(t, m) = QuietFrom(s, m) \cup {Len(t)}
                        /\ Len(t) \notin QuietFrom(s, m)
    <2>1. t = Append(s, c) /\ s \in Seq(Chunks) /\ s # <<>>
      BY <1>1, <1>3, <1>4
    <2>2. s[Len(s)].n < c.n /\ (s[Len(s)].n + 1) .. (c.n - 1) \subseteq D
      BY <1>6
    <2>3. Onset(s, f, D) /\ LastPair(s, f, m) /\ c \in Chunks
      BY <1>6, <1>7
    <2>4. GoesOn(s, c, t, f, m, D)
      BY <1>7, <2>1, <2>2, <2>3, SpeechGoesOn, Zenon
    <2>5. QED
      BY <2>4 DEF GoesOn
  <1>9. DeviceInv'
    <2>1. Taken' = c.n
      BY <1>8 DEF Taken, LastN
    <2>2. QED
      BY <1>6, <2>1
  <1>10. Len(s) \in Nat /\ f \in 1 .. Len(t) /\ m \in 1 .. Len(t) /\ Len(t) \in 1 .. Len(t)
    <2>1. Len(s) \in Nat
      BY <1>4, LenProperties
    <2>2. QED
      BY <1>7, <1>8, <2>1
  <1>11. c.voiced \in BOOLEAN /\ s[Len(s)].voiced \in BOOLEAN
    <2>1. Len(s) \in 1 .. Len(s)
      BY <1>7, <1>10
    <2>2. QED
      BY <1>4, <1>6, <2>1, ChunksAre DEF Chunks
  <1>12. \E k \in 1 .. Len(t) : Onset(t, f, D) /\ LastPair(t, f, k) /\ Cardinality(QuietFrom(t, k)) = silence'
    <2>1. CASE c.voiced /\ s[Len(s)].voiced
      <3>1. silence' = 0
        BY <1>1, <1>3, <1>4, <2>1
      <3>2. Cardinality(QuietFrom(t, Len(t))) = 0
        BY <1>8, <2>1, FS_EmptySet
      <3>3. QED
        BY <1>8, <1>10, <2>1, <3>1, <3>2
    <2>2. CASE c.voiced /\ ~s[Len(s)].voiced
      <3>1. silence' = silence
        BY <1>1, <1>3, <1>4, <2>2
      <3>2. QED
        BY <1>7, <1>8, <1>10, <2>2, <3>1
    <2>3. CASE ~c.voiced
      <3>1. silence' = silence + 1
        BY <1>1, <2>3
      <3>2. IsFiniteSet(QuietFrom(s, m))
        <4>1. IsFiniteSet(m + 1 .. Len(s))
          BY <1>7, <1>10, FS_Interval
        <4>2. QuietFrom(s, m) \subseteq m + 1 .. Len(s)
          BY DEF QuietFrom
        <4>3. QED
          BY <4>1, <4>2, FS_Subset
      <3>3. Cardinality(QuietFrom(t, m)) = silence + 1
        <4>1. QuietFrom(t, m) = QuietFrom(s, m) \cup {Len(t)} /\ Len(t) \notin QuietFrom(s, m)
          BY <1>8, <2>3
        <4>2. QED
          BY <1>7, <3>2, <4>1, FS_AddElement
      <3>4. QED
        BY <1>8, <1>10, <2>3, <3>1, <3>3
    <2>4. QED
      BY <1>11, <2>1, <2>2, <2>3
  <1>13. run' > 0 <=> c.voiced
    BY <1>1, <1>3
  <1>14. SpeechInv'
    <2>1. pre' = <<>> /\ pre' \in Seq(Chunks)
      BY <1>2, <1>4
    <2>2. \E a \in 1 .. Len(t), b \in 1 .. Len(t) :
            Onset(t, a, D) /\ LastPair(t, a, b) /\ Cardinality(QuietFrom(t, b)) = silence'
      BY <1>10, <1>12
    <2>3. QED
      BY <1>2, <1>8, <1>13, <2>1, <2>2 DEF SpeechInv
  <1>15. QED
    BY <1>9, <1>14

\* A step of the recording keeps all of this.
LEMMA CaptureSteps ==
  ASSUME CaptureInv, [Capture!Next]_captureVars
  PROVE  CaptureInv'
  <1>1. CASE UNCHANGED captureVars
    <2>1. UNCHANGED <<Capture!device, Capture!counters, Capture!partials, dropped, index, reason>>
      BY <1>1 DEF captureVars, Capture!device, Capture!counters, Capture!partials
    <2>2. DeviceInv' /\ SpeechInv'
      BY <2>1, RecordKept DEF CaptureInv
    <2>3. GateInv'
      BY <2>1, GateKept DEF CaptureInv
    <2>4. TimeInv'
      BY <2>1 DEF CaptureInv, TimeInv, Capture!counters, Capture!SilenceTarget, Capture!Least
    <2>5. QED
      BY <2>2, <2>3, <2>4 DEF CaptureInv
  <1>2. CASE Capture!Speech
    <2>1. DeviceInv' /\ SpeechInv'
      BY <1>2, OnsetStep, SpeechStep
    <2>2. TimeInv'
      BY <1>2, SpeechTimes
    <2>3. UNCHANGED Capture!partials
      BY <1>2 DEF Capture!Speech
    <2>4. GateInv'
      BY <2>3, GateKept DEF CaptureInv
    <2>5. QED
      BY <2>1, <2>2, <2>4 DEF CaptureInv
  <1>3. QED
    BY <1>1, <1>2, DeviceSteps, PartialSteps, WaitingSteps, BeforeSpeechSteps DEF Capture!Next, Capture!Loop

\* What the invariant promises of a recording.
LEMMA CapturePromise ==
  CaptureInv => /\ Capture!TypeOK /\ Capture!NothingLost /\ Capture!OnsetKept /\ Capture!PauseEnds
                /\ Capture!ArabicConfirmed
  <1> SUFFICES ASSUME CaptureInv
               PROVE  /\ Capture!TypeOK /\ Capture!NothingLost /\ Capture!OnsetKept /\ Capture!PauseEnds
                      /\ Capture!ArabicConfirmed
    OBVIOUS
  <1>1. Capture!TypeOK
    <2>1. heard \in 0 .. MaxHeard /\ Len(mic) <= 1 /\ Len(queue) <= QueueSize
      BY DEF CaptureInv, DeviceInv
    <2>2. index \in 0 .. MaxChunks /\ onset \in 0 .. index /\ samples \in Nat /\ samples <= MaxSpeech
          /\ silence \in 0 .. samples /\ run \in 0 .. samples
      BY DEF CaptureInv, TimeInv
    <2>3. onset \in 0 .. MaxChunks /\ samples \in 0 .. MaxSpeech
      BY <2>2, LimitAssumption
    <2>4. Len(pre) <= PreRoll
      <3>1. pre = <<>> => Len(pre) <= PreRoll
        BY LimitAssumption
      <3>2. QED
        BY <3>1 DEF CaptureInv, SpeechInv, Roll
    <2>5. /\ window.pc \in {"none", "submitted", "listening", "over"} /\ window.last \in Partials
          /\ gate.count \in 0 .. 2 /\ gate.text \in Partials /\ emitted \subseteq Partials
      BY DEF CaptureInv, GateInv
    <2>6. reason \in {"", "max_duration", "start_timeout", "silence", "max_speech_cap", "max_chunks"}
      BY DEF CaptureInv, TimeInv, StopReasons
    <2>7. QED
      BY <2>1, <2>2, <2>3, <2>4, <2>5, <2>6 DEF Capture!TypeOK
  <1>2. CASE captured = <<>>
    <2>1. Len(captured) = 0
      BY <1>2
    <2>2. Capture!NothingLost
      BY <2>1 DEF Capture!NothingLost
    <2>3. Capture!OnsetKept /\ Capture!PauseEnds
      BY <1>2 DEF Capture!OnsetKept, Capture!PauseEnds
    <2>4. QED
      BY <1>1, <2>2, <2>3 DEF CaptureInv, GateInv
  <1>3. CASE captured # <<>>
    <2>1. PICK f \in 1 .. Len(captured), m \in 1 .. Len(captured) :
            Onset(captured, f, dropped) /\ LastPair(captured, f, m) /\ Cardinality(QuietFrom(captured, m)) = silence
      BY <1>3 DEF CaptureInv, SpeechInv
    <2>2. Capture!FirstVoiced = f
      <3>1. FirstOf(captured, f)
        BY <2>1 DEF Onset
      <3>2. ASSUME NEW k \in 1 .. Len(captured), captured[k].voiced, \A i \in 1 .. k - 1 : ~captured[i].voiced
            PROVE  k = f
        <4>1. f \in 1 .. k - 1 \/ k \in 1 .. f - 1 \/ k = f
          OBVIOUS
        <4>2. QED
          BY <3>1, <3>2, <4>1 DEF FirstOf
      <3>3. QED
        BY <3>1, <3>2 DEF Capture!FirstVoiced, FirstOf
    <2>3. Capture!NothingLost
      <3>1. \A k \in 2 .. Len(captured) : Gap(captured, k, dropped) \/ (k = f + 1 /\ captured[k - 1].n = captured[k].n)
        BY <2>1 DEF Onset
      <3>2. QED
        BY <2>2, <3>1 DEF Capture!NothingLost, Gap
    <2>4. Capture!OnsetKept
      BY <2>1, <2>2 DEF Capture!OnsetKept, Onset
    <2>5. Capture!Pause = QuietFrom(captured, m)
      <3> DEFINE last == {k \in 1 .. Len(captured) : PairOf(captured, f, k)} \cup {f}
      <3>1. m \in last /\ \A i \in last : i <= m
        BY <2>1 DEF LastPair
      <3>2. ASSUME NEW k \in last, \A i \in last : i <= k PROVE k = m
        <4>1. k <= m /\ m <= k /\ k \in Int /\ m \in Int
          BY <3>1, <3>2
        <4>2. QED
          BY <4>1
      <3>3. (CHOOSE k \in last : \A i \in last : i <= k) = m
        <4> HIDE DEF last
        <4>1. QED
          BY <3>1, <3>2
      <3>4. Capture!Pause = {k \in (CHOOSE k \in last : \A i \in last : i <= k) + 1 .. Len(captured) : ~captured[k].voiced}
        BY <2>2 DEF Capture!Pause, PairOf
      <3>5. QED
        BY <3>3, <3>4 DEF QuietFrom
    <2>6. Capture!PauseEnds
      <3>1. Capture!Cardinality(Capture!Pause) = silence
        BY <2>1, <2>5, CaptureCount
      <3>2. reason = "" /\ samples >= MinSpeech => silence < Capture!SilenceTarget(samples)
        BY <1>3 DEF CaptureInv, TimeInv
      <3>3. QED
        BY <3>1, <3>2 DEF Capture!PauseEnds
    <2>7. QED
      BY <1>1, <2>3, <2>4, <2>6 DEF CaptureInv, GateInv
  <1>4. QED
    BY <1>2, <1>3

-----------------------------------------------------------------------------
(* The turn.                                                               *)

\* A step of the turn is one of the part that is played, and the others wait.
LEMMA TurnSteps ==
  [Next]_vars => /\ [Early!Next]_earlyVars /\ [Capture!Next]_captureVars /\ [Transcriber!Next]_(Transcriber!trVars)
                 /\ [Answer!Next]_laVars /\ [Lookup!Next]_(Lookup!llVars)
  BY DEF Next, vars, OfEarly, OfCapture, OfTranscriber, OfAnswer, OfLookup, trVars, llVars,
         Transcriber!trVars, Transcriber!settings, Lookup!llVars

\* A command heard in a partial transcript is handled once, whichever of the three threads comes
\* first, and its early answer is the one that is spoken (orchestrator.py, early execution),
\* for any commands and number of windows, passes of the pipeline and runs.
THEOREM EarlyHandledOnce == Spec => []EarlyIsHandledOnce
  <1>1. Init => EarlyInv
    BY EarlyBegins DEF Init
  <1>2. EarlyInv /\ [Next]_vars => EarlyInv'
    BY TurnSteps, EarlySteps
  <1>3. EarlyInv => EarlyIsHandledOnce
    BY EarlyPromise DEF EarlyIsHandledOnce
  <1>4. QED
    BY <1>1, <1>2, <1>3, PTL DEF Spec

\* Whatever callback and recording loop do at the same time, between two recorded chunks only what
\* the full queue dropped is missing, the onset has its pre-roll, the recording stops at the
\* pause it waits for, and Arabic text is given on when it was heard twice (streaming_stt.py).
THEOREM RecordingWhole == Spec => []RecordingIsWhole
  <1>1. Init => CaptureInv
    BY CaptureBegins DEF Init
  <1>2. CaptureInv /\ [Next]_vars => CaptureInv'
    BY TurnSteps, CaptureSteps
  <1>3. CaptureInv => RecordingIsWhole
    BY CapturePromise DEF RecordingIsWhole
  <1>4. QED
    BY <1>1, <1>2, <1>3, PTL DEF Spec

\* A text comes as ok and nothing else does; a local one above the floor of confidence is of the
\* language it is said to be in; and a recording asked to be English never leaves the machine
\* when the local engine serves English (stt.py), for any number of transcriptions.
THEOREM TranscriptChecked == Spec => []TranscriptIsChecked
  <1>1. Init => TranscriptInv
    BY TranscriptBegins DEF Init, Transcriber!Init
  <1>2. TranscriptInv /\ [Next]_vars => TranscriptInv'
    BY TurnSteps, TranscriptSteps
  <1>3. TranscriptInv => TranscriptIsChecked
    BY TranscriptPromise DEF TranscriptIsChecked
  <1>4. QED
    BY <1>1, <1>2, <1>3, PTL DEF Spec

\* Nothing of the model's reasoning is said, what is said is what is returned and cached, and an
\* answer rests on what was looked up in its own turn (ollama_client.py, live_data.py), for any
\* number of models, questions and turns, each of the replies of MCTurn.
THEOREM AnswerSpoken == Spec => []AnswerIsSpoken
  <1>1. Init => AnswerInv /\ LookupInv
    BY AnswerBegins, LookupBegins DEF Init, Answer!Init
  <1>2. AnswerInv /\ LookupInv /\ [Next]_vars => AnswerInv' /\ LookupInv'
    BY TurnSteps, AnswerSteps, LookupSteps
  <1>3. AnswerInv /\ LookupInv => AnswerIsSpoken
    BY AnswerPromise, LookupPromise DEF AnswerIsSpoken
  <1>4. QED
    BY <1>1, <1>2, <1>3, PTL DEF Spec
=============================================================================
