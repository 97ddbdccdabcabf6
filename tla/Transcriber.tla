----------------------------- MODULE Transcriber -----------------------------
(***************************************************************************)
(* From a recording to a text (audio/stt.py): the chain of backends, the    *)
(* cooldown of the cloud, the language a recording is locked to, one more   *)
(* decoding in the other language, the floor of confidence, and the status  *)
(* under which the result is handed on.  A text is its script and whether   *)
(* it is short and of low confidence; what is decoded from a recording is   *)
(* open, for a model forced into a language makes one up.                   *)
(***************************************************************************)
EXTENDS Naturals, FiniteSets

CONSTANTS
  Locks,     \* STT_LANGUAGE_LOCK: a set of BOOLEANs
  Retries,   \* STT_RETRY_OPPOSITE_LANGUAGE
  Nets,      \* STT_CLOUD_FAILURE_FALLBACK_TO_LOCAL
  Engines,   \* STT_ENGLISH_ENGINE is faster_whisper
  MaxCalls   \* a bound on the recordings

VARIABLES
  lock, retry, net, whisper,
  hint,      \* the language asked for
  at,        \* "idle", "chain", "cloud", "pick", "decode", "checked", "again" or "final"
  chain,     \* the backends left: "cloud" before "local"
  failed,    \* errors of the backends that raised
  locked,    \* the language of this decoding, or "none"
  result,    \* [text, errors, valid, backend, lang]
  status,    \* what _finalize_stt_result calls it
  resting,   \* _ELEVENLABS_COOLDOWN_UNTIL is ahead
  sentOut,   \* the recording went to the cloud
  decodes,   \* local decodings of this recording
  shutdown, calls

trVars == <<lock, retry, net, whisper, hint, at, chain, failed, locked, result, status,
            resting, sentOut, decodes, shutdown, calls>>
settings == <<lock, retry, net, whisper>>

Languages == {"ar", "en"}
Scripts   == {"ar", "en", "mixed", "other"}
NoText    == [script |-> "none", low |-> FALSE]
Texts     == [script : Scripts, low : BOOLEAN]

\* A result as a backend makes it; without a verdict a text is valid.
Result(t, e, b, l) == [text |-> t, errors |-> e, valid |-> t # NoText, backend |-> b, lang |-> l]
Invalid(l) == [Result(NoText, {"invalid_language"}, "local", l) EXCEPT !.valid = FALSE]
Silence(l) == Result(NoText, {"silence"}, "local", l)
Shut       == Result(NoText, {"shutdown"}, "local", "none")
Nothing    == Result(NoText, {}, "none", "none")

Opposite(l) == IF l = "ar" THEN "en" ELSE "ar"

\* _validate_transcript_language: the script asked for, or both in one text.
Valid(t, l) == t.script \in {l, "mixed"}

Init ==
  /\ lock \in Locks /\ retry \in Retries /\ net \in Nets /\ whisper \in Engines
  /\ hint = "auto" /\ at = "idle" /\ chain = {} /\ failed = {} /\ locked = "none"
  /\ result = Nothing /\ status = "none" /\ resting = FALSE /\ sentOut = FALSE
  /\ decodes = 0 /\ shutdown = FALSE /\ calls = 0

\* transcribe_streaming_with_meta: English has the local model only.
Chain(h) ==
  IF h = "en" /\ whisper THEN {"local"} ELSE {"cloud"} \cup (IF net THEN {"local"} ELSE {})

Transcribe(h) ==
  /\ at = "idle" /\ calls < MaxCalls
  /\ calls' = calls + 1 /\ hint' = h /\ chain' = Chain(h) /\ at' = "chain"
  /\ failed' = {} /\ locked' = "none" /\ result' = Nothing /\ status' = "none"
  /\ sentOut' = FALSE /\ decodes' = 0
  /\ UNCHANGED <<settings, resting, shutdown>>

\* The next backend, or none is left; a shutdown ends the chain.
NextBackend ==
  /\ at = "chain"
  /\ IF shutdown
     THEN result' = [Shut EXCEPT !.backend = "none"] /\ at' = "final" /\ UNCHANGED chain
     ELSE IF chain = {}
     THEN result' = Result(NoText, {}, "none", hint) /\ at' = "final" /\ UNCHANGED chain
     ELSE /\ at' = IF "cloud" \in chain THEN "cloud" ELSE "pick"
          /\ chain' = IF "cloud" \in chain THEN chain \ {"cloud"} ELSE {}
          /\ UNCHANGED result
  /\ UNCHANGED <<settings, hint, failed, locked, status, resting, sentOut, decodes, shutdown, calls>>

-----------------------------------------------------------------------------
(* The cloud, one request.                                                 *)

\* The cooldown, a missing key, a recording too long: nothing is sent.  A shutdown is a result
\* if it is seen at once, and an error if it is seen a little later.
CloudRefuses ==
  /\ at = "cloud"
  /\ \/ failed' = failed \cup {"cloud"} /\ at' = "chain" /\ UNCHANGED result
     \/ shutdown /\ result' = Shut /\ at' = "final" /\ UNCHANGED failed
  /\ UNCHANGED <<settings, hint, chain, locked, status, resting, sentOut, decodes, shutdown, calls>>

\* No quota begins a cooldown; every error is raised.
CloudFails ==
  /\ at = "cloud" /\ ~resting /\ ~shutdown
  /\ sentOut' = TRUE /\ resting' \in BOOLEAN
  /\ failed' = failed \cup {"cloud"} /\ at' = "chain"
  /\ UNCHANGED <<settings, hint, chain, locked, result, status, decodes, shutdown, calls>>

\* The text is taken as it is, in whatever language; its missing confidence is a zero.
CloudAnswers ==
  /\ at = "cloud" /\ ~resting /\ ~shutdown
  /\ sentOut' = TRUE
  /\ \E t \in Texts \cup {NoText} : result' = Result(t, {}, "cloud", hint)
  /\ at' = "final"
  /\ UNCHANGED <<settings, hint, chain, failed, locked, status, resting, decodes, shutdown, calls>>

CooldownEnds ==
  /\ resting /\ at = "idle" /\ resting' = FALSE
  /\ UNCHANGED <<settings, hint, at, chain, failed, locked, result, status, sentOut, decodes, shutdown, calls>>

-----------------------------------------------------------------------------
(* The local model.                                                        *)

\* _pick_locked_language: the script of the streamed text, the hint, or a probe of the first
\* second; English if nothing tells.
Pick ==
  /\ at = "pick"
  /\ IF shutdown THEN at' = "final" /\ result' = Shut /\ UNCHANGED locked
     ELSE /\ at' = "decode" /\ UNCHANGED result
          /\ locked' \in IF lock THEN Languages ELSE IF hint \in Languages THEN {hint} ELSE {"none"}
  /\ UNCHANGED <<settings, hint, chain, failed, status, resting, sentOut, decodes, shutdown, calls>>

\* _transcribe_with_faster_whisper_model: too quiet or nobody speaks, or decoding that looks
\* made up, or a text.
Decoded(l) ==
  IF shutdown THEN {Shut}
  ELSE {Silence(l), Result(NoText, {"guard"}, "local", l)} \cup {Result(t, {}, "local", l) : t \in Texts}

Decode ==
  /\ at = "decode"
  /\ \E r \in Decoded(locked) :
       /\ result' = r
       /\ at' = IF "silence" \in r.errors \/ ~lock THEN "final" ELSE "checked"
  /\ decodes' = decodes + 1
  /\ UNCHANGED <<settings, hint, chain, failed, locked, status, resting, sentOut, shutdown, calls>>

\* A model that cannot be loaded or a file that cannot be read.
DecodeRaises ==
  /\ at \in {"pick", "decode", "again"}
  /\ failed' = failed \cup {"local"} /\ at' = "chain" /\ result' = Nothing
  /\ UNCHANGED <<settings, hint, chain, locked, status, resting, sentOut, decodes, shutdown, calls>>

\* Deviation: the first decoding is believed when the second is not to be tried.
CheckLenient ==
  /\ at = "checked"
  /\ IF Valid(result.text, locked) \/ result.text.low \/ ~retry
     THEN at' = "final" /\ UNCHANGED result
     ELSE IF result.text # NoText /\ ~shutdown
     THEN at' = "again" /\ UNCHANGED result
     ELSE at' = "final" /\ result' = Invalid(locked)
  /\ UNCHANGED <<settings, hint, chain, failed, locked, status, resting, sentOut, decodes, shutdown, calls>>

\* _validated_backend_result of the first decoding.  Below the floor it makes a silence, which
\* is not None, and the caller goes on with the result it had.
Check ==
  /\ at = "checked"
  /\ IF Valid(result.text, locked) \/ result.text.low
     THEN at' = "final" /\ UNCHANGED result
     ELSE IF retry /\ result.text # NoText /\ ~shutdown
     THEN at' = "again" /\ UNCHANGED result
     ELSE at' = "final" /\ result' = Invalid(locked)
  /\ UNCHANGED <<settings, hint, chain, failed, locked, status, resting, sentOut, decodes, shutdown, calls>>

\* The second decoding's verdict.
CheckedAgain(r, l) ==
  IF r.text.low THEN Silence(l) ELSE IF Valid(r.text, l) THEN r ELSE Invalid(locked)

DecodeAgain ==
  /\ at = "again" /\ at' = "final"
  /\ LET l == Opposite(locked)
     IN  \E r \in Decoded(l) : result' = CheckedAgain(r, l)
  /\ decodes' = decodes + 1
  /\ UNCHANGED <<settings, hint, chain, failed, locked, status, resting, sentOut, shutdown, calls>>

-----------------------------------------------------------------------------
\* _finalize_stt_result; the errors of backends that failed before take the place of the
\* result's own, except when the chain ended without one.
Errors == IF failed = {} THEN result.errors
          ELSE IF result.backend = "none" THEN failed \cup result.errors ELSE failed

Status ==
  IF "silence" \in Errors THEN "silence"
  ELSE IF Errors # {} /\ result.text = NoText
  THEN IF "invalid_language" \in Errors THEN "rejected" ELSE "error"
  ELSE IF result.text # NoText THEN IF result.valid THEN "ok" ELSE "rejected"
  ELSE "error"

Finalize ==
  /\ at = "final" /\ at' = "idle" /\ status' = Status
  /\ UNCHANGED <<settings, hint, chain, failed, locked, result, resting, sentOut, decodes, shutdown, calls>>

RequestShutdown ==
  /\ ~shutdown /\ shutdown' = TRUE
  /\ UNCHANGED <<settings, hint, at, chain, failed, locked, result, status, resting, sentOut, decodes, calls>>

CallStep ==
  \/ NextBackend \/ CloudRefuses \/ CloudFails \/ CloudAnswers \/ Pick \/ Decode \/ DecodeRaises
  \/ Check \/ DecodeAgain \/ Finalize

Next == (\E h \in {"auto", "ar", "en"} : Transcribe(h)) \/ CallStep \/ CooldownEnds \/ RequestShutdown

Spec == Init /\ [][Next]_trVars /\ WF_trVars(CallStep)

-----------------------------------------------------------------------------
\* The result and its status have their types.
TypeOK ==
  /\ at \in {"idle", "chain", "cloud", "pick", "decode", "checked", "again", "final"}
  /\ chain \subseteq {"cloud", "local"} /\ failed \subseteq {"cloud", "local"}
  /\ locked \in Languages \cup {"none"} /\ result.text \in Texts \cup {NoText}
  /\ status \in {"none", "ok", "rejected", "silence", "error"} /\ decodes \in 0 .. 2

\* A text handed on and called ok is one of the language it is said to be in, over both
\* decodings and fallbacks; texts below the floor of confidence and the cloud's are not checked.
OkIsChecked ==
  at = "idle" /\ status = "ok" /\ result.backend = "local" /\ lock /\ ~result.text.low
  => result.text.script \in {result.lang, "mixed"}

\* A recording asked to be English never leaves the machine when the local engine serves
\* English, whatever fails.
EnglishStaysHere == hint = "en" /\ whisper => ~sentOut

\* A text comes with the status "ok" and nothing else does, however many backends failed before.
TextIsOk == at = "idle" /\ status # "none" => (result.text # NoText <=> status = "ok")

\* Every recording gets its result, whatever fails and when the shutdown comes.
TranscriptionEnds == at = "chain" ~> at = "idle"

\* Not so in this code, see README section 4.
\* _below_confidence_floor: "Short, low-confidence transcripts are more likely noise than real
\* speech - treat them as silence rather than risking a bogus command."
FloorIsSilence ==
  at = "idle" /\ result.backend = "local" /\ lock /\ result.text.low => status # "ok"
=============================================================================
