---------------------------- MODULE Understanding ---------------------------
(***************************************************************************)
(* How route_command() of core/command_router.py finds out what a text      *)
(* means: the parser's reading, then one tier after the other (nlp/, the    *)
(* language model's tools, llm/structured_nlu.py) until one of them claims   *)
(* the text; then the missing arguments (nlp/nlu.py) and the confidence     *)
(* (core/intent_confidence.py).  What a tier makes of the words is a choice, *)
(* what becomes of it is not.  Two things change underneath: the semantic   *)
(* router is loaded by a background thread and the runtime model changes    *)
(* its tier.  Confidences are hundredths.                                   *)
(***************************************************************************)
EXTENDS Naturals, FiniteSets

CONSTANTS
  Texts,          \* what of a text the tiers look at, see Features
  Readings,       \* what a tier can make of a text, see Reading
  Structured,     \* STRUCTURED_LLM_NLU_ENABLED
  MaxShifts,      \* a bound on the changes of the model's tier
  None

\* explains: asks for advice or an explanation, and so informs; informs: asks for information,
\* also news and prices; opener: begins like a question; steps: six words, or more than three with "and";
\* verbs: the kinds of action words in it; mixed: two scripts; brief: three words or fewer.
Features == [explains : BOOLEAN, informs : BOOLEAN, opener : BOOLEAN, steps : BOOLEAN,
             verbs : 0 .. 2, mixed : BOOLEAN, brief : BOOLEAN]
\* The intents, their actions and arguments that what follows tells apart.
Intents   == {"LLM_QUERY", "OS_APP_OPEN", "OS_APP_CLOSE", "OS_FILE_SEARCH", "OS_SYSTEM_COMMAND",
              "OS_FILE_NAVIGATION", "OS_TIMER", "OS_EMAIL", "unknown"}
Actions   == {"", "volume_up", "shutdown", "browser_search_web", "list_directory", "delete_item",
              "set", "cancel"}
Arguments == {"app_name", "filename", "action_key", "path", "seconds"}
\* given: the arguments found; score: how sure the least sure of them is.
Reading   == [intent : Intents, action : Actions, given : SUBSET Arguments, score : 0 .. 100]

VARIABLES
  index,      \* the semantic router: "none", "built", "loaded", "ready" or "failed"
  tier,       \* get_runtime_model_tier
  shifts,
  at,         \* the tier that looks at the text
  text,
  candidate,  \* the parser's reading
  parsed,     \* the reading that a tier has claimed, or None
  source,     \* that tier
  near,       \* the two best intents of the semantic router, if it cannot tell them apart
  calls,      \* the calls of the language model made to understand the text
  checked,    \* the assessment the fast path has made, or None
  result

unVars == <<index, tier, shifts, at, text, candidate, parsed, source, near, calls, checked, result>>

Query == [intent |-> "LLM_QUERY", action |-> "", given |-> {}, score |-> 100]
IsQuery(r) == r.intent = "LLM_QUERY"

Init ==
  /\ index = "none" /\ tier \in {"low", "medium"} /\ shifts = 0
  /\ at = "parse" /\ text \in Texts /\ candidate = Query /\ parsed = None /\ source = "none"
  /\ near = FALSE /\ calls = 0 /\ checked = None /\ result = "none"

Goes(place) == at' = place
Claims(r, who) == parsed' = r /\ source' = who
Ends(r) == result' = r /\ at' = "done"
world == <<index, tier, shifts>>

-----------------------------------------------------------------------------
(* The confidence in a reading.                                            *)

Smaller(a, b) == IF a < b THEN a ELSE b
Larger(a, b)  == IF a > b THEN a ELSE b
Less(a, b)    == IF a > b THEN a - b ELSE 0

\* _compute_entity_scores gives a score to the arguments of these intents only.
Scored == {"OS_APP_OPEN", "OS_APP_CLOSE", "OS_FILE_SEARCH", "OS_SYSTEM_COMMAND"}
ScoresNavigation(r) == r.intent = "OS_FILE_NAVIGATION" /\ r.action # ""
IsScored(r) == r.intent \in Scored \/ ScoresNavigation(r)
Score(r)    == IF IsScored(r) THEN r.score ELSE 100

\* The confidence of an intent when its pattern brings none.
Base(r) ==
  CASE r.intent = "OS_FILE_NAVIGATION" /\ r.action = "delete_item"    -> 90
    [] r.intent = "OS_FILE_NAVIGATION" /\ r.action = "list_directory" -> 78
    [] r.intent = "OS_FILE_NAVIGATION" /\ r.action \notin {"delete_item", "list_directory"} -> 85
    [] r.intent \in {"OS_APP_OPEN", "OS_APP_CLOSE"} -> 80
    [] r.intent = "OS_SYSTEM_COMMAND" -> 88
    [] r.intent = "OS_FILE_SEARCH"    -> 86
    [] OTHER -> 82

\* A question and a mixed script make a command less likely, a weak argument limits it.
QuestionPenalty == {"OS_SYSTEM_COMMAND", "OS_APP_OPEN", "OS_APP_CLOSE"}
Confidence(t, r) ==
  LET mixed == Less(Base(r), IF t.mixed THEN 8 ELSE 0)
      asked == Less(mixed, IF t.opener /\ r.intent \in QuestionPenalty THEN 30 ELSE 0)
  IN Smaller(asked, Larger(40, Score(r) + 10))

\* ENTITY_CLARIFICATION_THRESHOLD_BY_INTENT, for English.
Threshold(t, r) ==
  LET bonus == IF t.mixed THEN 3 ELSE 0 IN
  CASE r.intent = "OS_APP_OPEN"       -> 58 + bonus
    [] r.intent = "OS_APP_CLOSE"      -> 60 + bonus
    [] r.intent = "OS_FILE_SEARCH"    -> 56 + bonus
    [] r.intent = "OS_SYSTEM_COMMAND" -> 55 + bonus
    [] r.intent = "OS_FILE_NAVIGATION" /\ r.action = "list_directory" /\ "path" \notin r.given -> 0
    [] r.intent = "OS_FILE_NAVIGATION" /\ ~(r.action = "list_directory" /\ "path" \notin r.given) -> 56 + bonus
    [] OTHER -> 0
Weak(t, r) == IsScored(r) /\ Score(r) < Threshold(t, r)

\* assess_intent_confidence.  Two programs fit the name at 45; fs: the name to open is a
\* plain one that could be a program or a folder.
Assess(t, r, fs) ==
  [confidence |-> IF IsQuery(r) THEN 36 ELSE Confidence(t, r),
   asks |-> IF IsQuery(r) THEN t.verbs > 0 \/ (t.brief /\ ~t.opener)
            ELSE \/ t.verbs > 1
                 \/ r.intent = "OS_APP_OPEN" /\ "app_name" \in r.given /\ (Score(r) = 45 \/ fs)
                 \/ r.action = "list_directory" /\ "path" \in r.given /\ fs
                 \/ Weak(t, r)]

-----------------------------------------------------------------------------
(* Another thread.                                                         *)

\* _ensure_loaded: the index, the mark that it is loaded, the mark that it is ready.
Load ==
  /\ index \in {"none", "built", "loaded"}
  /\ index' \in CASE index = "none"   -> {"built", "failed"}
                  [] index = "built"  -> {"loaded"}
                  [] index = "loaded" -> {"ready"}
  /\ UNCHANGED <<tier, shifts, at, text, candidate, parsed, source, near, calls, checked, result>>

\* A smaller or a larger model is chosen while a text is being looked at.
ShiftTier ==
  /\ shifts < MaxShifts /\ shifts' = shifts + 1
  /\ tier' \in {"low", "medium"} \ {tier}
  /\ UNCHANGED <<index, at, text, candidate, parsed, source, near, calls, checked, result>>

-----------------------------------------------------------------------------
(* The tiers.                                                              *)

\* parse_command; an explanatory question is a query whatever the parser says.  A query that
\* is a sum is answered by the calculator.
Candidate(r) == IF text.explains THEN Query ELSE r
Parse ==
  /\ at = "parse"
  /\ \E r \in Readings \cup {Query} : candidate' = Candidate(r)
  /\ \/ IsQuery(candidate') /\ Ends("sum")
     \/ Goes(IF text.explains THEN "keep" ELSE "fast") /\ UNCHANGED result
  /\ UNCHANGED <<world, text, parsed, source, near, calls, checked>>

\* _select_parser_fastpath_assessment: the parser's own reading, if it is sure or if it is
\* clear what to ask.  The gate is the floor, which every threshold of a family exceeds.
Unquick == {"LLM_QUERY", "OS_EMAIL"}
Gate == 55
FastPath ==
  /\ at = "fast"
  /\ \E fs \in BOOLEAN :
       LET a == Assess(text, candidate, fs) IN
       IF candidate.intent \notin Unquick /\ (a.asks \/ a.confidence >= Gate)
       THEN Claims(candidate, "parser") /\ checked' = a
       ELSE UNCHANGED <<parsed, source, checked>>
  /\ Goes("switch")
  /\ UNCHANGED <<world, text, candidate, near, calls, result>>

Unclaimed == parsed = None /\ IsQuery(candidate)

\* try_codeswitch: a setting by its words, a verb and what it is applied to; a file to delete
\* or to move must be found exactly once.
Switchable == {r \in Readings : r.given # {} /\ r.intent \in
                 {"OS_SYSTEM_COMMAND", "OS_APP_OPEN", "OS_APP_CLOSE", "OS_FILE_NAVIGATION"}}
CodeSwitch ==
  /\ at = "switch"
  /\ IF Unclaimed
     THEN \/ \E r \in Switchable : Claims(r, "switch")
          \/ UNCHANGED <<parsed, source>>
     ELSE UNCHANGED <<parsed, source>>
  /\ Goes("semantic")
  /\ UNCHANGED <<world, text, candidate, near, calls, checked, result>>

\* What the router makes of an intent alone: the parser, asked again, knows no argument; an
\* application may be found by its alias.
Bare(r) == r.given = {} /\ r.action = ""
ByAlias(r) == r.intent \in {"OS_APP_OPEN", "OS_APP_CLOSE"} /\ r.given = {"app_name"}
Routed == {r \in Readings : Bare(r) \/ ByAlias(r)}

\* classify_semantic_topk: sure of one intent, sure but not able to tell two apart, unsure.
Semantic ==
  /\ at = "semantic"
  /\ IF Unclaimed /\ index = "ready"
     THEN \/ \E r \in Routed : Claims(r, "semantic") /\ UNCHANGED near
          \/ near' = TRUE /\ UNCHANGED <<parsed, source>>
          \/ UNCHANGED <<near, parsed, source>>
     ELSE UNCHANGED <<near, parsed, source>>
  /\ Goes("keyword")
  /\ UNCHANGED <<world, text, candidate, calls, checked, result>>

\* The keyword engine's programs, sites and settings are not for questions; a search is.
IsSearch(r) == r.intent = "OS_SYSTEM_COMMAND" /\ r.action = "browser_search_web"
Keyed == {r \in Readings : r.given # {} /\ r.intent \in {"OS_APP_OPEN", "OS_SYSTEM_COMMAND"}
                           /\ r.action # "shutdown"}
Keyword ==
  /\ at = "keyword"
  /\ IF Unclaimed
     THEN \/ \E r \in Keyed : /\ ~IsSearch(r) => ~text.informs
                              /\ Claims(r, "keyword")
          \/ UNCHANGED <<parsed, source>>
     ELSE UNCHANGED <<parsed, source>>
  /\ Goes("guard")
  /\ UNCHANGED <<world, text, candidate, near, calls, checked, result>>

\* A question for information that a tier has made a search is a query again.
Guarded == parsed # None /\ text.informs /\ IsSearch(parsed) /\ IsQuery(candidate)
Guardrail ==
  /\ at = "guard"
  /\ IF Guarded THEN Claims(candidate, "guard") ELSE UNCHANGED <<parsed, source>>
  /\ Goes("tools")
  /\ UNCHANGED <<world, text, candidate, near, calls, checked, result>>

\* _should_try_tool_tier
Uncertain == IsQuery(candidate) /\ ~text.informs /\ tier = "medium" /\ text.steps

\* call_tool_tier: what it names is executed, see ToolPlan; else the text goes on.
Tools ==
  /\ at = "tools"
  /\ IF parsed = None /\ Uncertain
     THEN /\ calls' = calls + 1
          /\ \/ Ends("tools")
             \/ Goes("tie") /\ UNCHANGED result
     ELSE Goes("tie") /\ UNCHANGED <<calls, result>>
  /\ UNCHANGED <<world, text, candidate, parsed, source, near, checked>>

\* A near tie that nothing else has settled is asked about.
Tie ==
  /\ at = "tie"
  /\ IF parsed = None /\ near THEN Ends("ask") ELSE Goes("structured") /\ UNCHANGED result
  /\ UNCHANGED <<world, text, candidate, parsed, source, near, calls, checked>>

\* The risk of an intent, and of the actions that are riskier than their intent.
Risk(r) ==
  CASE r.intent = "OS_APP_CLOSE" -> "medium"
    [] r.intent = "OS_SYSTEM_COMMAND" /\ r.action = "shutdown" -> "high"
    [] r.intent = "OS_FILE_NAVIGATION" /\ r.action = "delete_item" -> "high"
    [] OTHER -> "low"
Required(r) ==
  CASE r.intent \in {"OS_APP_OPEN", "OS_APP_CLOSE"} -> {"app_name"}
    [] r.intent = "OS_FILE_SEARCH"    -> {"filename"}
    [] r.intent = "OS_SYSTEM_COMMAND" -> {"action_key"}
    [] OTHER -> {}
InSchema(r) == r.intent # "unknown"

\* Deviation: the risk is not looked at.
VerifiedRisky(r, missing, allowed) ==
  InSchema(r) /\ Required(r) \subseteq r.given /\ ~missing /\ allowed

\* route_verifier.verify: known, complete, no question, no risk, allowed.
Verified(r, missing, allowed) ==
  /\ InSchema(r) /\ Required(r) \subseteq r.given
  /\ ~(text.opener /\ r.intent \in QuestionPenalty)
  /\ Risk(r) = "low" /\ ~missing /\ allowed

\* understand_structured: one call, unless the tools were asked in this turn.
Asked == calls > 0
StructuredTier ==
  /\ at = "structured"
  /\ IF parsed = None /\ Structured /\ ~Asked /\ Uncertain
     THEN /\ calls' = calls + 1
          /\ \/ \E r \in Readings, missing, allowed \in BOOLEAN :
                  IF Verified(r, missing, allowed) THEN Claims(r, "model")
                  ELSE UNCHANGED <<parsed, source>>
             \/ UNCHANGED <<parsed, source>>
     ELSE UNCHANGED <<calls, parsed, source>>
  /\ Goes("keep")
  /\ UNCHANGED <<world, text, candidate, near, checked, result>>

\* The parser's reading, if nobody has claimed the text.
Keep ==
  /\ at = "keep"
  /\ IF parsed = None THEN Claims(candidate, "parser") ELSE UNCHANGED <<parsed, source>>
  /\ Goes("slots")
  /\ UNCHANGED <<world, text, candidate, near, calls, checked, result>>

\* REQUIRED_SLOTS: by the intent alone, whatever its action.
Slots(r) ==
  CASE r.intent \in {"OS_APP_OPEN", "OS_APP_CLOSE"} -> {"app_name"}
    [] r.intent = "OS_TIMER"       -> {"seconds"}
    [] r.intent = "OS_FILE_SEARCH" -> {"filename"}
    [] OTHER -> {}
Missing(r) == Slots(r) \ r.given
\* _extract_entities: an application by its alias, a duration, a file name, more or less sure.
Extracted(r) == {[r EXCEPT !.given = @ \cup Slots(r), !.score = s] : s \in {35, 45, 58, 80, 98}}

\* NLU.understand: what is missing may be found in the words, else it is asked for.  An
\* error leaves the reading as it is.
Enrich ==
  /\ at = "slots"
  /\ \/ IsQuery(parsed) /\ Goes("assess") /\ UNCHANGED <<parsed, result>>
     \/ /\ ~IsQuery(parsed)
        /\ \/ Missing(parsed) = {} /\ Goes("assess") /\ UNCHANGED <<parsed, result>>
           \/ /\ Missing(parsed) # {}
              /\ \/ parsed' \in Extracted(parsed) /\ Goes("assess") /\ UNCHANGED result
                 \/ Ends("ask") /\ UNCHANGED parsed
                 \/ Goes("assess") /\ UNCHANGED <<parsed, result>>
  /\ UNCHANGED <<world, text, candidate, source, near, calls, checked>>

\* The fast path's assessment is used again; the verifier's decision is only logged.
Decide ==
  /\ at = "assess"
  /\ \E fs \in BOOLEAN :
       LET a == IF checked # None THEN checked ELSE Assess(text, parsed, fs) IN
       Ends(IF a.asks THEN "ask" ELSE IF IsQuery(parsed) THEN "answer" ELSE "run")
  /\ UNCHANGED <<world, text, candidate, parsed, source, near, calls, checked>>

Steps ==
  \/ Parse \/ FastPath \/ CodeSwitch \/ Semantic \/ Keyword \/ Guardrail \/ Tools \/ Tie
  \/ StructuredTier \/ Keep \/ Enrich \/ Decide
Next == Steps \/ Load \/ ShiftTier
Spec == Init /\ [][Next]_unVars /\ WF_unVars(Steps)

-----------------------------------------------------------------------------
(* Properties.                                                             *)

TypeOK ==
  /\ index \in {"none", "built", "loaded", "ready", "failed"} /\ tier \in {"low", "medium"}
  /\ shifts \in 0 .. MaxShifts /\ text \in Features /\ near \in BOOLEAN /\ calls \in 0 .. 1
  /\ text.explains => text.informs
  /\ candidate \in Reading /\ parsed \in Reading \cup {None}
  /\ at \in {"parse", "fast", "switch", "semantic", "keyword", "guard", "tools", "tie",
             "structured", "keep", "slots", "assess", "done"}
  /\ result \in {"none", "sum", "tools", "ask", "answer", "run"}

Runs == result = "run"

\* An explanation that is asked for never makes the machine do something, whichever tiers are
\* loaded and whatever command its words resemble (core/command_router.py:5047).
ExplainingRunsNothing == text.explains => result \notin {"run", "tools"}

\* A question for information is not sent to the browser instead of being answered, by no
\* tier that could claim it; only the parser's own pattern may (core/command_router.py:5147).
InformationIsAnswered == Runs /\ text.informs /\ IsSearch(parsed) => ~IsQuery(candidate)

\* Two intents that cannot be told apart do not end in an answer of the language model or in
\* a guess of its own: another tier knows better or the user is asked
\* (core/command_router.py:5245).
TieIsSettled ==
  near /\ at = "done" => result \in {"ask", "tools"} \/ source \in {"keyword", "guard"}

\* What the language model itself has made of a text is executed only if nothing is at risk
\* and nothing missing, also when the model's tier changes in between
\* (core/command_router.py:5320).
ModelRunsSafely ==
  Runs /\ source = "model" => Risk(parsed) = "low" /\ Required(parsed) \subseteq parsed.given

\* Whatever tier has claimed the text, a command that lacks its argument is not executed; the
\* error path of the enrichment leads there as well (core/intent_confidence.py:825).
NothingRunsBare == Runs /\ parsed.intent \in Scored => Required(parsed) \subseteq parsed.given

\* Not so in this code, see README section 4.
\* A timer is canceled when that is all that was asked for.  The code asks for the seconds,
\* which an order to cancel or to list has none of (nlp/nlu.py:63).
CancelIsWhole ==
  result = "ask" /\ parsed # None /\ text.verbs <= 1
    => ~(parsed.intent = "OS_TIMER" /\ parsed.action = "cancel")

\* Every text gets an end, whatever the background threads do.
TextIsUnderstood == <>(at = "done")
=============================================================================
