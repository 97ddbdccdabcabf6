----------------------------- MODULE LiveLookup -----------------------------
(***************************************************************************)
(* What is looked up for a question: weather and web search                 *)
(* (tools/live_data.py, tools/web_search.py), begun from a partial           *)
(* transcript by the voice loop's pipeline or by the router for the whole    *)
(* text, and what the answer is made of.  Turns follow one another; a         *)
(* prefetch is a task of its own and may end in a later turn.                *)
(***************************************************************************)
EXTENDS Naturals, FiniteSets

CONSTANTS
  Cities, Home,  \* the cities asked about; one of them is WEATHER_DEFAULT_CITY
  MaxTurns

Nothing == [kind |-> "nothing", city |-> Home]
Weather(c) == [kind |-> "weather", city |-> c]
Kind(k)    == [kind |-> k, city |-> Home]

\* What can be asked: the weather somewhere, news, a search in so many words, a fact that no
\* keyword names, a word of courtesy.
Texts == {Weather(c) : c \in Cities} \cup {Kind(k) : k \in {"news", "search", "fact", "chat"}}

VARIABLES
  turn,      \* the turns so far
  stand,     \* "listen", "take", "route", "fetch", "late", "legacy", "answer" or "rest"
  text,      \* the text of the turn, or Nothing while it is spoken
  ahead,     \* of the turn's prefetch: [at, about, found], at "none", "running" or "done"
  context,   \* what was injected for the thread: [turn, about, set]
  fetching,  \* what the router fetches
  block,     \* what the answer can use: [about, turn]
  answer     \* "none", "weather", "news", "augmented" or "plain"
llVars == <<turn, stand, text, ahead, context, fetching, block, answer>>

NoPrefetch == [at |-> "none", about |-> Nothing, found |-> FALSE]
NoContext  == [turn |-> 0, about |-> Nothing, set |-> FALSE]
NoBlock    == [turn |-> 0, about |-> Nothing]

Init ==
  /\ turn = 1 /\ stand = "listen" /\ text = Nothing /\ ahead = NoPrefetch /\ context = NoContext
  /\ fetching = Nothing /\ block = NoBlock /\ answer = "none"

\* _detect_weather_intent, and _detect_web_search_intent where it is not about the weather.
Needs(t, force) == \/ t.kind \in {"weather", "news", "search"}
                   \/ force /\ t.kind # "chat"

\* _maybe_prefetch_live_data: the first partial that looks like it, once for each turn.
Partial(t) ==
  /\ stand = "listen" /\ ahead.at = "none" /\ Needs(t, FALSE)
  /\ ahead' = [at |-> "running", about |-> t, found |-> FALSE]
  /\ UNCHANGED <<turn, stand, text, context, fetching, block, answer>>

PrefetchEnds ==
  /\ ahead.at = "running"
  /\ \E found \in BOOLEAN : ahead' = [ahead EXCEPT !.at = "done", !.found = found]
  /\ UNCHANGED <<turn, stand, text, context, fetching, block, answer>>

\* The utterance is transcribed.
Final(t) ==
  /\ stand = "listen" /\ stand' = "take" /\ text' = t
  /\ UNCHANGED <<turn, ahead, context, fetching, block, answer>>

\* get_live_context and inject_precomputed_live_context: only what is there in time and is not
\* empty.
TakeContext ==
  /\ stand = "take" /\ stand' = "route"
  /\ context' = IF ahead.at = "done" /\ ahead.found
                THEN [turn |-> turn, about |-> ahead.about, set |-> TRUE] ELSE context
  /\ UNCHANGED <<turn, text, ahead, fetching, block, answer>>

\* _fetch_live_tool_context: what was injected is used as it is; anything but a courtesy is
\* searched for.
Fetch ==
  /\ stand = "route"
  /\ IF context.set
     THEN stand' = "answer" /\ block' = [turn |-> context.turn, about |-> context.about]
          /\ UNCHANGED fetching
     ELSE IF Needs(text, TRUE) THEN stand' = "fetch" /\ fetching' = text /\ UNCHANGED block
     ELSE stand' = "answer" /\ UNCHANGED <<fetching, block>>
  /\ UNCHANGED <<turn, text, ahead, context, answer>>

\* Without anything found, the weather is asked for once more, at the default city.
Empty == stand' = (IF text.kind = "weather" THEN "legacy" ELSE "answer") /\ UNCHANGED block

\* gather_live_data: found, empty, or too late.
FetchEnds ==
  /\ stand = "fetch"
  /\ \/ stand' = "answer" /\ block' = [turn |-> turn, about |-> fetching]
     \/ Empty
     \/ stand' = "late" /\ UNCHANGED block
  /\ UNCHANGED <<turn, text, ahead, context, fetching, answer>>

\* The executor is left only when its fetch has ended, whose result counts no more.
LateEnds ==
  /\ stand = "late" /\ Empty
  /\ UNCHANGED <<turn, text, ahead, context, fetching, answer>>

Legacy ==
  /\ stand = "legacy" /\ stand' = "answer"
  /\ block' \in {block, [turn |-> turn, about |-> Weather(Home)]}
  /\ UNCHANGED <<turn, text, ahead, context, fetching, answer>>

\* _direct_live_data_answer and the prompts: the weather and the news are answered without the
\* model when something was found.
Searched == block.about.kind \in {"news", "search", "fact"}
Answer ==
  /\ stand = "answer" /\ stand' = "rest"
  /\ answer' = CASE block.about = Nothing -> "plain"
                 [] text.kind = "weather" /\ block.about # Nothing -> "weather"
                 [] text.kind = "news" /\ Searched -> "news"
                 [] OTHER -> "augmented"
  /\ UNCHANGED <<turn, text, ahead, context, fetching, block>>

\* A command is executed and nothing looked up.
Command ==
  /\ stand = "route" /\ stand' = "rest"
  /\ UNCHANGED <<turn, text, ahead, context, fetching, block, answer>>

\* clear_precomputed_live_context, in the turn's finally; the pipeline of the next turn is new.
Cleared == NoContext
NextTurn ==
  /\ stand = "rest" /\ turn < MaxTurns /\ turn' = turn + 1
  /\ stand' = "listen" /\ text' = Nothing /\ ahead' = NoPrefetch /\ context' = Cleared
  /\ fetching' = Nothing /\ block' = NoBlock /\ answer' = "none"

Works == PrefetchEnds \/ TakeContext \/ Fetch \/ FetchEnds \/ LateEnds \/ Legacy \/ Answer
Next  == Works \/ Command \/ NextTurn \/ \E t \in Texts : Partial(t) \/ Final(t)

Spec == Init /\ [][Next]_llVars /\ WF_llVars(Works)

-----------------------------------------------------------------------------
\* The turn, the texts and the contexts have their types.
TypeOK ==
  /\ turn \in 1 .. MaxTurns /\ text \in Texts \cup {Nothing}
  /\ stand \in {"listen", "take", "route", "fetch", "late", "legacy", "answer", "rest"}
  /\ answer \in {"none", "weather", "news", "augmented", "plain"}

\* What an answer is made of was looked up in its own turn: nothing that was injected for one
\* utterance is left on the thread for the next, whatever became of the prefetch.
ContextIsOfTheTurn == block.about # Nothing => block.turn = turn

\* A courtesy is not searched for by the router, and what is said to be the weather or the news
\* was found.
AnsweredFromFound ==
  /\ fetching.kind # "chat"
  /\ answer \in {"weather", "news"} => block.about # Nothing

\* Every question that reaches the router is answered if every fetch ends.
LookupEnds == (stand = "take") ~> (stand = "rest")

\* Not so in this code, see README section 4.  The weather that is told is that of the city
\* that was asked for: gather_live_data looks up what "the user's query" names.
CityIsKept == answer = "weather" /\ block.about.kind = "weather" => block.about.city = text.city

\* Not so in this code, see README section 4.  No turn waits for a fetch longer than its
\* timeout ("Total timeout for all live data fetches").
LateIsNotAwaited == stand # "late"
=============================================================================
