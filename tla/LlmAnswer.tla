------------------------------ MODULE LlmAnswer ------------------------------
(***************************************************************************)
(* A question to the local model: the cache of short answers               *)
(* (core/command_router.py), the stream with its filter of reasoning and   *)
(* its two timeouts (llm/ollama_client.py), and the second way, one whole   *)
(* request per candidate model.  A reply is a sequence of items: words to   *)
(* "say", words to "muse", and the marks around these.  A word is a         *)
(* position and its kind, so that what is spoken can be compared with what  *)
(* is returned.  Where the buffer cuts is left open, see SentenceBuffer.    *)
(***************************************************************************)
EXTENDS Naturals, Sequences, SequencesExt, FiniteSets

CONSTANTS
  Replies,   \* what the model may send: sequences of "say", "muse", "open", "close"
  Models,    \* _resolve_model_candidates: how many models there are
  Thinkers,  \* whether the first model is one of the qwen3 family: a set of BOOLEANs
  MaxLine,   \* items in one line of the stream
  MaxAsked   \* a bound on the questions

VARIABLES
  thinker,   \* _is_thinking_mode_model(model_name)
  at,        \* "idle", "stream", "ask" or "done"
  short,     \* the question may be cached
  reply,     \* what the model sends
  sent,      \* items delivered
  inside,    \* inside_think_block
  acc,       \* accumulated: words
  held,      \* in the sentence buffer
  spoken,    \* given to on_sentence
  tried,     \* models asked by ask_llm
  failures,  \* timeout_seen and connect_seen, a set
  returned,  \* [kind, parts]
  cause,     \* why the stream ended
  cancel,    \* llm_cancel_event
  cache,     \* the entry of the short question, or NoEntry
  asked

laVars == <<thinker, at, short, reply, sent, inside, acc, held, spoken, tried, failures,
            returned, cause, cancel, cache, asked>>
callVars == <<thinker, short, reply, cache, asked>>

NoEntry   == [kind |-> "none", parts |-> <<>>]
Text(s)   == [kind |-> "text", parts |-> s]
Error(k)  == [kind |-> k, parts |-> <<>>]
\* "I could not run the local model.", "The local model timed out. ...", "Cannot connect to
\* Ollama. ...", "Sorry, I had an internal error."
Errors    == {"could_not", "timed_out", "no_connection", "internal"}

Init ==
  /\ thinker \in Thinkers /\ at = "idle" /\ short = FALSE /\ reply = <<>> /\ sent = 0
  /\ inside = FALSE /\ acc = <<>> /\ held = <<>> /\ spoken = <<>> /\ tried = 0 /\ failures = {}
  /\ returned = NoEntry /\ cause = "none" /\ cancel = FALSE /\ cache = NoEntry /\ asked = 0

\* A hit is spoken and returned at once; an entry too old is thrown away.
Ask(s, r) ==
  /\ at = "idle" /\ asked < MaxAsked
  /\ asked' = asked + 1 /\ short' = s /\ reply' = r /\ sent' = 0 /\ inside' = FALSE
  /\ acc' = <<>> /\ held' = <<>> /\ tried' = 0 /\ failures' = {} /\ cause' = "none"
  /\ \/ /\ s /\ cache # NoEntry
        /\ returned' = cache /\ spoken' = cache.parts /\ at' = "hit" /\ UNCHANGED cache
     \/ /\ cache' = IF s THEN NoEntry ELSE cache
        /\ returned' = NoEntry /\ spoken' = <<>> /\ at' = "stream"
  /\ UNCHANGED <<thinker, cancel>>

-----------------------------------------------------------------------------
(* The stream.  The filter looks at one line after the other.              *)

Line(n) == SubSeq(reply, sent + 1, sent + n)

\* The flag as the item i of a line finds it.
InsideAt(line, i) ==
  LET tags == {j \in 1 .. i - 1 : line[j] \in {"open", "close"}}
  IN  IF tags = {} THEN inside ELSE \E j \in tags : line[j] = "open" /\ \A k \in tags : k <= j

Word(i)  == <<i, reply[i]>>
Words(S) == [k \in 1 .. Cardinality(S) |-> Word(CHOOSE i \in S : Cardinality({j \in S : j <= i}) = k)]

\* The words of a line that pass.
Passed(line) ==
  Words({sent + i : i \in {k \in 1 .. Len(line) :
           ~thinker \/ (line[k] \in {"say", "muse"} /\ ~InsideAt(line, k))}})

\* inside_think_block after a line.
Flag(line) == InsideAt(line, Len(line) + 1)

Streaming == at = "stream" /\ cause = "none"

\* One line arrives, and neither the event nor the clock stops the loop.
Receive(n) ==
  /\ Streaming /\ ~cancel /\ sent + n <= Len(reply)
  /\ LET got == Passed(Line(n))
         all == held \o got
     IN  /\ acc' = acc \o got
         /\ \E c \in 0 .. Len(all) : /\ c = 0 \/ got # <<>>
                                     /\ spoken' = spoken \o SubSeq(all, 1, c)
                                     /\ held' = SubSeq(all, c + 1, Len(all))
  /\ sent' = sent + n /\ inside' = Flag(Line(n))
  /\ UNCHANGED <<callVars, at, tried, failures, returned, cause, cancel>>

\* The loop ends: the model is done, the event is set, or the hard timeout is past; the last
\* two are seen when a line arrives.
LoopEnds ==
  /\ Streaming
  /\ \/ sent = Len(reply) /\ cause' = "end"
     \/ cancel /\ cause' = "cancel"
     \/ cause' = "late"
  /\ UNCHANGED <<callVars, at, sent, inside, acc, held, spoken, tried, failures, returned, cancel>>

\* Deviation: the hard timeout returns what is there without saying the rest.
RestUnspoken ==
  /\ at = "stream" /\ cause \in {"end", "cancel", "late"}
  /\ spoken' = IF cause = "late" THEN spoken ELSE spoken \o held
  /\ returned' = IF acc # <<>> THEN Text(acc) ELSE Error(IF cause = "late" THEN "timed_out" ELSE "could_not")
  /\ held' = <<>> /\ at' = "done"
  /\ UNCHANGED <<callVars, sent, inside, acc, tried, failures, cause, cancel>>

\* The rest is flushed to the speech, and what came is the answer.
Rest ==
  /\ at = "stream" /\ cause \in {"end", "cancel", "late"}
  /\ spoken' = spoken \o held /\ held' = <<>>
  /\ returned' = IF acc # <<>> THEN Text(acc) ELSE Error(IF cause = "late" THEN "timed_out" ELSE "could_not")
  /\ at' = "done"
  /\ UNCHANGED <<callVars, sent, inside, acc, tried, failures, cause, cancel>>

\* A status other than 200.
Rejected ==
  /\ Streaming /\ sent = 0
  /\ returned' = Error("could_not") /\ at' = "done" /\ cause' = "rejected"
  /\ UNCHANGED <<callVars, sent, inside, acc, held, spoken, tried, failures, cancel>>

NoConnection ==
  /\ Streaming /\ sent = 0
  /\ at' = "ask" /\ cause' = "unconnected"
  /\ UNCHANGED <<callVars, sent, inside, acc, held, spoken, tried, failures, returned, cancel>>

\* httpx.TimeoutException: no line for too long.  Nothing is flushed.
Silent ==
  /\ Streaming
  /\ cause' = "silent"
  /\ IF acc # <<>> THEN at' = "done" /\ returned' = Text(acc) ELSE at' = "ask" /\ UNCHANGED returned
  /\ UNCHANGED <<callVars, sent, inside, acc, held, spoken, tried, failures, cancel>>

\* Any other exception, a connection that breaks for one.
Broken ==
  /\ Streaming
  /\ returned' = Error("internal") /\ at' = "done" /\ cause' = "broken"
  /\ UNCHANGED <<callVars, sent, inside, acc, held, spoken, tried, failures, cancel>>

-----------------------------------------------------------------------------
(* ask_llm: one whole request after the other; the event is not looked at. *)

\* A timeout, no connection, or an empty or rejected answer: on to the next model.
AskFails ==
  /\ at = "ask" /\ tried < Models
  /\ tried' = tried + 1
  /\ \E f \in {{}, {"timeout"}, {"connect"}} : failures' = failures \cup f
  /\ UNCHANGED <<callVars, at, sent, inside, acc, held, spoken, returned, cause, cancel>>

\* What the caller does with the result of ask_llm: the class of error it had itself is
\* returned only, everything else is spoken too, another error included.
Same == IF cause = "silent" THEN "timed_out" ELSE "no_connection"

\* An error is spoken as one more word.
Said(result) == IF result.kind = "text" THEN result.parts ELSE <<<<0, result.kind>>>>

Fallback(result) ==
  /\ at' = "done" /\ returned' = result
  /\ spoken' = IF result.kind = Same THEN spoken ELSE spoken \o Said(result)

\* _strip_thinking_tags: the words outside of closed marks.
Stripped ==
  LET musing(i) == \E j \in 1 .. i : reply[j] = "open" /\ \A k \in j .. i : reply[k] # "close"
  IN  {i \in 1 .. Len(reply) : reply[i] \in {"say", "muse"} /\ ~musing(i)}
Whole == Words(IF thinker THEN Stripped ELSE 1 .. Len(reply))

\* An answer that happens to hold the words of the error counts as that error.
AskAnswers ==
  /\ at = "ask" /\ tried < Models /\ Whole # <<>>
  /\ tried' = tried + 1
  /\ \/ Fallback(Text(Whole))
     \/ Fallback(Error(Same))
  /\ UNCHANGED <<callVars, sent, inside, acc, held, failures, cause, cancel>>

\* Every model has failed, or something unforeseen happened on the way.
AskGivesUp ==
  /\ at = "ask"
  /\ \/ /\ tried = Models
        /\ Fallback(Error(IF "timeout" \in failures THEN "timed_out"
                          ELSE IF "connect" \in failures THEN "no_connection" ELSE "could_not"))
     \/ tried < Models /\ Fallback(Error("internal"))
  /\ UNCHANGED <<callVars, sent, inside, acc, held, tried, failures, cause, cancel>>

\* Back in the router: whatever came back is kept for the next time, errors and halves too.
Store ==
  /\ at \in {"done", "hit"} /\ at' = "idle"
  /\ cache' = IF at = "done" /\ short THEN returned ELSE cache
  /\ UNCHANGED <<thinker, short, reply, asked, sent, inside, acc, held, spoken, tried, failures,
                 returned, cause, cancel>>

\* The wake word, a click or a new recording.
Cancel == cancel' = TRUE  /\ at = "stream" /\ UNCHANGED <<callVars, at, sent, inside, acc, held, spoken, tried, failures, returned, cause>>
Clear  == cancel' = FALSE /\ cancel /\ UNCHANGED <<callVars, at, sent, inside, acc, held, spoken, tried, failures, returned, cause>>

CallStep ==
  \/ \E n \in 1 .. MaxLine : Receive(n)
  \/ LoopEnds \/ Rest \/ Rejected \/ NoConnection \/ Silent \/ Broken
  \/ AskFails \/ AskAnswers \/ AskGivesUp \/ Store

Next == (\E s \in BOOLEAN, r \in Replies : Ask(s, r)) \/ CallStep \/ Cancel \/ Clear

Spec == Init /\ [][Next]_laVars /\ WF_laVars(CallStep)

-----------------------------------------------------------------------------
\* The call's record has its types.
TypeOK ==
  /\ at \in {"idle", "stream", "ask", "done", "hit"} /\ sent \in 0 .. Len(reply)
  /\ inside \in BOOLEAN /\ cancel \in BOOLEAN /\ tried \in 0 .. Models
  /\ returned.kind \in Errors \cup {"none", "text"} /\ cache.kind \in Errors \cup {"none", "text"}
  /\ cause \in {"none", "end", "cancel", "late", "rejected", "unconnected", "silent", "broken"}

\* Reasoning of a model known to reason is neither spoken nor kept, wherever the lines of the
\* stream cut the reply, as long as the marks come whole.
ReasoningIsSilent ==
  thinker => \A s \in {acc, held, spoken, cache.parts} : \A k \in DOMAIN s : s[k][2] # "muse"

\* When a streamed answer is returned the words spoken are its words, each once and in order,
\* and all of them unless the connection fell silent: over cuts, cancels and both timeouts.
\* What is reported as an error was not half spoken, unless something unforeseen broke it.
SpokenIsReturned ==
  at = "done" /\ tried = 0 =>
    IF returned.kind = "text"
    THEN IsPrefix(spoken, returned.parts) /\ (cause # "silent" => spoken = returned.parts)
    ELSE cause \in {"end", "cancel", "late", "rejected"} => spoken = <<>>

\* The second way is taken only while nothing was said, so that no answer is heard twice or
\* after half of another.
AskedInSilence == at = "ask" => spoken = <<>>

\* Every question comes back, whatever the models do.
QuestionEnds == at = "stream" ~> at = "idle"
=============================================================================
