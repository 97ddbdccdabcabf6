--------------------------- MODULE CommandRouter ---------------------------
(***************************************************************************)
(* route_command() and _dispatch() of core/command_router.py with the      *)
(* short-term memory they read and write (core/session_memory.py): the     *)
(* pending question, the pending task, the last app and file.              *)
(*                                                                         *)
(* The voice pipeline and the desktop's thread route utterances, the job   *)
(* worker runs queued commands.  Memory is locked call by call, so each    *)
(* call is an action.  What the parser and the classifiers make of an      *)
(* utterance is a choice; the PIN is in PinConfirmation.                   *)
(***************************************************************************)
EXTENDS Naturals, TLC

CONSTANTS
  Voice, Desktop,           \* the threads that route utterances
  Targets,                  \* apps and files
  None,
  MaxRounds,                \* CLARIFY_MAX_ROUNDS
  ChainLength,              \* bound: commands in a chain or in a tool plan
  Sessions                  \* bound: the kinds of commands that are used
                            \* together, and whether a desktop is connected

ASSUME RouterAssumption ==
  /\ MaxRounds \in Nat \ {0}
  /\ ChainLength \in Nat \ {0}
  /\ None \notin Targets

Threads == {Voice, Desktop}

OnTarget == {"open", "close", "delete"}
Plain == {"simple", "timer", "query"}
Kinds == OnTarget \cup Plain \cup {"note", "email", "batch", "jobs", "chain"}
Command == [kind : Kinds, target : Targets \cup {None}]
ASSUME SessionAssumption == Sessions \subseteq [kinds : SUBSET Kinds, desktop : BOOLEAN]

Of(kinds) == {c \in Command : c.kind \in kinds /\ (c.target = None <=> c.kind \notin OnTarget)}
Simple(k) == [kind |-> k, target |-> None]
Query == Simple("query")
Ref(c) == IF c.kind = "delete" THEN "file" ELSE "app"

\* _execute_internal_command_text()
BatchRefuses == {"close", "delete"}

\* "slot": a missing value; "amount": a missing duration; "tie": two intents;
\* "choice": options to pick from.
Reasons == {"slot", "amount", "tie", "choice"}
Question == [reason : Reasons, attempts : 0..MaxRounds, kind : Kinds]
ASSUME NoneAssumption == None \notin Question
Utterances == {"command", "it", "both", "pick", "more", "cancel", "noise"}

VARIABLES
  turn,        \* what each thread knows of its turn
  pending,     \* _pending_clarification
  task,        \* pending_task: how many values are missing, or None
  last,        \* last_app and last_file, and whether the reference is fresh
  previous,    \* previous_app
  remembered,  \* some clarification choice is remembered
  queued,      \* a job waits for the worker
  batch,       \* the kind of the planned batch command
  session,     \* the member of Sessions that this is
  waiting,     \* history: how the user was last asked a question, if it is open
  stray,       \* history: a question or a task was stored that nobody was told of
  rounds,      \* history: useless replies to the pending question
  staleUse,    \* history: a follow-up acted on a stale reference
  answered,    \* history: commands that the pending question led to
  inBatch      \* history: commands that BatchRefuses names ran inside a batch

refs == <<last, previous>>
store == <<task, refs, remembered, queued, batch>>
history == <<waiting, stray, rounds, staleUse, answered, inBatch>>
vars == <<turn, pending, store, session, history>>

Idle == [pc |-> "idle", said |-> "noise", cmd |-> Query, way |-> "plain",
         place |-> "top", left |-> 0, outcome |-> "none", seen |-> None,
         fresh |-> TRUE]

Init ==
  /\ turn = [t \in Threads |-> Idle]
  /\ pending = None
  /\ task = None
  /\ last = [s \in {"app", "file"} |-> [target |-> None, fresh |-> FALSE]]
  /\ previous = None
  /\ remembered = FALSE
  /\ queued = FALSE
  /\ batch = None
  /\ session \in Sessions
  /\ waiting = "no"
  /\ stray = FALSE
  /\ rounds = 0
  /\ staleUse = FALSE
  /\ answered = 0
  /\ inBatch = {}

Me(t) == turn[t]
At(t, point) == turn[t].pc = point
Become(t, r) == turn' = [turn EXCEPT ![t] = r]
EndTurn(t) == Become(t, Idle)
\* Histories are kept for the voice loop alone.
Count(n) == IF session.desktop THEN n ELSE n + 1

-----------------------------------------------------------------------------
(* The utterance, and what it refers to.                                   *)

Hear(t) ==
  /\ t = Voice \/ (t = Desktop /\ session.desktop)
  /\ At(t, "idle")
  /\ \/ \E u \in Utterances \ {"it"} : Become(t, [Idle EXCEPT !.pc = "task", !.said = u])
     \/ \E k \in OnTarget \cap session.kinds :
          Become(t, [Idle EXCEPT !.pc = "target", !.said = "it", !.cmd = Simple(k)])
  /\ waiting' = "no"
  /\ UNCHANGED <<pending, store, session, stray, rounds, staleUse, answered, inBatch>>

\* _rewrite_followup_command() reads the value and its age in two calls.
ReadTarget(t) ==
  /\ At(t, "target")
  /\ LET ref == last[Ref(Me(t).cmd)] IN
       Become(t, [Me(t) EXCEPT !.pc = "age", !.cmd.target = ref.target, !.fresh = ref.fresh])
  /\ UNCHANGED <<pending, store, session, history>>

Usable(t) == Me(t).cmd.target # None /\ last[Ref(Me(t).cmd)].fresh

ReadAge(t) ==
  /\ At(t, "age")
  /\ Become(t, [Me(t) EXCEPT !.pc = "task", !.way = IF Usable(t) THEN "plain" ELSE "blocked"])
  /\ UNCHANGED <<pending, store, session, history>>

\* _advance_pending_task(): whatever was said is the next value of the email.
ReadTask(t) ==
  /\ At(t, "task")
  /\ Become(t, IF task = None THEN [Me(t) EXCEPT !.pc = "pending"]
               ELSE [Me(t) EXCEPT !.pc = "value", !.left = task])
  /\ UNCHANGED <<pending, store, session, history>>

Missing(n) == IF n = 1 THEN None ELSE n - 1

WriteTask(t) ==
  /\ At(t, "value")
  /\ task' = Missing(Me(t).left)
  /\ EndTurn(t)
  /\ UNCHANGED <<pending, refs, remembered, queued, batch, session, history>>

-----------------------------------------------------------------------------
(* The pending question.                                                   *)

ReadPending(t) ==
  /\ At(t, "pending")
  /\ Become(t, [Me(t) EXCEPT !.pc = IF pending = None THEN "route" ELSE "reply", !.seen = pending])
  /\ UNCHANGED <<pending, store, session, history>>

Replies(t, reasons) == At(t, "reply") /\ Me(t).seen.reason \in reasons
LastRound(q) == q.attempts + 1 >= MaxRounds

\* Deviation: the question stays when it is answered.
KeepAnswered == pending
ClearAnswered == None

\* The reply is the missing value, or picks an option: the command is run.
\* Whatever is said to a missing value is that value.
Resolve(t) ==
  /\ Replies(t, Reasons)
  /\ Me(t).seen.reason = "slot" \/ Me(t).said = "pick"
  /\ pending' = ClearAnswered
  /\ \E c \in Of({IF Me(t).seen.kind = "note" THEN "simple" ELSE Me(t).seen.kind}) :
       Become(t, [Idle EXCEPT !.pc = "dispatch", !.cmd = c, !.way = "answer"])
  /\ remembered' = (remembered \/ Me(t).seen.reason = "choice")
  /\ answered' = Count(answered)
  /\ UNCHANGED <<task, refs, queued, batch, session, waiting, stray, rounds, staleUse, inBatch>>

\* Deviation: "cancel" is only acknowledged.
KeepCanceled == pending
ClearCanceled == None

CancelQuestion(t) ==
  /\ Replies(t, {"tie", "choice"})
  /\ Me(t).said = "cancel"
  /\ pending' = ClearCanceled
  /\ EndTurn(t)
  /\ UNCHANGED <<store, session, history>>

Useless(t) ==
  \/ Replies(t, {"amount"}) /\ Me(t).said # "pick"
  \/ Replies(t, {"tie", "choice"}) /\ Me(t).said \notin {"pick", "cancel"}

GivesUp(q) == q.reason # "choice" /\ LastRound(q)

\* The rounds of a choice are not limited; they are counted as far as MaxRounds
\* here.
Again(q, paged) ==
  IF paged \/ q.attempts = MaxRounds THEN q ELSE [q EXCEPT !.attempts = @ + 1]

\* The copy that was read is written back.
Reprompt(t) ==
  LET q == Me(t).seen IN
  /\ Useless(t)
  /\ ~GivesUp(q)
  /\ pending' = Again(q, q.reason = "choice" /\ Me(t).said = "more")
  /\ waiting' = "direct"
  /\ rounds' = (IF q.reason = "choice" THEN rounds ELSE Count(rounds))
  /\ EndTurn(t)
  /\ UNCHANGED <<store, session, stray, staleUse, answered, inBatch>>

\* A duration becomes a question to the LLM; two intents are routed again.
GiveUp(t) ==
  LET q == Me(t).seen IN
  /\ Useless(t)
  /\ GivesUp(q)
  /\ pending' = None
  /\ Become(t, IF q.reason = "amount"
               THEN [Idle EXCEPT !.pc = "dispatch", !.way = "answer"]
               ELSE [Me(t) EXCEPT !.pc = "route", !.seen = None])
  /\ UNCHANGED <<store, session, history>>

\* _should_bypass_pending_clarification(): a new command.
Bypass(t) ==
  /\ Replies(t, {"choice"})
  /\ Me(t).said = "command"
  /\ pending' = None
  /\ Become(t, [Me(t) EXCEPT !.pc = "route", !.seen = None])
  /\ UNCHANGED <<store, session, history>>

-----------------------------------------------------------------------------
(* The cascade of parser, classifiers and tools.                           *)

\* set_pending_clarification() for a question that is the turn's answer.
Ask(t, reason, c) ==
  /\ pending' = [reason |-> reason, attempts |-> 0, kind |-> c.kind]
  /\ waiting' = "direct"
  /\ rounds' = 0
  /\ answered' = 0
  /\ EndTurn(t)
  /\ UNCHANGED <<store, session, stray, staleUse, inBatch>>

\* The command an utterance may be taken for.
Candidates(t) ==
  CASE Me(t).said = "it"      -> {Me(t).cmd}
    [] Me(t).said = "command" -> Of(session.kinds)
    [] OTHER                  -> {Query}

Routing(t) == At(t, "route") /\ Me(t).way # "blocked" /\ Me(t).said # "both"

\* A follow-up that refers to nothing, and a sum, are answered at once.
AnswerAtOnce(t) ==
  /\ At(t, "route")
  /\ Me(t).way = "blocked" \/ (Routing(t) /\ Query \in Candidates(t))
  /\ EndTurn(t)
  /\ UNCHANGED <<pending, store, session, history>>

Run(t, c) == [Idle EXCEPT !.pc = "dispatch", !.cmd = c, !.fresh = Me(t).fresh]

RouteCommand(t) ==
  /\ Routing(t)
  /\ \E c \in Candidates(t) : Become(t, Run(t, c))
  /\ UNCHANGED <<pending, store, session, history>>

\* call_tool_tier(): one command, or a plan of several.
RouteTools(t) ==
  /\ Routing(t)
  /\ Query \in Candidates(t)
  /\ \E c \in Of((OnTarget \cup Plain) \cap session.kinds), n \in 1..ChainLength :
       Become(t, [Run(t, c) EXCEPT !.way = "tool", !.place = "plan", !.left = n])
  /\ UNCHANGED <<pending, store, session, history>>

AskTie(t) ==
  /\ Routing(t)
  /\ Query \in Candidates(t)
  /\ \E c \in Of((OnTarget \cup {"simple"}) \cap session.kinds) : Ask(t, "tie", c)

AskSlot(t) ==
  /\ Routing(t)
  /\ \E c \in Candidates(t) :
       \/ c.kind \in OnTarget /\ Ask(t, "slot", c)
       \/ c.kind = "timer" /\ Ask(t, "amount", c)

\* assess_intent_confidence() wants to know: a remembered choice is reused.
AskChoice(t) ==
  /\ Routing(t)
  /\ \E c \in Candidates(t) : Ask(t, "choice", c)

ReuseChoice(t) ==
  /\ Routing(t)
  /\ remembered
  /\ \E c \in Candidates(t) : Become(t, [Run(t, c) EXCEPT !.way = "reused"])
  /\ UNCHANGED <<pending, store, session, history>>

\* "Open both", "close both": the last two apps, read in one go here.
RouteBoth(t) ==
  /\ At(t, "route")
  /\ Me(t).said = "both"
  /\ Become(t, IF last["app"].fresh /\ previous # None
               THEN [Run(t, [kind |-> "close", target |-> last["app"].target]) EXCEPT !.way = "both", !.left = 2]
               ELSE Idle)
  /\ UNCHANGED <<pending, store, session, history>>

-----------------------------------------------------------------------------
(* _dispatch().                                                            *)

Dispatching(t, kinds) == At(t, "dispatch") /\ Me(t).cmd.kind \in kinds
\* allow_batch, allow_job_queue and allow_llm; a chain always allows them.
Allowed(t) == Me(t).place \in {"top", "chain", "batchchain"}
RefusedHere(t) ==
  \/ Me(t).place = "batch" /\ Me(t).cmd.kind \in BatchRefuses
  \/ ~Allowed(t) /\ Me(t).cmd.kind \in {"batch", "jobs", "query"}
InBatch(t) == Me(t).place \in {"batch", "batchchain"}
Result(t, outcome) == Become(t, [Me(t) EXCEPT !.pc = "after", !.outcome = outcome])

\* Refused, not permitted by the policy, or failed.
Fail(t) ==
  /\ At(t, "dispatch")
  /\ Result(t, "failed")
  /\ UNCHANGED <<pending, store, session, history>>

\* Dry run, too, answers with success.
Act(t) ==
  /\ Dispatching(t, OnTarget \cup Plain)
  /\ ~RefusedHere(t)
  /\ Result(t, "done")
  /\ staleUse' = (staleUse \/ ~Me(t).fresh)
  /\ inBatch' = (IF InBatch(t) THEN inBatch \cup ({Me(t).cmd.kind} \cap BatchRefuses) ELSE inBatch)
  /\ UNCHANGED <<pending, store, session, waiting, stray, rounds, answered>>

\* Several apps or files fit.
Ambiguous(t) ==
  /\ Dispatching(t, OnTarget)
  /\ ~RefusedHere(t)
  /\ Result(t, "question")
  /\ UNCHANGED <<pending, store, session, history>>

\* A note without text asks for it from inside the dispatch; a chain and a
\* batch drop the answer that holds the question.
AskNote(t) ==
  LET heard == Me(t).place = "top" IN
  /\ Dispatching(t, {"note"})
  /\ Result(t, "done")
  /\ pending' = [reason |-> "slot", attempts |-> 0, kind |-> "note"]
  /\ waiting' = (IF heard THEN "direct" ELSE waiting)
  /\ stray' = (stray \/ ~heard)
  /\ rounds' = 0
  /\ answered' = 0
  /\ UNCHANGED <<store, session, staleUse, inBatch>>

\* With EMAIL_ASK_DETAILS; without it an email is a simple command.
Email(t) ==
  /\ Dispatching(t, {"email"})
  /\ Result(t, "done")
  /\ task' = 3
  /\ UNCHANGED <<pending, refs, remembered, queued, batch, session, history>>

Enqueue(t) ==
  /\ Dispatching(t, {"jobs"})
  /\ ~RefusedHere(t)
  /\ queued' = TRUE
  /\ Result(t, "done")
  /\ UNCHANGED <<pending, task, refs, remembered, batch, session, history>>

AddToBatch(t) ==
  /\ Dispatching(t, {"batch"})
  /\ ~RefusedHere(t)
  /\ \E k \in session.kinds : batch' = k
  /\ Result(t, "done")
  /\ UNCHANGED <<pending, task, refs, remembered, queued, session, history>>

\* Bound: a batch has one command, and none is committed inside a chain.
CommitBatch(t) ==
  /\ Dispatching(t, {"batch"})
  /\ Me(t).place = "top" /\ ~RefusedHere(t)
  /\ batch # None
  /\ batch' = None
  /\ \E c \in Of({batch}) : Become(t, [Me(t) EXCEPT !.place = "batch", !.cmd = c])
  /\ UNCHANGED <<pending, task, refs, remembered, queued, session, history>>

Chain(t) ==
  /\ Dispatching(t, {"chain"})
  /\ \E c \in Of(session.kinds \ {"chain"}) :
       Become(t, [Me(t) EXCEPT !.place = IF @ = "batch" THEN "batchchain" ELSE "chain",
                               !.left = ChainLength, !.cmd = c])
  /\ UNCHANGED <<pending, store, session, history>>

-----------------------------------------------------------------------------
(* After a dispatch.                                                       *)

After(t, places) == At(t, "after") /\ Me(t).place \in places

NextInChain(t) ==
  /\ After(t, {"chain", "batchchain", "plan"})
  /\ Me(t).left > 1 /\ Me(t).outcome # "failed"
  /\ \E c \in Of(IF Me(t).place = "plan" THEN (OnTarget \cup Plain) \cap session.kinds
                 ELSE session.kinds \ {"chain"}) :
       Become(t, [Me(t) EXCEPT !.pc = "dispatch", !.left = @ - 1, !.cmd = c])
  /\ UNCHANGED <<pending, store, session, history>>

\* A chain and a batch keep success or failure of what they ran, nothing else.
Return(t) ==
  /\ After(t, {"chain", "batchchain", "batch"})
  /\ Me(t).place = "batch" \/ Me(t).left = 1 \/ Me(t).outcome = "failed"
  /\ Become(t, [Me(t) EXCEPT !.place = IF @ = "batchchain" THEN "batch" ELSE "top",
                             !.cmd = Simple("chain"),
                             !.outcome = IF @ = "failed" THEN @ ELSE "done"])
  /\ UNCHANGED <<pending, store, session, history>>

\* The tool tier leaves no context behind.
ToolsAnswer(t) ==
  /\ After(t, {"plan"})
  /\ Me(t).left = 1 \/ Me(t).outcome = "failed"
  /\ waiting' = (IF Me(t).outcome = "question" THEN "nested" ELSE waiting)
  /\ EndTurn(t)
  /\ UNCHANGED <<pending, store, session, stray, rounds, staleUse, answered, inBatch>>

\* The dispatch asks which one: the question is stored ...
AskWhich(t) ==
  /\ After(t, {"top"})
  /\ Me(t).way \in {"plain", "reused"} /\ Me(t).outcome = "question"
  /\ Ask(t, "choice", Me(t).cmd)

\* ... or a remembered choice is dispatched instead.
ReuseWhich(t) ==
  /\ After(t, {"top"})
  /\ Me(t).way = "plain" /\ Me(t).outcome = "question" /\ remembered
  /\ Become(t, [Me(t) EXCEPT !.pc = "dispatch", !.way = "reused"])
  /\ UNCHANGED <<pending, store, session, history>>

\* _update_short_term_context(), and the answer.  A command that answered a
\* question may itself have asked: its question is spoken, not stored.
UpdateContext(t) ==
  LET c == Me(t).cmd
      again == Me(t).way = "both" /\ Me(t).left = 2 IN
  /\ After(t, {"top"})
  /\ Me(t).way \in {"answer", "both"} \/ (Me(t).way \in {"plain", "reused"} /\ Me(t).outcome # "question")
  /\ IF Me(t).outcome # "failed" /\ c.kind \in OnTarget
     THEN /\ last' = [last EXCEPT ![Ref(c)] = [target |-> c.target, fresh |-> TRUE]]
          /\ previous' = IF Ref(c) = "app" /\ last["app"].target \notin {None, c.target}
                         THEN last["app"].target ELSE previous
     ELSE UNCHANGED refs
  /\ waiting' = (IF Me(t).outcome = "question" THEN "nested" ELSE waiting)
  /\ IF again /\ previous # None
     THEN Become(t, [Me(t) EXCEPT !.pc = "dispatch", !.left = 1, !.cmd.target = previous])
     ELSE EndTurn(t)
  /\ UNCHANGED <<pending, task, remembered, queued, batch, session, stray, rounds, staleUse, answered, inBatch>>

-----------------------------------------------------------------------------
(* The worker and time.                                                    *)

\* _execute_job_command() dispatches one command, never a chain: its text
\* would have been one when it was queued.  It leaves no context behind, but a
\* note asks for its text and an email for its details, and nobody hears it.
RunJob ==
  /\ queued
  /\ queued' = FALSE
  /\ UNCHANGED <<turn, refs, remembered, batch, session, waiting, staleUse, inBatch>>
  /\ \/ UNCHANGED <<pending, task, stray, rounds, answered>>
     \/ /\ "note" \in session.kinds
        /\ pending' = [reason |-> "slot", attempts |-> 0, kind |-> "note"]
        /\ stray' = TRUE
        /\ rounds' = 0 /\ answered' = 0
        /\ UNCHANGED task
     \/ /\ "email" \in session.kinds
        /\ task' = 3
        /\ stray' = TRUE
        /\ UNCHANGED <<pending, rounds, answered>>

Expire ==
  /\ pending # None
  /\ pending' = None
  /\ waiting' = "no"
  /\ UNCHANGED <<turn, store, session, stray, rounds, staleUse, answered, inBatch>>

TaskExpires ==
  /\ task # None
  /\ task' = None
  /\ UNCHANGED <<turn, pending, refs, remembered, queued, batch, session, history>>

Age ==
  /\ \E s \in {"app", "file"} : last[s].fresh /\ last' = [last EXCEPT ![s].fresh = FALSE]
  /\ UNCHANGED <<turn, pending, task, previous, remembered, queued, batch, session, history>>

\* The score of a remembered choice decays; a reuse that fails does not lower
\* it, because the reuse is counted as another selection.
ChoiceAges ==
  /\ remembered
  /\ remembered' = FALSE
  /\ UNCHANGED <<turn, pending, task, refs, queued, batch, session, history>>

Reply(t) ==
  \/ ReadPending(t) \/ Resolve(t) \/ CancelQuestion(t) \/ Reprompt(t) \/ GiveUp(t) \/ Bypass(t)
Route(t) ==
  \/ AnswerAtOnce(t) \/ RouteCommand(t) \/ RouteTools(t) \/ AskTie(t) \/ AskSlot(t)
  \/ AskChoice(t) \/ ReuseChoice(t) \/ RouteBoth(t)
Dispatch(t) ==
  \/ Fail(t) \/ Act(t) \/ Ambiguous(t) \/ AskNote(t) \/ Email(t) \/ Enqueue(t)
  \/ AddToBatch(t) \/ CommitBatch(t) \/ Chain(t)
Finish(t) ==
  \/ NextInChain(t) \/ Return(t) \/ ToolsAnswer(t) \/ AskWhich(t) \/ ReuseWhich(t) \/ UpdateContext(t)

Next ==
  \/ \E t \in Threads :
       \/ Hear(t) \/ ReadTarget(t) \/ ReadAge(t) \/ ReadTask(t) \/ WriteTask(t)
       \/ Reply(t) \/ Route(t) \/ Dispatch(t) \/ Finish(t)
  \/ ChoiceAges \/ RunJob \/ Expire \/ TaskExpires \/ Age

Spec == Init /\ [][Next]_vars

-----------------------------------------------------------------------------
(* Properties.                                                             *)

Points == {"idle", "target", "age", "task", "value", "pending", "reply",
           "route", "dispatch", "after"}
Turn == [pc : Points, said : Utterances, cmd : Command,
         way : {"plain", "blocked", "answer", "reused", "tool", "both"},
         place : {"top", "chain", "batch", "batchchain", "plan"},
         left : Nat, outcome : {"none", "done", "failed", "question"},
         seen : Question \cup {None}, fresh : BOOLEAN]

\* The shape of the memory and of what a turn carries along.
TypeOK ==
  /\ turn \in [Threads -> Turn]
  /\ pending \in Question \cup {None}
  /\ task \in 1..3 \cup {None}
  /\ last \in [{"app", "file"} -> [target : Targets \cup {None}, fresh : BOOLEAN]]
  /\ previous \in Targets \cup {None}
  /\ {remembered, queued, stray, staleUse} \subseteq BOOLEAN
  /\ batch \in Kinds \cup {None}
  /\ waiting \in {"no", "direct", "nested"}
  /\ rounds \in Nat /\ answered \in Nat
  /\ inBatch \subseteq BatchRefuses
  /\ session \in Sessions

Between == ~session.desktop /\ At(Voice, "idle")

\* Voice alone, between turns: a question the router asked itself is stored,
\* so that the next utterance is taken for its reply.
QuestionIsPending == Between /\ waiting = "direct" => pending # None

\* Voice alone, between turns: a stored question is one the user was asked,
\* unless a chain, a batch or a job stored it.
PendingWasAsked == Between /\ pending # None /\ ~stray => waiting = "direct"

\* Voice alone: a missing duration and a tie take MaxRounds useless replies at
\* most; the last of them is not answered with the question again.
RoundsBounded == rounds < MaxRounds

\* Voice alone: a follow-up ("delete it") acts on a reference that was fresh
\* when it was read.
FollowUpIsFresh == ~session.desktop => ~staleUse

\* Voice alone: a question leads to one command at most.
AnsweredOnce == answered <= 1

\* Voice alone, between turns: the questions asked and the questions stored are the same ones.
QuestionsMatch == TypeOK /\ QuestionIsPending /\ PendingWasAsked

\* Voice alone: useless replies come to an end, a question leads to one command, and that
\* command's reference was fresh when it was read.
RepliesAreSound == RoundsBounded /\ AnsweredOnce /\ FollowUpIsFresh

\* Not so in this code, see README section 4.
\* "Reply with the number": whatever the user was asked, the answer is awaited.
AskedIsPending == Between /\ waiting # "no" => pending # None

\* Not so in this code, see README section 4.
\* "Risky ... operations are not allowed in batch commit".
BatchRefusesRisky == inBatch = {}

-----------------------------------------------------------------------------
(* The instance that TLC checks: targets are interchangeable, and a session  *)
(* uses one group of commands.                                               *)

TargetSymmetry == Permutations(Targets)

Asking == {"note", "timer", "email", "jobs", "delete", "query"}
Referring == {"open", "close", "delete", "chain", "query"}
Batching == {"simple", "delete", "note", "batch", "chain", "query"}

MCSessions ==
  [kinds : {Asking, Referring, Batching}, desktop : {FALSE}]
    \cup [kinds : {{"open", "query"}}, desktop : {TRUE}]

=============================================================================
