-------------------------- MODULE PinConfirmation --------------------------
(***************************************************************************)
(* The spoken PIN: os_control/confirmation.py with the attempt counters of *)
(* os_control/second_factor.py, and the flag in session memory by which    *)
(* core/command_router.py hears the next utterance as the PIN.             *)
(*                                                                         *)
(* Command threads request sensitive actions, speak PINs and cancel.  An   *)
(* action of the module is what happens under one lock; the single slot is *)
(* read, verified and discarded under three.  Time is three facts: a       *)
(* request has expired, a counter still blocks, the flag has gone stale.   *)
(***************************************************************************)
EXTENDS Naturals, FiniteSets

CONSTANTS
  Callers,             \* threads that route commands
  Voice,               \* the pipeline thread; the others serve the desktop
  Requests,            \* requests for a sensitive action; each is made once
  None,                \* Python's None
  MaxFactorAttempts,   \* SECOND_FACTOR_MAX_ATTEMPTS_PER_TOKEN
  MaxConfirmAttempts   \* CONFIRMATION_MAX_ATTEMPTS_PER_TOKEN

ASSUME PinAssumption ==
  /\ MaxFactorAttempts \in Nat \ {0}
  /\ MaxConfirmAttempts \in Nat \ {0}
  /\ None \notin Requests
  /\ Voice \in Callers /\ IsFiniteSet(Callers)

Points == {"idle", "created", "asked", "heard", "read", "expired", "allowed",
           "barred", "factor", "compare", "accept", "run", "record",
           "recheck", "drop", "forget", "answer", "canceled", "unflag"}
Flags == {"off", "fresh", "stale"}
Results == {"none", "executed", "wrong", "over"}

VARIABLES
  pc,          \* where each thread is
  held,        \* the pending action a thread has read
  inline,      \* the PIN came in the same utterance as the request
  result,      \* the status verify_pin_and_execute() returns
  slot,        \* _pin_pending_action
  past,        \* requests whose expires_at is in the past
  flag,        \* pending_confirmation_token of session memory, and its age
  factor,      \* _ATTEMPTS["pin_pending"]
  confirm,     \* _CONFIRM_ATTEMPTS["pin_pending"]
  arabic,      \* the language of the session
  desktop,     \* a desktop client is connected and sends text commands
  requested,   \* history: requests made so far
  prompted,    \* history: the request whose PIN was last asked for
  asked,       \* history: that request, when a thread was given its PIN
  executed,    \* history: how often a request was executed
  strayed,     \* history: executed for a PIN that was asked for another
  dead,        \* history: canceled or replaced while no thread held them
  wrongs,      \* history: wrong PINs compared for a request, without desktop
  unheard      \* history: requests whose flag was not set, or taken away

thread == <<pc, held, inline, result>>
counters == <<factor, confirm>>
setting == <<arabic, desktop>>
history == <<requested, prompted, asked, executed, strayed, dead, wrongs, unheard>>
vars == <<thread, slot, past, flag, counters, setting, history>>

Counter(max) == [failed : 0..(max - 1), blocked : BOOLEAN]
Clear == [failed |-> 0, blocked |-> FALSE]

Init ==
  /\ pc = [c \in Callers |-> "idle"]
  /\ held = [c \in Callers |-> None]
  /\ inline = [c \in Callers |-> FALSE]
  /\ result = [c \in Callers |-> "none"]
  /\ slot = None
  /\ past = {}
  /\ flag = "off"
  /\ factor = Clear
  /\ confirm = Clear
  /\ arabic \in BOOLEAN
  /\ desktop \in BOOLEAN
  /\ requested = {}
  /\ prompted = None
  /\ asked = [c \in Callers |-> None]
  /\ executed = [r \in Requests |-> 0]
  /\ strayed = {}
  /\ dead = {}
  /\ wrongs = [r \in Requests |-> 0]
  /\ unheard = {}

Active(c) == c = Voice \/ desktop
Move(c, from, to) == pc[c] = from /\ pc' = [pc EXCEPT ![c] = to]
Held(r) == \E c \in Callers : held[c] = r
\* A request that leaves the slot while nobody has read it.
Buried(r) == IF r = None \/ Held(r) THEN dead ELSE dead \cup {r}
Live(r) == r # None /\ r \notin past

-----------------------------------------------------------------------------
(* A sensitive command: close, delete, shut down.                          *)

\* confirmation_manager.create() replaces whatever is pending.
Create(r) == r

\* Chains, batches and tool calls lose the token of the answer: they set no
\* flag, and nobody is asked for a PIN.
Request(c, r, spoken) ==
  /\ Active(c)
  /\ r \notin requested
  /\ Move(c, "idle", IF spoken THEN "created" ELSE "idle")
  /\ slot' = Create(r)
  /\ requested' = requested \cup {r}
  /\ dead' = (IF slot' = slot THEN dead ELSE Buried(slot))
  /\ prompted' = (IF spoken THEN r ELSE prompted)
  /\ unheard' = (IF spoken THEN unheard ELSE unheard \cup {r})
  /\ UNCHANGED <<held, inline, result, past, flag, counters, setting,
                 asked, executed, strayed, wrongs>>

RequestSpoken(c) == \E r \in Requests : Request(c, r, TRUE)
RequestInChain(c) == \E r \in Requests : Request(c, r, FALSE)

\* _update_short_term_context() after the dispatch.
SetFlag(c) ==
  /\ Move(c, "created", "asked")
  /\ flag' = "fresh"
  /\ UNCHANGED <<held, inline, result, slot, past, counters, setting, history>>

\* "Shut down, the PIN is ...": verified in the same turn.
InlinePin(c) ==
  /\ Live(slot)
  /\ Move(c, "asked", "read")
  /\ inline' = [inline EXCEPT ![c] = TRUE]
  /\ asked' = [asked EXCEPT ![c] = prompted]
  /\ UNCHANGED <<held, result, slot, past, flag, counters, setting,
                 requested, prompted, executed, strayed, dead, wrongs, unheard>>

NoInlinePin(c) ==
  /\ Move(c, "asked", "idle")
  /\ UNCHANGED <<held, inline, result, slot, past, flag, counters, setting, history>>

-----------------------------------------------------------------------------
(* An utterance that sounds like a PIN.                                    *)

SpeakPin(c) ==
  /\ Active(c)
  /\ flag # "off"
  /\ Move(c, "idle", "heard")
  /\ asked' = [asked EXCEPT ![c] = prompted]
  /\ UNCHANGED <<held, inline, result, slot, past, flag, counters, setting,
                 requested, prompted, executed, strayed, dead, wrongs, unheard>>

WithoutStale(f) == IF f = "stale" THEN "off" ELSE f

\* has_pending_pin_action(); otherwise the turn is routed like any other,
\* which drops a stale flag.
Heard(c) ==
  \/ /\ Live(slot)
     /\ Move(c, "heard", "read")
     /\ UNCHANGED <<held, inline, result, slot, past, flag, counters, setting, history>>
  \/ /\ ~Live(slot)
     /\ Move(c, "heard", "idle")
     /\ flag' = WithoutStale(flag)
     /\ asked' = [asked EXCEPT ![c] = None]
     /\ UNCHANGED <<held, inline, result, slot, past, counters, setting,
                    requested, prompted, executed, strayed, dead, wrongs, unheard>>

-----------------------------------------------------------------------------
(* verify_pin_and_execute().                                               *)

Answering(c, status) ==
  /\ result' = [result EXCEPT ![c] = status]

ReadSlot(c) ==
  /\ Move(c, "read", CASE slot = None   -> "answer"
                       [] slot \in past -> "expired"
                       [] OTHER         -> "allowed")
  /\ held' = [held EXCEPT ![c] = slot]
  /\ Answering(c, IF slot = None THEN "over" ELSE "none")
  /\ UNCHANGED <<inline, slot, past, flag, counters, setting, history>>

\* discard_pending_pin_action() discards what is in the slot now.
Discard(c, from, to) ==
  /\ Move(c, from, to)
  /\ slot' = None
  /\ dead' = (IF slot = held[c] THEN dead ELSE Buried(slot))
  /\ UNCHANGED <<inline, past, flag, counters, setting,
                 requested, prompted, asked, executed, strayed, wrongs, unheard>>

DiscardExpired(c) ==
  /\ Discard(c, "expired", "forget")
  /\ UNCHANGED <<held, result>>

Forget(c) ==
  /\ Move(c, "forget", "answer")
  /\ factor' = Clear
  /\ confirm' = (IF held[c] \in past THEN confirm ELSE Clear)
  /\ Answering(c, "over")
  /\ UNCHANGED <<held, inline, slot, past, flag, setting, history>>

\* is_confirmation_allowed(), before the PIN is looked at.
IsAllowed(c) ==
  /\ Move(c, "allowed", IF confirm.blocked THEN "barred" ELSE "factor")
  /\ UNCHANGED <<held, inline, result, slot, past, flag, counters, setting, history>>

DiscardBarred(c) ==
  /\ Discard(c, "barred", "forget")
  /\ UNCHANGED <<held, result>>

\* verify_second_factor(): first whether it is blocked ...
FactorBlocked(c) ==
  /\ Move(c, "factor", IF factor.blocked THEN "record" ELSE "compare")
  /\ Answering(c, IF factor.blocked THEN "over" ELSE "none")
  /\ UNCHANGED <<held, inline, slot, past, flag, counters, setting, history>>

AfterFailure(counter, max) ==
  IF counter.failed + 1 >= max
  THEN [failed |-> 0, blocked |-> TRUE]
  ELSE [counter EXCEPT !.failed = @ + 1]

\* ... then the comparison, counted under the lock.
RightPin(c) ==
  /\ Move(c, "compare", "accept")
  /\ factor' = Clear
  /\ UNCHANGED <<held, inline, result, slot, past, flag, confirm, setting, history>>

WrongPin(c) ==
  /\ Move(c, "compare", "record")
  /\ factor' = AfterFailure(factor, MaxFactorAttempts)
  /\ Answering(c, IF factor'.blocked THEN "over" ELSE "none")
  /\ wrongs' = (IF desktop THEN wrongs ELSE [wrongs EXCEPT ![held[c]] = @ + 1])
  /\ UNCHANGED <<held, inline, slot, past, flag, confirm, setting,
                 requested, prompted, asked, executed, strayed, dead, unheard>>

Accept(c) ==
  /\ Discard(c, "accept", "run")
  /\ UNCHANGED <<held, result>>

\* The confirmation counter is cleared, and the action executed.
Execute(c) ==
  /\ Move(c, "run", "answer")
  /\ confirm' = Clear
  /\ Answering(c, "executed")
  /\ executed' = [executed EXCEPT ![held[c]] = @ + 1]
  /\ strayed' = (IF asked[c] = held[c] THEN strayed ELSE strayed \cup {held[c]})
  /\ UNCHANGED <<held, inline, slot, past, flag, factor, setting,
                 requested, prompted, asked, dead, wrongs, unheard>>

RecordFailure(c) ==
  /\ Move(c, "record", "recheck")
  /\ confirm' = AfterFailure(confirm, MaxConfirmAttempts)
  /\ UNCHANGED <<held, inline, result, slot, past, flag, factor, setting, history>>

\* Locked if either counter says so; result already is "over" for the first.
Recheck(c) ==
  LET locked == confirm.blocked \/ result[c] = "over" IN
  /\ Move(c, "recheck", IF locked THEN "drop" ELSE "answer")
  /\ Answering(c, IF locked THEN "over" ELSE "wrong")
  /\ UNCHANGED <<held, inline, slot, past, flag, counters, setting, history>>

DropLocked(c) ==
  /\ Move(c, "drop", "answer")
  /\ slot' = None
  /\ confirm' = Clear
  /\ dead' = (IF slot = held[c] THEN dead ELSE Buried(slot))
  /\ UNCHANGED <<held, inline, result, past, flag, factor, setting,
                 requested, prompted, asked, executed, strayed, wrongs, unheard>>

\* _update_short_term_context(): a wrong PIN keeps the flag if the answer
\* says "wrong pin", which it does in English.
FlagAfter(c) ==
  IF \/ result[c] = "wrong" /\ (inline[c] \/ ~arabic)
     \/ result[c] = "over" /\ inline[c]
  THEN flag ELSE "off"

Answer(c) ==
  /\ Move(c, "answer", "idle")
  /\ flag' = FlagAfter(c)
  /\ unheard' = (IF result[c] = "wrong" /\ arabic /\ ~inline[c] THEN unheard \cup {held[c]} ELSE unheard)
  /\ held' = [held EXCEPT ![c] = None]
  /\ inline' = [inline EXCEPT ![c] = FALSE]
  /\ result' = [result EXCEPT ![c] = "none"]
  /\ asked' = [asked EXCEPT ![c] = None]
  /\ UNCHANGED <<slot, past, counters, setting, requested, prompted, executed, strayed, dead, wrongs>>

-----------------------------------------------------------------------------
(* Other turns.                                                            *)

\* Deviation: canceling only answers.
CancelKeeps == slot
CancelDiscards == None

\* "Cancel" or "no" while the flag is fresh: cancel_pending_pin() ...
Cancel(c) ==
  /\ Active(c)
  /\ flag = "fresh"
  /\ Move(c, "idle", IF slot = None THEN "unflag" ELSE "canceled")
  /\ slot' = CancelDiscards
  /\ dead' = Buried(slot)
  /\ UNCHANGED <<held, inline, result, past, flag, counters, setting,
                 requested, prompted, asked, executed, strayed, wrongs, unheard>>

CancelClears(c) ==
  /\ Move(c, "canceled", "unflag")
  /\ factor' = Clear
  /\ confirm' = Clear
  /\ UNCHANGED <<held, inline, result, slot, past, flag, setting, history>>

Unflag(c) ==
  /\ Move(c, "unflag", "idle")
  /\ flag' = "off"
  /\ UNCHANGED <<held, inline, result, slot, past, counters, setting, history>>

\* Any other turn drops a stale flag on its way.
DropStaleFlag(c) ==
  /\ Active(c)
  /\ pc[c] = "idle"
  /\ flag = "stale"
  /\ flag' = "off"
  /\ UNCHANGED <<thread, slot, past, counters, setting, history>>

-----------------------------------------------------------------------------
(* Time.                                                                   *)

\* Of the requests that somebody may still look at.
Expire ==
  /\ \E r \in requested \ past : (slot = r \/ Held(r)) /\ past' = past \cup {r}
  /\ UNCHANGED <<thread, slot, flag, counters, setting, history>>

\* The flag lives longer than the request it was set for.
FlagAges ==
  /\ flag = "fresh"
  /\ ~Live(slot) \/ slot \in unheard
  /\ flag' = "stale"
  /\ UNCHANGED <<thread, slot, past, counters, setting, history>>

FactorUnblocks ==
  /\ factor.blocked
  /\ factor' = [factor EXCEPT !.blocked = FALSE]
  /\ UNCHANGED <<thread, slot, past, flag, confirm, setting, history>>

ConfirmUnblocks ==
  /\ confirm.blocked
  /\ confirm' = [confirm EXCEPT !.blocked = FALSE]
  /\ UNCHANGED <<thread, slot, past, flag, factor, setting, history>>

Time == Expire \/ FlagAges \/ FactorUnblocks \/ ConfirmUnblocks

Verify(c) ==
  \/ ReadSlot(c) \/ DiscardExpired(c) \/ Forget(c) \/ IsAllowed(c)
  \/ DiscardBarred(c) \/ FactorBlocked(c) \/ RightPin(c) \/ WrongPin(c)
  \/ Accept(c)
  \/ Execute(c) \/ RecordFailure(c) \/ Recheck(c) \/ DropLocked(c) \/ Answer(c)

Turn(c) ==
  \/ RequestSpoken(c) \/ RequestInChain(c) \/ SetFlag(c)
  \/ InlinePin(c) \/ NoInlinePin(c)
  \/ SpeakPin(c) \/ Heard(c) \/ Verify(c)
  \/ Cancel(c) \/ CancelClears(c) \/ Unflag(c) \/ DropStaleFlag(c)

Next == Time \/ \E c \in Callers : Turn(c)

Spec == Init /\ [][Next]_vars

-----------------------------------------------------------------------------
(* Properties.                                                             *)

\* The shape of the slot, the flag, the counters and of what threads hold.
TypeOK ==
  /\ pc \in [Callers -> Points]
  /\ held \in [Callers -> Requests \cup {None}]
  /\ inline \in [Callers -> BOOLEAN]
  /\ result \in [Callers -> Results]
  /\ slot \in Requests \cup {None}
  /\ past \subseteq Requests
  /\ flag \in Flags
  /\ factor \in Counter(MaxFactorAttempts)
  /\ confirm \in Counter(MaxConfirmAttempts)
  /\ arabic \in BOOLEAN /\ desktop \in BOOLEAN
  /\ requested \subseteq Requests
  /\ prompted \in Requests \cup {None}
  /\ asked \in [Callers -> Requests \cup {None}]
  /\ executed \in [Requests -> Nat]
  /\ strayed \subseteq Requests
  /\ dead \subseteq Requests
  /\ wrongs \in [Requests -> Nat]
  /\ unheard \subseteq Requests

\* What was canceled, locked out or replaced by another request before any
\* thread had read it is never executed, however the threads interleave.
DeadStaysDead == \A r \in dead : executed[r] = 0

\* With the voice loop alone a request is executed once at most, and only for
\* a PIN that was spoken after it was asked for; a request that a chain made
\* silently is the exception.
ReleasedOnce ==
  ~desktop => \A r \in Requests :
    executed[r] <= 1 /\ (r \in strayed => r \in unheard)

\* With two threads a request is executed at most once for each of them.
ReleasedOncePerThread == \A r \in Requests : executed[r] <= Cardinality(Callers)

\* With the voice loop alone at most MaxFactorAttempts wrong PINs are compared
\* for one request.
AttemptsBounded ==
  ~desktop => \A r \in Requests : wrongs[r] <= MaxFactorAttempts

\* With the voice loop alone, between turns: a request that is still pending,
\* and was not made by a chain or answered wrongly in Arabic, is heard.
AskedIsHeard ==
  ~desktop /\ pc[Voice] = "idle" /\ Live(slot) /\ slot \notin unheard => flag # "off"

\* The PIN: a sensitive action runs once, for a PIN given in time, and nothing that was refused
\* or replaced comes back (verify_pin_and_execute, cancel_pending_pin, create).
PinIsGuarded ==
  /\ TypeOK /\ DeadStaysDead /\ ReleasedOnce /\ ReleasedOncePerThread /\ AttemptsBounded
  /\ AskedIsHeard

\* Not so in this code, see README section 4.
\* "the next utterance is treated as the PIN" (core/config.py): whenever a
\* sensitive action waits between turns, the flag is set.
NextUtteranceIsPin ==
  (\A c \in Callers : pc[c] = "idle") /\ Live(slot) => flag # "off"

=============================================================================
