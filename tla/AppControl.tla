----------------------------- MODULE AppControl -----------------------------
(***************************************************************************)
(* Opening and closing a program by its spoken name (os_control/app_ops.py  *)
(* and the router's OS_APP_OPEN and OS_APP_CLOSE).  The router resolves the *)
(* name to ask which program is meant; the operation resolves it again and  *)
(* acts.  Resemblance, use and what runs make a score; what runs is read     *)
(* from a snapshot of the processes that is kept for some seconds.  Programs *)
(* come and go meanwhile.  Scores are in hundredths of a per cent.           *)
(***************************************************************************)
EXTENDS Integers, FiniteSets, FiniteSetsExt

CONSTANTS
  Programs,  \* the programs a catalog can hold
  Shell,     \* of them, the Windows shell (explorer.exe)
  Store,     \* of them, one from the Store, whose process is found by its name's beginning
  Twin,      \* a process with the same beginning that comes first in the alphabet
  Text,      \* the spoken name taken as a program's own name
  Names,     \* spoken names: [close, folder, alias, single, like], where like gives for each
             \* program [sim, prefix, used, recent, there]
  MaxOrders, MaxMoves

Processes == Programs \cup {Twin, Text}
Nobody == "nobody"

NoName == [folder |-> TRUE, close |-> FALSE]

VARIABLES
  known,     \* the programs in _APP_CATALOG
  old,       \* the catalog is older than its limit
  alive,     \* the processes
  psutil,    \* processes can be listed
  snapshot, current,  \* _PROCESS_SNAPSHOT_CACHE and whether it is younger than its limit
  lately,    \* the processes that ran at some time since the snapshot's limit began
  name,      \* the name of the request
  pace,      \* "idle", "ask", "do", "open", "kill" or "end"
  target,    \* the program, process or text the request works on
  how,       \* of the last resolution: how it ended
  shown,     \* the processes it was made with
  attempts,
  prompts,   \* the processes whose closing waits for a confirmation
  orders, moves

pcVars == <<known, old, alive, psutil, snapshot, current, lately, name, pace, target, how, shown,
            attempts, prompts, orders, moves>>

Init ==
  /\ known \in {Programs, {Shell}} /\ old \in BOOLEAN /\ alive \in {{Shell}, Processes}
  /\ psutil \in BOOLEAN /\ snapshot = {} /\ current = FALSE /\ lately = alive
  /\ name = NoName /\ pace = "idle" /\ target = Nobody /\ how = "none" /\ shown = {}
  /\ attempts = 0 /\ prompts = {} /\ orders = 0 /\ moves = 0

Environment == <<known, old, alive, psutil, lately, moves>>
Resolution  == <<known, old, snapshot, current, how, shown>>

-----------------------------------------------------------------------------
\* _running_process_names_snapshot: nothing is seen where processes cannot be listed.
Seen == IF current THEN snapshot ELSE IF psutil THEN alive ELSE {}

\* _to_process_name: the process of a Store program is looked for by its beginning.
ProcessOf(p, seen) ==
  IF p = Store /\ Twin \in seen THEN Twin ELSE p

\* _candidate_score.
Score(p, request, seen) ==
  LET like  == request.like[p]
      runs  == ProcessOf(p, seen) \in seen
      bonus == (IF like.prefix THEN 500 ELSE 0) + Min({1200, 200 * like.used})
               + (IF like.recent THEN 600 ELSE 0) + (IF like.there THEN 300 ELSE 0)
               + (IF ~runs THEN 0 ELSE IF request.close THEN 1600 ELSE 400)
  IN Min({10000, 78 * like.sim + bonus})

\* resolve_app_candidates, without an exact alias.
Candidates(request, programs) == {p \in programs : request.like[p].sim >= 46}

\* resolve_app_request's thresholds.
HighFloor(request)   == IF request.single THEN 8200 ELSE 9000
LikelyFloor(request) == IF request.single THEN 6200 ELSE 7400

Leads(p, request, programs, seen, by) ==
  Score(p, request, seen) - Max({0} \cup {Score(q, request, seen) : q \in Candidates(request, programs) \ {p}}) >= by

Nothing == [how |-> "none", program |-> Nobody]

\* _resolve: the first of the candidates, which of them is meant, or nothing.
Match(request, programs, seen) ==
  IF request.alias \in programs THEN [how |-> "exact", program |-> request.alias]
  ELSE IF Candidates(request, programs) = {} THEN Nothing
  ELSE LET first == CHOOSE p \in Candidates(request, programs) : Leads(p, request, programs, seen, 0)
           score == Score(first, request, seen)
       IN IF score >= HighFloor(request) /\ Leads(first, request, programs, seen, 800)
          THEN [how |-> "high_confidence", program |-> first]
          ELSE IF Cardinality(Candidates(request, programs)) > 1 /\ score >= 6200
                  /\ ~Leads(first, request, programs, seen, 1400)
          THEN [how |-> "ambiguous", program |-> Nobody]
          ELSE IF score >= LikelyFloor(request) THEN [how |-> "likely", program |-> first]
          ELSE Nothing

\* resolve_app_request: a folder's name is no program; a miss refreshes an old catalog once.
Missed   == ~name.folder /\ old /\ Match(name, known, Seen).how = "none"
Resolved ==
  IF name.folder THEN Nothing ELSE Match(name, IF Missed THEN Programs ELSE known, Seen)

Resolve ==
  /\ known' = (IF Missed THEN Programs ELSE known) /\ old' = (old /\ ~Missed)
  /\ snapshot' = Seen /\ current' = TRUE /\ shown' = Seen
  /\ how' = Resolved.how

Asked(request) ==
  /\ pace = "idle" /\ orders < MaxOrders /\ orders' = orders + 1
  /\ name' = request /\ pace' = "ask"
  /\ UNCHANGED <<known, old, alive, psutil, snapshot, current, lately, target, how, shown, attempts,
                 prompts, moves>>

\* _dispatch: an ambiguous name is asked about and nothing is done.
Route ==
  /\ pace = "ask" /\ Resolve
  /\ pace' = IF Resolved.how = "ambiguous" THEN "end" ELSE "do"
  /\ UNCHANGED <<alive, psutil, lately, name, target, attempts, prompts, orders, moves>>

Fails == pace' = "end" /\ UNCHANGED <<target, prompts>>

\* open_app_result, up to the template; the policy may refuse.
Open ==
  /\ pace = "do" /\ ~name.close
  /\ \/ Fails /\ UNCHANGED Resolution
     \/ Resolve /\ Resolved.how = "ambiguous" /\ Fails
     \/ Resolve /\ Resolved.how # "ambiguous" /\ pace' = "open" /\ UNCHANGED prompts
        /\ target' = IF Resolved.program = Nobody THEN Text ELSE Resolved.program
  /\ UNCHANGED <<alive, psutil, lately, name, attempts, orders, moves>>

\* _resolve_close_target and request_close_app_result: only what runs is asked about; where
\* processes cannot be listed, anything is.
Named     == ProcessOf(IF Resolved.program = Nobody THEN Text ELSE Resolved.program, Seen)
IsRunning == IF psutil THEN Named \in Seen ELSE TRUE

RequestClose ==
  /\ pace = "do" /\ name.close /\ pace' = "end"
  /\ \/ UNCHANGED <<Resolution, target, prompts>>
     \/ Resolve /\ (Resolved.how = "ambiguous" \/ ~IsRunning) /\ UNCHANGED <<target, prompts>>
     \/ Resolve /\ Resolved.how # "ambiguous" /\ IsRunning
        /\ target' = Resolved.program /\ prompts' = prompts \cup {Named}
  /\ UNCHANGED <<alive, psutil, lately, name, attempts, orders, moves>>

\* execute_confirmed_app_operation kills what was named when it was asked about.
Confirm(p) ==
  /\ pace = "idle" /\ p \in prompts /\ prompts' = prompts \ {p}
  /\ pace' = "kill" /\ target' = p
  /\ UNCHANGED <<known, old, alive, psutil, snapshot, current, lately, name, how, shown, attempts,
                 orders, moves>>

Expire(p) ==
  /\ p \in prompts /\ prompts' = prompts \ {p}
  /\ UNCHANGED <<Environment, snapshot, current, name, pace, target, how, shown, attempts, orders>>

\* One run of a template: done, failed, or failed in a way that is tried a second time.  A
\* timeout raises and ends the operation.
Attempt(effect) ==
  /\ attempts' = attempts + 1
  /\ \/ alive' = effect /\ pace' = "end"
     \/ UNCHANGED alive /\ pace' = "end"
     \/ UNCHANGED alive /\ attempts' < 2 /\ UNCHANGED pace
  /\ lately' = lately \cup alive'
  /\ UNCHANGED <<known, old, psutil, snapshot, current, name, target, how, shown, prompts, orders, moves>>

\* _run_open_template.
RunOpen == pace = "open" /\ Attempt(alive \cup {target})

\* _run_close_template: the shell's windows are closed, the shell is not.
RunClose ==
  /\ pace = "kill"
  /\ Attempt(IF target = Shell THEN alive ELSE alive \ {target})

\* The answer is given.
Answer ==
  /\ pace = "end" /\ pace' = "idle"
  /\ name' = NoName /\ target' = Nobody /\ how' = "none" /\ shown' = {} /\ attempts' = 0
  /\ UNCHANGED <<known, old, alive, psutil, snapshot, current, lately, prompts, orders, moves>>

\* A program is started or ended by hand or by itself.
Move(p) ==
  /\ moves < MaxMoves /\ moves' = moves + 1 /\ p # Shell
  /\ alive' = (IF p \in alive THEN alive \ {p} ELSE alive \cup {p})
  /\ lately' = lately \cup alive'
  /\ UNCHANGED <<known, old, psutil, snapshot, current, name, pace, target, how, shown, attempts,
                 prompts, orders>>

\* The snapshot's limit passes.
Age ==
  /\ current /\ current' = FALSE /\ lately' = alive
  /\ UNCHANGED <<known, old, alive, psutil, snapshot, name, pace, target, how, shown, attempts,
                 prompts, orders, moves>>

Next ==
  \/ \E request \in Names \cup {NoName} : Asked(request)
  \/ Route \/ Open \/ RequestClose \/ RunOpen \/ RunClose \/ Answer \/ Age
  \/ \E p \in Processes : Confirm(p) \/ Expire(p) \/ Move(p)

Spec == Init /\ [][Next]_pcVars

-----------------------------------------------------------------------------
\* The request and the snapshot have their types.
TypeOK ==
  /\ Shell \in known /\ alive \subseteq Processes /\ snapshot \subseteq Processes
  /\ pace \in {"idle", "ask", "do", "open", "kill", "end"} /\ target \in Processes \cup {Nobody}
  /\ how \in {"none", "exact", "high_confidence", "likely", "ambiguous"}
  /\ attempts \in 0 .. 2 /\ prompts \subseteq Processes

\* p resembles the name no less than q, is used no less and runs if q does.
Matches(p, q) ==
  LET a == name.like[p]
      b == name.like[q]
  IN /\ a.sim >= b.sim /\ a.used >= b.used
     /\ (b.prefix => a.prefix) /\ (b.recent => a.recent) /\ (b.there => a.there)
     /\ ProcessOf(q, shown) \in shown => ProcessOf(p, shown) \in shown

\* A program that is opened or asked about because its name resembles the spoken one is a
\* better choice in some respect than every other: the two close names of "which one do you
\* mean" are never decided by the order of the catalog (resolve_app_request's margins).
NoTieIsActedOn ==
  how \in {"high_confidence", "likely"} /\ target \in known
    => \A p \in known \ {target} : ~Matches(p, target)

\* Closing is only asked about for a process that ran within the snapshot's limit, where
\* processes can be listed (_is_process_running over _running_process_names_snapshot).
AskedWhileRunning ==
  [][\A p \in prompts' \ prompts : psutil => p \in lately]_pcVars

\* No request, whatever it is called and however it is confirmed, ends the Windows shell
\* (the comment of _run_close_template).
ShellLives == Shell \in alive
=============================================================================
