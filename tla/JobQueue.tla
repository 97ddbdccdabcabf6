------------------------------ MODULE JobQueue ------------------------------
(***************************************************************************)
(* The persistent job queue: JobQueueService of os_control/job_queue.py    *)
(* over the job_queue table of os_control/persistence.py.  Command threads *)
(* (the pipeline thread of the voice loop and the desktop bridge) queue,   *)
(* cancel and retry jobs and start and stop the worker; worker threads     *)
(* claim due jobs and execute them.  Every database function holds the one *)
(* lock _db_lock, so each is one action; Restart kills and reboots the     *)
(* process, and only the table survives.                                   *)
(***************************************************************************)
EXTENDS Integers, FiniteSets, TLC

CONSTANTS
  Jobs,         \* ids the table may hold
  Workers,      \* worker threads that may exist at one time
  Callers,      \* threads that execute job commands
  None,         \* Python's None
  MaxRetries,   \* JOB_MAX_RETRIES_DEFAULT, the max_retries of every job
  MaxRestarts   \* bound: restarts of the process

ASSUME QueueAssumption ==
  /\ MaxRetries \in Nat
  /\ MaxRestarts \in Nat
  /\ None \notin Jobs \cup Workers
  /\ IsFiniteSet(Workers)
  /\ Workers # {}

Statuses == {"absent", "queued", "running", "succeeded", "failed", "canceled"}

VARIABLES
  status,      \* the status column; "absent": no such row yet
  attempts,    \* the attempts column
  due,         \* queued jobs whose run_at has passed
  ahead,       \* ahead[j]: due jobs with an earlier run_at than the due job j
  dbWedged,    \* a thread waits for _db_lock while it holds it
  thread,      \* JobQueueService._thread
  stopEvent,   \* JobQueueService._stop_event
  worker,      \* where each worker thread is
  job,         \* the row it claimed: its id ...
  tries,       \* ... and its attempts, as they were then
  call,        \* what each command thread is doing
  restarts,    \* counts to MaxRestarts
  rerun        \* history: jobs re-queued by "job retry" while being executed

table == <<status, attempts, due, ahead>>
service == <<thread, stopEvent>>
workers == <<worker, job, tries>>
vars == <<table, dbWedged, service, workers, call, restarts, rerun>>

\* initialize_command_services() has started one worker.
Booted(w) ==
  /\ dbWedged' = FALSE
  /\ thread' = w
  /\ stopEvent' = FALSE
  /\ worker' = [x \in Workers |-> IF x = w THEN "top" ELSE "dead"]
  /\ job' = [x \in Workers |-> None]
  /\ tries' = [x \in Workers |-> 0]
  /\ call' = [c \in Callers |-> "idle"]
  /\ rerun' = {}

Init ==
  /\ status = [j \in Jobs |-> "absent"]
  /\ attempts = [j \in Jobs |-> 0]
  /\ due = {}
  /\ ahead = [j \in Jobs |-> {}]
  /\ dbWedged = FALSE
  /\ thread \in Workers
  /\ stopEvent = FALSE
  /\ worker = [x \in Workers |-> IF x = thread THEN "top" ELSE "dead"]
  /\ job = [x \in Workers |-> None]
  /\ tries = [x \in Workers |-> 0]
  /\ call = [c \in Callers |-> "idle"]
  /\ restarts = 0
  /\ rerun = {}

-----------------------------------------------------------------------------
(* Rows.                                                                   *)

SetStatus(j, s) == status' = [status EXCEPT ![j] = s]
Holders(j) == {w \in Workers : job[w] = j}

\* The row is no longer due: its status or its run_at changed.
LeaveLine(j) ==
  /\ due' = due \ {j}
  /\ ahead' = [k \in Jobs |-> IF k = j THEN {} ELSE ahead[k] \ {j}]

\* Deviation: ORDER BY run_at DESC.
NewestFirst(j) == \A k \in due : j \notin ahead[k]
\* WHERE status = 'queued' AND run_at <= now ORDER BY run_at LIMIT 1
NextDue(j) == ahead[j] = {}

\* run_at passes; later than every run_at that passed before.
BecomeDue(j) ==
  /\ status[j] = "queued"
  /\ j \notin due
  /\ due' = due \cup {j}
  /\ ahead' = [ahead EXCEPT ![j] = due]
  /\ UNCHANGED <<status, attempts, dbWedged, service, workers, call, restarts, rerun>>

-----------------------------------------------------------------------------
(* Commands.  After its own transaction each reads the row back and writes *)
(* the action log, in transactions of their own: the thread is "queueing", *)
(* "canceling" or "retrying" until those are done.                         *)

Begin(c, to) == call[c] = "idle" /\ call' = [call EXCEPT ![c] = to]
End(c, from) == call[c] = from /\ call' = [call EXCEPT ![c] = "idle"]

\* enqueue_result(): create_job() ...
Enqueue(c, j) ==
  /\ Begin(c, "queueing")
  /\ ~dbWedged
  /\ status[j] = "absent"
  /\ SetStatus(j, "queued")
  /\ UNCHANGED <<attempts, due, ahead, dbWedged, service, workers, restarts, rerun>>

Alive(w) == w # None /\ worker[w] # "dead"

\* Deviation: the event is cleared before the running worker is looked for.
ClearFirst ==
  /\ stopEvent' = FALSE
  /\ IF Alive(thread)
     THEN UNCHANGED <<thread, worker>>
     ELSE \E w \in Workers : /\ worker[w] = "dead"
                             /\ thread' = w
                             /\ worker' = [worker EXCEPT ![w] = "top"]
\* start_result(), all of it under the service's own lock.
StartResult ==
  IF Alive(thread)
  THEN UNCHANGED <<thread, worker, stopEvent>>
  ELSE \E w \in Workers : /\ worker[w] = "dead"
                          /\ thread' = w
                          /\ stopEvent' = FALSE
                          /\ worker' = [worker EXCEPT ![w] = "top"]

\* ... and then start_result().
EnqueueStarts(c) ==
  /\ End(c, "queueing")
  /\ ~dbWedged
  /\ StartResult
  /\ UNCHANGED <<table, dbWedged, job, tries, restarts, rerun>>

\* "job worker start"
StartCommand(c) ==
  /\ call[c] = "idle"
  /\ StartResult
  /\ UNCHANGED <<table, dbWedged, job, tries, call, restarts, rerun>>

\* stop() takes the thread out under the lock and sets the event outside it;
\* it then waits for the thread for three seconds at most.
StopForgets(c) ==
  /\ Begin(c, "stopping")
  /\ thread' = None
  /\ UNCHANGED <<table, dbWedged, stopEvent, workers, restarts, rerun>>

StopSignals(c) ==
  /\ End(c, "stopping")
  /\ stopEvent' = TRUE
  /\ UNCHANGED <<table, dbWedged, thread, workers, restarts, rerun>>

\* Deviation: another spelling of the status.
Misspelled == "cancelled"
CanceledStatus == "canceled"

\* cancel_job(): for a job that is succeeded or canceled already it calls
\* get_job(), which takes _db_lock again.
Cancel(c, j) ==
  /\ ~dbWedged
  /\ status[j] # "absent"
  /\ IF status[j] \in {"succeeded", "canceled"}
     THEN /\ Begin(c, "stuck")
          /\ dbWedged' = TRUE
          /\ UNCHANGED table
     ELSE /\ Begin(c, "canceling")
          /\ SetStatus(j, CanceledStatus)
          /\ LeaveLine(j)
          /\ UNCHANGED <<attempts, dbWedged>>
  /\ UNCHANGED <<service, workers, restarts, rerun>>

\* retry_job() re-queues whatever the status is.
Retry(c, j) ==
  /\ Begin(c, "retrying")
  /\ ~dbWedged
  /\ status[j] # "absent"
  /\ SetStatus(j, "queued")
  /\ attempts' = [attempts EXCEPT ![j] = 0]
  /\ LeaveLine(j)
  /\ rerun' = (IF Holders(j) = {} THEN rerun ELSE rerun \cup {j})
  /\ UNCHANGED <<dbWedged, service, workers, restarts>>

Report(c) ==
  /\ \E from \in {"canceling", "retrying"} : End(c, from)
  /\ ~dbWedged
  /\ UNCHANGED <<table, dbWedged, service, workers, restarts, rerun>>

-----------------------------------------------------------------------------
(* Worker threads: _worker_loop().                                         *)

Move(w, from, to) == worker[w] = from /\ worker' = [worker EXCEPT ![w] = to]

SeeStop(w) ==
  /\ stopEvent
  /\ Move(w, "top", "exit")
  /\ UNCHANGED <<table, dbWedged, service, job, tries, call, restarts, rerun>>

GoOn(w) ==
  /\ ~stopEvent
  /\ Move(w, "top", "claim")
  /\ UNCHANGED <<table, dbWedged, service, job, tries, call, restarts, rerun>>

Exit(w) ==
  /\ Move(w, "exit", "dead")
  /\ UNCHANGED <<table, dbWedged, service, job, tries, call, restarts, rerun>>

FindNothing(w) ==
  /\ Move(w, "claim", "top")
  /\ ~dbWedged
  /\ due = {}
  /\ UNCHANGED <<table, dbWedged, service, job, tries, call, restarts, rerun>>

\* Deviation: the claimed row keeps its status and its place.
LeftQueued(j) == UNCHANGED <<status, due, ahead>>
\* UPDATE job_queue SET status = 'running'
MarkRunning(j) == SetStatus(j, "running") /\ LeaveLine(j)

\* claim_due_job(): one transaction reads the row and marks it running.
Claim(w, j) ==
  /\ Move(w, "claim", "run")
  /\ ~dbWedged
  /\ j \in due
  /\ status[j] = "queued"
  /\ NextDue(j)
  /\ MarkRunning(j)
  /\ attempts' = [attempts EXCEPT ![j] = @ + 1]
  /\ job' = [job EXCEPT ![w] = j]
  /\ tries' = [tries EXCEPT ![w] = attempts[j] + 1]
  /\ UNCHANGED <<dbWedged, service, call, restarts, rerun>>

\* Deviation: one retry too many.
RetriesPlusOne(w) == tries[w] <= MaxRetries + 1
\* attempts <= retries, on the row as it was claimed
RetriesLeft(w) == tries[w] <= MaxRetries

\* The executor returns or raises, and the row is marked, whoever changed
\* it meanwhile.  A requeued job is due after its backoff.
Finish(w) ==
  /\ Move(w, "run", "top")
  /\ ~dbWedged
  /\ \E s \in {"succeeded", IF RetriesLeft(w) THEN "queued" ELSE "failed"} :
       SetStatus(job[w], s)
  /\ LeaveLine(job[w])
  /\ job' = [job EXCEPT ![w] = None]
  /\ tries' = [tries EXCEPT ![w] = 0]
  /\ rerun' = (IF Holders(job[w]) = {w} THEN rerun \ {job[w]} ELSE rerun)
  /\ UNCHANGED <<attempts, dbWedged, service, call, restarts>>

-----------------------------------------------------------------------------
\* The table survives; rows that were running stay so.
Restart ==
  /\ restarts < MaxRestarts
  /\ restarts' = restarts + 1
  /\ \E w \in Workers : Booted(w)
  /\ UNCHANGED table

CommandStep(c) ==
  \/ \E j \in Jobs : Enqueue(c, j) \/ Cancel(c, j) \/ Retry(c, j)
  \/ StartCommand(c) \/ StopForgets(c)
PendingStep(c) == EnqueueStarts(c) \/ StopSignals(c) \/ Report(c)
WorkerStep(w) ==
  \/ SeeStop(w) \/ GoOn(w) \/ Exit(w) \/ FindNothing(w) \/ Finish(w)
  \/ \E j \in Jobs : Claim(w, j)

Next ==
  \/ \E c \in Callers : CommandStep(c) \/ PendingStep(c)
  \/ \E w \in Workers : WorkerStep(w)
  \/ \E j \in Jobs : BecomeDue(j)
  \/ Restart

Spec == Init /\ [][Next]_vars

(***************************************************************************)
(* Threads run and an executor returns; nobody has to give a command, and  *)
(* nothing has to make a queued job due.                                   *)
(***************************************************************************)
FairSpec == Spec /\ \A w \in Workers : WF_vars(WorkerStep(w))

-----------------------------------------------------------------------------
TypeOK ==
  /\ status \in [Jobs -> Statuses]
  /\ attempts \in [Jobs -> Nat]
  /\ due \subseteq Jobs
  /\ ahead \in [Jobs -> SUBSET Jobs]
  /\ dbWedged \in BOOLEAN
  /\ thread \in Workers \cup {None}
  /\ stopEvent \in BOOLEAN
  /\ worker \in [Workers -> {"dead", "top", "claim", "run", "exit"}]
  /\ job \in [Workers -> Jobs \cup {None}]
  /\ \A w \in Workers : job[w] # None <=> worker[w] = "run"
  /\ tries \in [Workers -> Nat]
  /\ call \in [Callers -> {"idle", "queueing", "canceling", "retrying", "stopping", "stuck"}]
  /\ restarts \in 0 .. MaxRestarts
  /\ rerun \subseteq Jobs

(***************************************************************************)
(* Two workers, which a stop and a start may leave behind, execute the     *)
(* same job at the same time only if the user retried it while it ran.     *)
(***************************************************************************)
NoDoubleRun ==
  \A v, w \in Workers : v # w /\ job[v] # None /\ job[v] = job[w] => job[v] \in rerun

\* A job that runs for the first time since it was queued has left the queue.
HeldIsNotQueued ==
  \A w \in Workers : job[w] \in Jobs \ rerun => status[job[w]] \in {"running", "canceled"}

RunInv == NoDoubleRun /\ HeldIsNotQueued

(***************************************************************************)
(* As long as nobody signalled a stop some worker serves the queue, however *)
(* stop(), start_result() and the end of a thread interleave: start_result *)
(* clears the event only when it starts a thread.                          *)
(***************************************************************************)
QueueIsServed == ~stopEvent => \E w \in Workers : worker[w] \in {"top", "claim", "run"}

(***************************************************************************)
(* A due job does not wait for ever: it is claimed, canceled or postponed, *)
(* unless the worker was told to stop or the database lock is stuck.       *)
(***************************************************************************)
DueJobIsClaimed == \A j \in Jobs : j \in due ~> (j \notin due \/ stopEvent \/ dbWedged)

-----------------------------------------------------------------------------
(* The ledger.  A queued row can be claimed once; a claimed one can be     *)
(* requeued while its attempts allow it; every further attempt costs one.  *)

Hungry(j) == {w \in Workers : job[w] = j /\ tries[w] <= MaxRetries}
Unused(j) == IF attempts[j] <= MaxRetries THEN MaxRetries - attempts[j] ELSE 0
Budget(j) ==
  IF status[j] = "queued" \/ Holders(j) # {}
  THEN (IF status[j] = "queued" THEN 1 ELSE 0) + Cardinality(Hungry(j)) + Unused(j)
  ELSE 0

Ledger == INSTANCE JobLedger WITH
  budget <- [j \in Jobs |-> Budget(j)],
  running <- job,
  Allowance <- MaxRetries + 1

(***************************************************************************)
(* Every execution is paid for by a request: "Max_retries" of a job bounds *)
(* its executions per request, whatever workers, retries, cancellations    *)
(* and restarts come in between.                                           *)
(***************************************************************************)
RunsArePaidFor == Ledger!Spec

-----------------------------------------------------------------------------
\* Not so in this code, see README section 4.
(***************************************************************************)
(* cancel_result() answers "Job #n status: ..." with the state of a job    *)
(* that has finished already, so the database stays reachable.             *)
(***************************************************************************)
CancelAnswers == \A c \in Callers : call[c] # "stuck"

\* Not so in this code, see README section 4.
(***************************************************************************)
(* cancel_result() answers "Job #n status: canceled."; from then on only a *)
(* retry may make the job run again.                                       *)
(***************************************************************************)
CanceledIsFinal ==
  [][\A j \in Jobs : status[j] = "canceled" /\ status'[j] # "canceled"
       => \E c \in Callers : Retry(c, j)]_vars

\* The safety properties do not tell jobs, workers or callers apart (for TLC).
Interchangeable == Permutations(Jobs) \cup Permutations(Workers) \cup Permutations(Callers)
=============================================================================
