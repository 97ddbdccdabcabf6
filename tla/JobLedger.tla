------------------------------ MODULE JobLedger ------------------------------
(***************************************************************************)
(* What the job queue of os_control/job_queue.py promises the user about a *)
(* queued command: every request (a "queue job" or a "job retry") buys at  *)
(* most Allowance executions, every execution is paid for, and nothing     *)
(* else - not a failure, a cancellation, a second worker or a restart -    *)
(* ever adds to what is left.                                              *)
(***************************************************************************)
EXTENDS Integers

CONSTANTS Jobs, Workers, Callers, None, Allowance

VARIABLES
  budget,     \* executions a job still may have
  running,    \* the job each worker thread executes, or None
  call        \* what each command thread is doing

vars == <<budget, running, call>>

Init ==
  /\ budget = [j \in Jobs |-> 0]
  /\ running = [w \in Workers |-> None]
  /\ call = [c \in Callers |-> "idle"]

NothingGained == \A j \in Jobs : budget'[j] \in 0 .. budget[j]

\* Command thread c has just asked for an execution.
Requesting(c) == call[c] = "idle" /\ call'[c] \in {"queueing", "retrying"}

Request(c, j) ==
  /\ Requesting(c)
  /\ \A d \in Callers \ {c} : call'[d] = call[d]
  /\ budget'[j] \in 0 .. budget[j] + Allowance
  /\ \A k \in Jobs \ {j} : budget'[k] = budget[k]
  /\ UNCHANGED running

Run(w, j) ==
  /\ running[w] = None
  /\ running' = [running EXCEPT ![w] = j]
  /\ budget[j] > 0
  /\ budget' = [budget EXCEPT ![j] = @ - 1]
  /\ UNCHANGED call

Finish(w) ==
  /\ running[w] # None
  /\ running' = [running EXCEPT ![w] = None]
  /\ NothingGained
  /\ UNCHANGED call

\* Any other step of a command thread.
OtherCall(c) ==
  /\ ~Requesting(c)
  /\ \A d \in Callers \ {c} : call'[d] = call[d]
  /\ NothingGained
  /\ UNCHANGED running

Restart ==
  /\ running' = [w \in Workers |-> None]
  /\ call' = [c \in Callers |-> "idle"]
  /\ NothingGained

Next ==
  \/ \E c \in Callers, j \in Jobs : Request(c, j)
  \/ \E w \in Workers, j \in Jobs : Run(w, j)
  \/ \E w \in Workers : Finish(w)
  \/ \E c \in Callers : OtherCall(c)
  \/ Restart

Spec == Init /\ [][Next]_vars
=============================================================================
