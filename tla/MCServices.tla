----------------------------- MODULE MCServices ----------------------------
(* The background services for TLC: one of them at a time.                 *)
EXTENDS Naturals, Sequences, TLC

CONSTANTS
  Docs, Missing, Blank, Pollers, Caller, MaxChanges, MaxOrders, MaxWriteErrors, Watchdog,
  EnabledAtStart,
  MemoryTurns, MemoryChanges, MaxRuns, MaxFaults, Nothing,
  outerFile, innerFile, outer, inner, Indexer, Asker, Nobody, MaxAsks, MaxMoves,
  Names, MaxShown,
  Listener, Doctor, Absent, Bad, MinConfirmed, MaxConfirmed, MaxRetrains, MaxCycles

VARIABLES
  part,
  watchdog, enabled, folder, changes, kb, saved, lock, user, handle, stopped, sig, sigNow,
  orders, writeErrors, behind, torn, overtaken,
  mem, backend, step, db, json, dbUp, memoryChanges, runs, faults, failed, unsaved,
  durable,
  present, rows, tracked, indexed, dbLock, walk, stopping, asks, moves, seen, last,
  entries, recurring, timer, tasks, shown, created, canceled, inHand, missed, lost,
  confirmed, trained, live, backup, daemon, cache, load, up, cycles, wakeFaults, stale, unsure

kbVars == <<watchdog, enabled, folder, changes, kb, saved, lock, user, handle, stopped, sig,
            sigNow, orders, writeErrors, behind, torn, overtaken>>
memoryVars == <<mem, backend, step, db, json, dbUp, memoryChanges, runs, faults, failed, unsaved,
               durable>>
siVars == <<present, rows, tracked, indexed, dbLock, walk, stopping, asks, moves, seen, last>>
reVars == <<entries, recurring, timer, tasks, shown, created, canceled, inHand, missed, lost>>
awVars == <<confirmed, trained, live, backup, daemon, cache, load, up, cycles, wakeFaults, stale,
            unsure>>
servicesVars == <<part, kbVars, memoryVars, siVars, reVars, awVars>>

\* Two roots, one inside the other, and a file in each.
Files == {outerFile, innerFile}
Order == <<outer, inner>>
Under == [r \in {outer, inner} |-> IF r = outer THEN Files ELSE {innerFile}]

\* Many changes, many orders (two workers take three) or a write that fails.
Spent == {<<0, 1, 1>>, <<1, 0, 1>>, <<1, 1, 0>>}

KB == INSTANCE KnowledgeBase WITH None <- Nobody, stopping <- stopped
SM == INSTANCE SessionMemory WITH changes <- memoryChanges, MaxChanges <- MemoryChanges, MaxTurns <- MemoryTurns
SI == INSTANCE SearchIndex
RE == INSTANCE Reminders
AW == INSTANCE AdaptiveWake

\* The limits are numbers, and a memory has room for a turn.
ASSUME ServicesAssumption ==
  /\ MaxChanges \in Nat /\ MaxOrders \in Nat /\ MaxWriteErrors \in Nat
  /\ MemoryTurns \in Nat \ {0} /\ MemoryChanges \in Nat
  /\ MaxRuns \in Nat /\ MaxFaults \in Nat /\ MaxAsks \in Nat /\ MaxMoves \in Nat /\ MaxShown \in Nat
  /\ MinConfirmed \in Nat /\ MaxConfirmed \in Nat /\ MaxRetrains \in Nat /\ MaxCycles \in Nat

\* What stands for no thread, root, content or model is none.
ASSUME NothingAssumption ==
  /\ Nobody \notin Pollers \cup {Caller, Indexer, Asker, outer, inner} /\ Caller \notin Pollers /\ outer # inner
  /\ Missing \notin Nat /\ Blank \notin Nat /\ Absent \notin Nat /\ Bad \notin Nat /\ Absent # Bad
  /\ Nothing \notin [turns : Seq(Nat), slots : Nat, pending : Nat]

ServicesInit ==
  /\ part \in {"kb", "memory", "index", "reminders", "wake"}
  /\ KB!Init /\ SM!Init /\ SI!Init /\ RE!Init /\ AW!Init
  /\ part # "memory" => json = Nothing
  /\ part # "kb" => orders = 0

OfKb(A)        == part = "kb" /\ A /\ UNCHANGED <<part, memoryVars, siVars, reVars, awVars>>
OfMemory(A)    == part = "memory" /\ A /\ UNCHANGED <<part, kbVars, siVars, reVars, awVars>>
OfIndex(A)     == part = "index" /\ A /\ UNCHANGED <<part, kbVars, memoryVars, reVars, awVars>>
OfReminders(A) == part = "reminders" /\ A /\ UNCHANGED <<part, kbVars, memoryVars, siVars, awVars>>
OfWake(A)      == part = "wake" /\ A /\ UNCHANGED <<part, kbVars, memoryVars, siVars, reVars>>

ServicesNext ==
  \/ OfKb(KB!Next) \/ OfMemory(SM!Next) \/ OfIndex(SI!Next)
  \/ OfReminders(RE!Next) \/ OfWake(AW!Next)

\* Every thread that can go on does: the worker and the caller of each component and the
\* timers of the reminders.
ServicesFairness ==
  /\ (\A w \in Pollers : WF_servicesVars(OfKb(KB!Works(w)))) /\ WF_servicesVars(OfKb(KB!Answers))
  /\ WF_servicesVars(OfIndex(SI!IndexerWorks)) /\ WF_servicesVars(OfIndex(SI!Steps(Asker)))
  /\ \A n \in Names : WF_servicesVars(OfReminders(RE!Fires(n)))

ServicesSpec == ServicesInit /\ [][ServicesNext]_servicesVars /\ ServicesFairness

\* The stores keep what they were given and find what they keep, over threads, failures of the
\* disk and restarts: see KnowledgeBase, SessionMemory and SearchIndex.
StoresAreSound ==
  /\ KB!TypeOK /\ KB!Aligned /\ KB!Durable
  /\ SM!TypeOK /\ SM!SavedWhenAnswered /\ SM!FreshStart /\ SM!RestartRemembers
  /\ SI!TypeOK /\ SI!FoundUnderItsRoot /\ SI!NothingStale

\* A reminder that was accepted is shown or still due, see Reminders.
RemindersComeDue == RE!TypeOK /\ RE!ListedIsLive /\ RE!ShownOrDue

\* A promotion cut anywhere leaves a model, and a finished one is used, see AdaptiveWake.
WakeModelIsKept == AW!TypeOK /\ AW!ModelOnDisk /\ AW!SwapIsSeen

\* The services follow what happens outside, and a canceled reminder stays silent: see
\* KnowledgeBase, SearchIndex and Reminders.
ServicesFollow ==
  /\ part = "kb" => KB!KnowledgeFollows
  /\ part = "index" => SI!IndexFollows
  /\ RE!ReminderComes
  /\ RE!CancelHolds
=============================================================================
