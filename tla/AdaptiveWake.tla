---------------------------- MODULE AdaptiveWake ---------------------------
(***************************************************************************)
(* Retraining of the wake-word model while it is in use: the daemon of     *)
(* core/adaptive_wake.py, the model cache of audio/wake_word.py, and the   *)
(* two threads that load through it (the listener, once per listen cycle,  *)
(* and the diagnosis).                                                     *)
(*                                                                         *)
(* A model is the number of the retrain that made it (0: the one that came *)
(* with the program), or Bad: a file that was written in part.  On Windows *)
(* shutil.move() onto a file that exists copies and then unlinks, so the   *)
(* promotion is not atomic.  The training itself and the samples are left  *)
(* out: a retrain stops early, is rejected, or produces a candidate.       *)
(***************************************************************************)
EXTENDS Naturals, FiniteSets

CONSTANTS
  Listener, Doctor,  \* the threads that load
  Absent,            \* no file, or an empty cache
  Bad,               \* a file that is not complete
  MinConfirmed,      \* ADAPTIVE_WAKE_MIN_CONFIRMED
  MaxConfirmed,
  MaxRetrains,
  MaxCycles,         \* listen cycles and diagnoses
  MaxFaults          \* promotions cut by an error, and restarts

Loaders == {Listener, Doctor}

VARIABLES
  confirmed,   \* _confirmed_since_last_train
  trained,     \* number of candidates made
  live, backup,  \* the model files
  daemon,      \* where the daemon is
  cache,       \* _unified_model
  load,        \* per loader: where it is, and the model it read or got
  up,          \* "up", "text" (the fallback loop) or "down" (an exception left run())
  cycles, wakeFaults,
  stale,       \* HISTORY: a model read before a promotion was stored, or stayed cached, after it
  unsure       \* HISTORY: a retrain backed up a damaged live file and did not get past that

awVars == <<confirmed, trained, live, backup, daemon, cache, load, up, cycles, wakeFaults, stale, unsure>>

Idle == [pc |-> "idle", read |-> Absent, late |-> FALSE]

Init ==
  /\ confirmed = 0 /\ trained = 0 /\ cycles = 0 /\ wakeFaults = 0
  /\ live = 0 /\ backup = Absent
  /\ daemon = "waiting"
  /\ cache = Absent
  /\ load = [t \in Loaders |-> Idle]
  /\ up = "up"
  /\ stale = FALSE /\ unsure = FALSE

files == <<live, backup>>
bounds == <<cycles, wakeFaults>>

(***************************************************************************)
(* _get_unified_model(): the cache is checked, the file is read, the       *)
(* result stored, and the cache read again for the answer.  Nothing locks. *)
(***************************************************************************)
Ask(t) ==
  /\ up = "up" /\ load[t].pc = "idle" /\ cycles < MaxCycles
  /\ cycles' = cycles + 1
  /\ load' = [load EXCEPT ![t].pc = IF cache # Absent THEN "answer" ELSE "load"]
  /\ UNCHANGED <<confirmed, trained, files, daemon, cache, up, wakeFaults, stale, unsure>>

\* A model that cannot be read is a RuntimeError: the listener's turns the program to text
\* input, the diagnosis notes it.
LoadFile(t) ==
  /\ load[t].pc = "load"
  /\ IF live = Bad
     THEN /\ load' = [load EXCEPT ![t] = Idle]
          /\ up' = IF t = Listener THEN "text" ELSE up
     ELSE /\ load' = [load EXCEPT ![t].pc = "store", ![t].read = live]
          /\ UNCHANGED up
  /\ UNCHANGED <<confirmed, trained, files, daemon, cache, bounds, stale, unsure>>

StoreModel(t) ==
  /\ load[t].pc = "store"
  /\ cache' = load[t].read
  /\ stale' = (load[t].late \/ (stale /\ load[t].read # live))
  /\ load' = [load EXCEPT ![t].pc = "answer"]
  /\ UNCHANGED <<confirmed, trained, files, daemon, up, bounds, unsure>>

\* The answer may be None: predict() of None is no RuntimeError, and leaves run().
Answer(t) ==
  /\ load[t].pc = "answer"
  /\ load' = [load EXCEPT ![t] = IF t = Listener /\ cache # Absent
                                 THEN [Idle EXCEPT !.pc = "listening", !.read = cache] ELSE Idle]
  /\ up' = IF t = Listener /\ cache = Absent THEN "down" ELSE up
  /\ UNCHANGED <<confirmed, trained, files, daemon, cache, bounds, stale, unsure>>

\* The cycle ends: a wake word that speech followed, one that nothing followed, or the end
\* of the follow-up window.
Detect(speech) ==
  /\ up = "up" /\ load[Listener].pc = "listening"
  /\ speech => confirmed < MaxConfirmed
  /\ confirmed' = IF speech THEN confirmed + 1 ELSE confirmed
  /\ load' = [load EXCEPT ![Listener] = Idle]
  /\ UNCHANGED <<trained, files, daemon, cache, up, bounds, stale, unsure>>

(***************************************************************************)
(* _daemon_loop() and _run_retrain().                                      *)
(***************************************************************************)
RetrainDue ==
  /\ daemon = "waiting" /\ up = "up"
  /\ confirmed >= MinConfirmed
  /\ trained < MaxRetrains
  /\ daemon' = "training"
  /\ UNCHANGED <<confirmed, trained, files, cache, load, up, bounds, stale, unsure>>

\* No base clips, an error, or an accuracy below the minimum: the counter stays, so the
\* next interval trains again.
Reject ==
  /\ daemon = "training"
  /\ wakeFaults < MaxFaults
  /\ wakeFaults' = wakeFaults + 1
  /\ daemon' = "waiting"
  /\ UNCHANGED <<confirmed, trained, files, cache, load, up, cycles, stale, unsure>>

\* The candidate is exported, and the live model copied to the backup.
\* Deviation: the live file is given up before it is copied.
CopyLiveLate ==
  /\ daemon = "training"
  /\ trained' = trained + 1
  /\ backup' = Bad /\ live' = Bad
  /\ daemon' = "copying"
  /\ unsure' = (live = Bad)
  /\ UNCHANGED <<confirmed, cache, load, up, bounds, stale>>

CopyLive ==
  /\ daemon = "training"
  /\ trained' = trained + 1
  /\ backup' = Bad
  /\ daemon' = "copying"
  /\ unsure' = (live = Bad)
  /\ UNCHANGED <<confirmed, live, cache, load, up, bounds, stale>>

BackUp ==
  /\ daemon = "copying"
  /\ backup' = live
  /\ live' = Bad
  /\ daemon' = "moving"
  /\ UNCHANGED <<confirmed, trained, cache, load, up, bounds, stale, unsure>>

Promote ==
  /\ daemon = "moving"
  /\ live' = trained
  /\ daemon' = "promoted"
  /\ unsure' = FALSE
  /\ UNCHANGED <<confirmed, trained, backup, cache, load, up, bounds, stale>>

\* The copy or the move fails: the daemon logs it and waits for the next interval.
MoveFails ==
  /\ daemon \in {"copying", "moving"} /\ wakeFaults < MaxFaults
  /\ wakeFaults' = wakeFaults + 1
  /\ daemon' = "waiting"
  /\ UNCHANGED <<confirmed, trained, files, cache, load, up, cycles, stale, unsure>>

\* The copy is complete and the removal of the candidate fails: the new model is in its place, and
\* nobody is told; what is read or cached is the one before.
UnlinkFails ==
  /\ daemon = "moving" /\ wakeFaults < MaxFaults
  /\ wakeFaults' = wakeFaults + 1
  /\ live' = trained /\ daemon' = "waiting"
  /\ load' = [t \in Loaders |-> [load[t] EXCEPT !.late = load[t].pc = "store" /\ load[t].read # trained]]
  /\ stale' = (cache # Absent) /\ unsure' = FALSE
  /\ UNCHANGED <<confirmed, trained, backup, cache, up, cycles>>

Invalidated == Absent

Invalidate ==
  /\ daemon = "promoted"
  /\ cache' = Invalidated
  /\ load' = [t \in Loaders |-> [load[t] EXCEPT !.late = load[t].pc = "store" /\ load[t].read # live]]
  /\ stale' = FALSE
  /\ daemon' = "counting"
  /\ UNCHANGED <<confirmed, trained, files, up, bounds, unsure>>

CountRetrain ==
  /\ daemon = "counting"
  /\ confirmed' = 0
  /\ daemon' = "waiting"
  /\ UNCHANGED <<trained, files, cache, load, up, bounds, stale, unsure>>

\* The process ends, whatever the daemon was doing (stop_daemon() waits five seconds and
\* then leaves it), and starts again.
StartAgain ==
  /\ wakeFaults < MaxFaults
  /\ wakeFaults' = wakeFaults + 1
  /\ confirmed' = 0
  /\ daemon' = "waiting"
  /\ cache' = Absent
  /\ load' = [t \in Loaders |-> Idle]
  /\ up' = "up"
  /\ stale' = FALSE
  /\ UNCHANGED <<trained, files, cycles, unsure>>

Loads(t) == LoadFile(t) \/ StoreModel(t) \/ Answer(t)
Retrains == RetrainDue \/ CopyLive \/ BackUp \/ Promote \/ Invalidate \/ CountRetrain

Next ==
  \/ \E t \in Loaders : Ask(t) \/ Loads(t)
  \/ \E speech \in BOOLEAN : Detect(speech)
  \/ Retrains \/ Reject \/ MoveFails \/ UnlinkFails \/ StartAgain

-----------------------------------------------------------------------------
Models == 0 .. MaxRetrains

TypeOK ==
  /\ live \in Models \cup {Bad} /\ backup \in Models \cup {Absent, Bad}
  /\ cache \in Models \cup {Absent}
  /\ daemon \in {"waiting", "training", "copying", "moving", "promoted", "counting"}
  /\ \A t \in Loaders : load[t].pc \in {"idle", "load", "store", "answer", "listening"}
  /\ confirmed \in 0 .. MaxConfirmed /\ up \in {"up", "text", "down"}

\* There is always a complete model on disk, and the backup is the one before the live
\* one, whatever step of a promotion is cut.  A promotion that fails twice in one process
\* may lose both: the second backup copies the damaged file.
ModelOnDisk ==
  ~unsure =>
    /\ {live, backup} \cap Models # {}
    /\ live \in Models /\ backup \in Models => backup < live

\* Once a retrain is counted, what is cached is the promoted model, unless a load that had
\* read the file before was stored after the invalidation, or the move failed at its end.
SwapIsSeen ==
  daemon \in {"counting", "waiting"} /\ cache # Absent /\ ~stale /\ live # Bad => cache = live
=============================================================================
