----------------------------- MODULE MCRequests -----------------------------
(* What a sensitive request may do, for TLC: the spoken PIN, the file      *)
(* operations with their undo and the action log, one of them at a time.   *)
(* Requests and threads are interchangeable.                               *)
EXTENDS PinConfirmation, TLC

CONSTANTS
  client, r1, r2,
  Threads, Paths, Files, Dirs, Trash, Gone, Unborn, Home, MaxRows, MaxSteps, MaxOutside,
  p, f, copied, d1, d2, MaxEntries

VARIABLES
  part,
  scene, loc, readOnly, rows, request, th, com, plan, added, ran, dropped, undoneOk, outside, torn,
  table, text, logger, edited, lostLines, edits

filesVars == <<scene, loc, readOnly, rows, request, th, com, plan, added, ran, dropped,
               undoneOk, outside, torn>>
auditVars == <<table, text, logger, edited, lostLines, edits>>
requestsVars == <<part, vars, filesVars, auditVars>>

MCCallers  == {Voice, client}
MCRequested == {r1, r2}
MCHome == [files |-> f :> p @@ d2 :> Gone @@ copied :> Unborn @@ d1 :> Unborn,
           batch |-> f :> Gone @@ copied :> Gone @@ d1 :> Unborn @@ d2 :> Unborn]

Interchangeable == Permutations(MCRequested) \cup Permutations(Threads)

Operations == INSTANCE FileOperations WITH setting <- scene
Audit      == INSTANCE AuditLog WITH Loggers <- Threads, NoRow <- None

ASSUME LogAssumption == MaxEntries \in Nat /\ None \notin Nat

\* Where things are at the beginning: at paths, at most one at each, or not anywhere yet.
ASSUME FilesAssumption ==
  /\ MaxRows \in Nat /\ MaxSteps \in Nat /\ MaxOutside \in Nat
  /\ Paths \cap Operations!Items = {}
  /\ {Trash, Gone, Unborn} \cap (Paths \cup Operations!Items) = {}
  /\ Trash # Gone /\ Trash # Unborn /\ Gone # Unborn
  /\ None \notin Operations!Items /\ None \notin Operations!Commits
  /\ \A start \in {"files", "batch"} :
       /\ Home[start] \in [Operations!Items -> Operations!Places \ {Trash}]
       /\ \A i, j \in Operations!Items :
            Home[start][i] = Home[start][j] => i = j \/ Home[start][i] \notin Paths

\* A part that is not played starts in one state.
RequestsInit ==
  /\ part \in {"pin", "files", "audit"}
  /\ Init /\ Operations!Init /\ Audit!Init
  /\ part # "pin" => ~arabic /\ ~desktop
  /\ part # "files" => scene = "files"

RequestsNext ==
  \/ part = "pin" /\ Next /\ UNCHANGED <<part, filesVars, auditVars>>
  \/ part = "files" /\ Operations!Next /\ UNCHANGED <<part, vars, auditVars>>
  \/ part = "audit" /\ Audit!Next /\ UNCHANGED <<part, vars, filesVars>>

RequestsSpec == RequestsInit /\ [][RequestsNext]_requestsVars

\* Changes of files are undone once, only by the batch or the user they belong to, and what
\* was deleted can be brought back, see FileOperations.
FilesAreSafe ==
  /\ Operations!TypeOK /\ Operations!UndoneOnce /\ Operations!TrashIsReachable
  /\ Operations!StepsRunOnce /\ Operations!BatchUndoesItsOwn

\* While the policy is read-only nothing on the disk changes, see FileOperations.
ReadOnlyHolds == Operations!ReadOnlyHolds

\* The log of actions tells every edit from outside and nothing else, see AuditLog.
LogTellsEdits == Audit!TypeOK /\ Audit!ChainTellsEdits /\ Audit!LinesMatchRows
=============================================================================
