--------------------------- MODULE FileOperations ---------------------------
(***************************************************************************)
(* Files, the rollback store and batches: os_control/file_ops.py, the      *)
(* rollback rows of os_control/persistence.py, os_control/batch_ops.py.    *)
(* Threads (voice pipeline, desktop bridge, job worker) share all of it.   *)
(*                                                                         *)
(* A file operation first changes the disk and then records a row that     *)
(* says how to take it back; an undo takes the newest row, marks it, and   *)
(* then changes the disk.  A batch that fails undoes as many rows as the   *)
(* store grew by while it ran.                                             *)
(*                                                                         *)
(* Not modelled: spoken locations, fuzzy names, a destination that is      *)
(* already a folder when the request is made, and the confirmation itself  *)
(* (PinConfirmation): here a request is confirmed or not at any time.      *)
(***************************************************************************)
EXTENDS Integers, Sequences, FiniteSets, SequencesExt

CONSTANTS Threads, Paths, Files, Dirs,
          Trash, Gone, Unborn, None,
          Home,      \* per setting, where the items are at the beginning
          MaxRows,
          MaxSteps,
          MaxOutside \* policy changes and restarts

Items  == Files \cup Dirs
Places == Paths \cup Dirs \cup {Trash, Gone, Unborn}
Kinds  == {"mkdir", "undo", "other", "fail", "barred"}

Points == {"idle", "changed", "popped", "failed", "step", "count", "unwind"}

Steps == [id : 1 .. MaxSteps, kind : Kinds]

Commits == [todo : Seq(Steps), before : Int, created : Int, unwinding : BOOLEAN, left : Int,
            mine : SUBSET (1 .. MaxRows), undone : SUBSET (1 .. MaxRows), alone : BOOLEAN]

VARIABLES
  setting,    \* "files" or "batch": which inputs a behaviour has besides mkdir and undo
  loc,        \* where each item is: a path, inside a folder, in the rollback folder
  readOnly,   \* policy_engine._read_only_mode
  rows,       \* rollback_actions, oldest first
  request,    \* the file operation that waits for its confirmation, or None
  th,         \* what each thread is doing
  com,        \* the commit each thread runs, or None
  plan,       \* batch_manager._planned_commands: [id, kind]
  added,      \* number of steps ever added
  ran,        \* HISTORY: ids of the steps executed, with repetition
  dropped,    \* HISTORY: ids thrown away by a new plan or an abort
  undoneOk,   \* HISTORY: how often each row was taken back successfully
  outside,    \* number of policy changes and restarts so far
  torn        \* HISTORY: the process ended between a change and its record

fileVars  == <<setting, loc, readOnly, rows, request, undoneOk>>
batchVars == <<com, plan, added, ran, dropped>>
vars == <<setting, loc, readOnly, rows, request, th, com, plan, added, ran, dropped, undoneOk, outside, torn>>

Idle == [pc |-> "idle", arg |-> None]

Rows == [kind : {"remove", "move"}, from : Paths \cup Items, to : Paths, undone : BOOLEAN]

At(p)     == IF \E i \in Items : loc[i] = p THEN CHOOSE i \in Items : loc[i] = p ELSE None
Empty(d)  == \A i \in Items : loc[i] # d

Pending    == {r \in DOMAIN rows : ~rows[r].undone}
Newest     == CHOOSE r \in Pending : \A s \in Pending : s <= r

Init ==
  /\ setting \in {"files", "batch"}
  /\ loc = Home[setting]
  /\ readOnly = FALSE
  /\ rows = <<>>
  /\ request = None
  /\ th = [t \in Threads |-> Idle]
  /\ com = [t \in Threads |-> None]
  /\ plan = <<>>
  /\ added = 0
  /\ ran = <<>>
  /\ dropped = {}
  /\ undoneOk = [r \in 1 .. MaxRows |-> 0]
  /\ outside = 0
  /\ torn = FALSE

(***************************************************************************)
(* shutil.move(item, p): into a folder that is there; over a file that is  *)
(* there, but never a folder over a file.                                  *)
(***************************************************************************)
CanMove(i, p) == ~(i \in Dirs /\ At(p) \in Files)

Moved(i, p) ==
  LET there == At(p) IN
    IF there \in Dirs \ {i} THEN [loc EXCEPT ![i] = there]
    ELSE [j \in Items |-> IF j = i THEN p ELSE IF j = there THEN Gone ELSE loc[j]]

(***************************************************************************)
(* What a thread does after an operation: back to its caller, or on with   *)
(* the batch it commits.                                                   *)
(***************************************************************************)
Goes(t, pc, arg) == th' = [th EXCEPT ![t] = [pc |-> pc, arg |-> arg]]

\* A batch of another thread is no longer alone with the store.
Alone(t, c) == [u \in Threads |-> IF u = t \/ c[u] = None THEN c[u]
                                           ELSE [c[u] EXCEPT !.alone = FALSE]]

Return(t, ok, c) ==
  IF c[t] = None
  THEN Goes(t, "idle", None) /\ com' = c
  ELSE IF c[t].unwinding
       THEN Goes(t, "unwind", None) /\ com' = [c EXCEPT ![t].left = @ - 1]
       ELSE IF ok THEN Goes(t, "count", None) /\ com' = c
            ELSE /\ Goes(t, "unwind", None)
                 /\ com' = [c EXCEPT ![t].unwinding = TRUE, ![t].left = c[t].created]

(***************************************************************************)
(* create_directory_result(): makedirs fails on what exists; the row is    *)
(* recorded afterwards, in a database call of its own.                     *)
(***************************************************************************)
MakeDirectory(t, p) ==
  IF readOnly \/ At(p) # None
  THEN Return(t, FALSE, com) /\ UNCHANGED loc
  ELSE /\ \E d \in Dirs : loc[d] = Unborn /\ loc' = [loc EXCEPT ![d] = p]
       /\ Goes(t, "changed", [kind |-> "remove", from |-> p, to |-> p, undone |-> FALSE])
       /\ UNCHANGED com

CreateDirectory(t, p) ==
  /\ th[t].pc = "idle"
  /\ Len(rows) < MaxRows
  /\ MakeDirectory(t, p)
  /\ UNCHANGED <<setting, readOnly, rows, request, plan, added, ran, dropped, undoneOk, outside, torn>>

\* push_rollback_action().
PushRow(t) ==
  /\ th[t].pc = "changed"
  /\ Len(rows) < MaxRows
  /\ rows' = Append(rows, th[t].arg)
  /\ LET c == Alone(t, com) IN
       Return(t, TRUE, IF com[t] = None THEN c
                       ELSE [c EXCEPT ![t].mine = @ \cup {Len(rows) + 1}])
  /\ UNCHANGED <<setting, loc, readOnly, request, plan, added, ran, dropped, undoneOk, outside, torn>>

(***************************************************************************)
(* request_move_item(), request_rename_item(), request_delete_item() and   *)
(* request_copy_item() check the paths; execute_confirmed_file_operation() *)
(* runs later and looks only at the policy and the source.                 *)
(***************************************************************************)
Request(op, src, dst) ==
  /\ setting = "files"
  /\ request = None
  /\ At(src) # None
  /\ op \in {"move", "copy"} => At(dst) = None
  /\ op \in {"delete", "wipe"} => dst = src
  /\ request' = [op |-> op, src |-> src, dst |-> dst]
  /\ UNCHANGED <<setting, loc, readOnly, rows, th, undoneOk, outside, torn>> /\ UNCHANGED batchVars

Forget ==
  /\ request # None
  /\ request' = None
  /\ UNCHANGED <<setting, loc, readOnly, rows, th, undoneOk, outside, torn>> /\ UNCHANGED batchVars

Confirm(t) ==
  /\ request # None
  /\ th[t].pc = "idle"
  /\ Len(rows) < MaxRows
  /\ request' = None
  /\ LET i == At(request.src) IN
       \/ /\ readOnly \/ i = None
          /\ UNCHANGED <<loc, th>>
       \/ /\ ~readOnly /\ i # None /\ request.op = "move"
          /\ IF CanMove(i, request.dst)
             THEN /\ loc' = Moved(i, request.dst)
                  /\ Goes(t, "changed", [kind |-> "move", from |-> request.dst,
                                         to |-> request.src, undone |-> FALSE])
             ELSE UNCHANGED <<loc, th>>
       \/ /\ ~readOnly /\ i # None /\ request.op = "delete"
          /\ loc' = [loc EXCEPT ![i] = Trash]
          /\ Goes(t, "changed", [kind |-> "move", from |-> i, to |-> request.src,
                                 undone |-> FALSE])
       \/ /\ ~readOnly /\ i # None /\ request.op = "wipe"
          /\ loc' = [j \in Items |-> IF j = i \/ loc[j] = i THEN Gone ELSE loc[j]]
          /\ UNCHANGED th
       \/ /\ ~readOnly /\ i \in Files /\ request.op = "copy"
          /\ \E c \in Files :
               /\ loc[c] = Unborn
               /\ loc' = [j \in Items |->
                            IF j = c THEN (IF At(request.dst) \in Dirs THEN At(request.dst)
                                           ELSE request.dst)
                            ELSE IF j = At(request.dst) /\ j \in Files THEN Gone ELSE loc[j]]
          /\ UNCHANGED th
  /\ UNCHANGED <<setting, readOnly, rows, undoneOk, outside, torn>> /\ UNCHANGED batchVars

(***************************************************************************)
(* undo_last_action(): take the newest row and mark it, change the disk,   *)
(* and unmark it if that did not work.                                     *)
(***************************************************************************)

PopRow(t) ==
  IF Pending = {}
  THEN Return(t, FALSE, com) /\ UNCHANGED rows
  ELSE /\ rows' = [rows EXCEPT ![Newest].undone = TRUE]
       /\ Goes(t, "popped", Newest)
       /\ com' = LET c == Alone(t, com) IN
                   IF com[t] = None THEN c
                   ELSE [c EXCEPT ![t].undone = @ \cup {Newest},
                                  ![t].alone = @ /\ com[t].unwinding]

Undo(t) ==
  /\ th[t].pc = "idle"
  /\ PopRow(t)
  /\ UNCHANGED <<setting, loc, readOnly, request, plan, added, ran, dropped, undoneOk, outside, torn>>

\* What a row is about: an item of the rollback folder, or whatever is at its path now.
ItemOf(row) ==
  IF row.from \in Items THEN (IF loc[row.from] = Trash THEN row.from ELSE None)
  ELSE At(row.from)

Possible(row, item) ==
  /\ item # None
  /\ row.kind = "remove" /\ item \in Dirs => Empty(item)
  /\ row.kind = "move" => CanMove(item, row.to)

\* Deviation: the policy is not asked again.
AllowedBefore(row, item) == Possible(row, item)

Allowed(row, item) == ~readOnly /\ Possible(row, item)

TakeBack(t) ==
  /\ th[t].pc = "popped"
  /\ LET row  == rows[th[t].arg]
         item == ItemOf(row)
     IN IF Allowed(row, item)
        THEN /\ loc' = IF row.kind = "move" THEN Moved(item, row.to)
                       ELSE [loc EXCEPT ![item] = IF item \in Dirs THEN Unborn ELSE Gone]
             /\ undoneOk' = [undoneOk EXCEPT ![th[t].arg] = @ + 1]
             /\ Return(t, TRUE, com)
        ELSE /\ Goes(t, "failed", th[t].arg)
             /\ UNCHANGED <<loc, undoneOk, com>>
  /\ UNCHANGED <<setting, readOnly, rows, request, plan, added, ran, dropped, outside, torn>>

\* restore_rollback_action().
PutBack(t) ==
  /\ th[t].pc = "failed"
  /\ rows' = [rows EXCEPT ![th[t].arg].undone = FALSE]
  /\ LET c == Alone(t, com) IN
       Return(t, FALSE, IF com[t] = None THEN c
                        ELSE [c EXCEPT ![t].undone = @ \ {th[t].arg}])
  /\ UNCHANGED <<setting, loc, readOnly, request, plan, added, ran, dropped, undoneOk, outside, torn>>

(***************************************************************************)
(* BatchManager.  commit_result() takes the whole plan, refuses it if one  *)
(* step is of a barred intent, and runs the steps one by one.              *)
(***************************************************************************)
PlannedIds == {plan[k].id : k \in DOMAIN plan}

Plan ==
  /\ plan # <<>>
  /\ plan' = <<>>
  /\ dropped' = dropped \cup PlannedIds
  /\ UNCHANGED fileVars /\ UNCHANGED <<th, com, added, ran, outside, torn>>

Add(kind) ==
  /\ setting = "batch"
  /\ added < MaxSteps
  /\ added' = added + 1
  /\ plan' = Append(plan, [id |-> added + 1, kind |-> kind])
  /\ UNCHANGED fileVars /\ UNCHANGED <<th, com, ran, dropped, outside, torn>>

Barred == \E k \in DOMAIN plan : plan[k].kind = "barred"

PlanAfter == <<>>

Commit(t) ==
  /\ th[t].pc = "idle"
  /\ plan # <<>>
  /\ plan' = PlanAfter
  /\ IF Barred
     THEN /\ dropped' = dropped \cup PlannedIds
          /\ UNCHANGED <<th, com>>
     ELSE /\ com' = [com EXCEPT ![t] =
                       [todo |-> plan, before |-> Cardinality(Pending), created |-> 0,
                        unwinding |-> FALSE, left |-> 0,
                        mine |-> {}, undone |-> {}, alone |-> \A u \in Threads : th[u].pc = "idle"]]
          /\ Goes(t, "step", None)
          /\ UNCHANGED dropped
  /\ UNCHANGED fileVars /\ UNCHANGED <<added, ran, outside, torn>>

Step(t) ==
  /\ th[t].pc = "step"
  /\ com[t].todo # <<>>
  /\ Len(rows) < MaxRows
  /\ ran' = Append(ran, Head(com[t].todo).id)
  /\ LET kind == Head(com[t].todo).kind IN
       \/ kind = "mkdir" /\ (\E p \in Paths : MakeDirectory(t, p)) /\ UNCHANGED rows
       \/ kind = "undo"  /\ PopRow(t) /\ UNCHANGED loc
       \/ kind = "other" /\ Return(t, TRUE, com) /\ UNCHANGED <<loc, rows>>
       \/ kind = "fail"  /\ Return(t, FALSE, com) /\ UNCHANGED <<loc, rows>>
  /\ UNCHANGED <<setting, readOnly, request, plan, added, dropped, undoneOk, outside, torn>>

\* Deviation: rows are always counted from the beginning of the batch.
BaseStays(before, now) == before

Base(before, now) == now

\* count_pending_rollback_actions() after a step: only growth is counted.
Count(t) ==
  /\ th[t].pc = "count"
  /\ LET now == Cardinality(Pending) IN
       com' = [com EXCEPT ![t].created = IF now > com[t].before
                                         THEN @ + (now - com[t].before) ELSE @,
                          ![t].before = Base(@, now),
                          ![t].todo = Tail(@)]
  /\ Goes(t, "step", None)
  /\ UNCHANGED fileVars /\ UNCHANGED <<plan, added, ran, dropped, outside, torn>>

Unwind(t) ==
  /\ th[t].pc = "unwind"
  /\ com[t].left > 0
  /\ PopRow(t)
  /\ UNCHANGED <<setting, loc, readOnly, request, plan, added, ran, dropped, undoneOk, outside, torn>>

CommitEnds(t) ==
  /\ \/ th[t].pc = "step" /\ com[t].todo = <<>>
     \/ th[t].pc = "unwind" /\ com[t].left = 0
  /\ th' = [th EXCEPT ![t] = Idle]
  /\ com' = [com EXCEPT ![t] = None]
  /\ UNCHANGED fileVars /\ UNCHANGED <<plan, added, ran, dropped, outside, torn>>

(***************************************************************************)
(* PolicyEngine.set_read_only_mode(), and the end of the process, which    *)
(* keeps the disk and the database.                                        *)
(***************************************************************************)
SetReadOnly ==
  /\ outside < MaxOutside
  /\ outside' = outside + 1
  /\ readOnly' = ~readOnly
  /\ UNCHANGED <<setting, loc, rows, request, th, undoneOk, torn>> /\ UNCHANGED batchVars

Restart ==
  /\ outside < MaxOutside
  /\ outside' = outside + 1
  /\ torn' = (torn \/ \E t \in Threads : th[t].pc \in {"changed", "popped", "failed"})
  /\ th' = [t \in Threads |-> Idle]
  /\ com' = [t \in Threads |-> None]
  /\ request' = None
  /\ readOnly' = FALSE
  /\ plan' = <<>>
  /\ dropped' = dropped \cup PlannedIds
  /\ UNCHANGED <<setting, loc, rows, added, ran, undoneOk>>

Next ==
  \/ \E t \in Threads :
       \/ \E p \in Paths : CreateDirectory(t, p)
       \/ PushRow(t) \/ Confirm(t) \/ Undo(t) \/ TakeBack(t) \/ PutBack(t)
       \/ Commit(t) \/ Step(t) \/ Count(t) \/ Unwind(t) \/ CommitEnds(t)
  \/ \E op \in {"move", "copy", "delete", "wipe"}, src, dst \in Paths : Request(op, src, dst)
  \/ \E kind \in Kinds : Add(kind)
  \/ Forget \/ Plan \/ SetReadOnly \/ Restart

-----------------------------------------------------------------------------
TypeOK ==
  /\ setting \in {"files", "batch"}
  /\ loc \in [Items -> Places]
  /\ readOnly \in BOOLEAN
  /\ rows \in Seq(Rows) /\ Len(rows) <= MaxRows
  /\ \A p \in Paths : Cardinality({i \in Items : loc[i] = p}) <= 1
  /\ \A t \in Threads : th[t].pc \in Points
  /\ added \in 0 .. MaxSteps
  /\ outside \in 0 .. MaxOutside
  /\ dropped \subseteq 1 .. MaxSteps

\* A row of the rollback store is taken back at most once: two threads that undo
\* at the same time never replay one change, and a failed undo is retried, not lost
\* (pop_latest_rollback_action, restore_rollback_action).
UndoneOnce ==
  /\ \A r \in DOMAIN undoneOk : undoneOk[r] <= 1
  /\ \A r \in Pending : undoneOk[r] = 0

\* What was deleted softly can always be brought back: a row waits for it, or a
\* thread is between the disk and the row.  Only a process that ends in between
\* leaves an item in the rollback folder that no row knows.
TrashIsReachable ==
  torn \/ \A i \in Items : loc[i] = Trash =>
            \/ \E r \in Pending : rows[r].from = i
            \/ \E t \in Threads :
                 \/ th[t].pc = "changed" /\ th[t].arg.from = i
                 \/ th[t].pc \in {"popped", "failed"} /\ rows[th[t].arg].from = i

\* A planned step is executed at most once, by whichever thread commits the plan,
\* and never after the plan it was in was dropped (BatchManager._lock).
StepsRunOnce ==
  /\ \A k, l \in DOMAIN ran : ran[k] = ran[l] => k = l
  /\ ToSet(ran) \cap dropped = {}

\* A batch that fails takes back what it did and nothing else, as long as no
\* other thread touched the store meanwhile and no step of it was an undo.  The
\* count it goes by (batch_ops.py:101-147) says nothing otherwise.
BatchUndoesItsOwn ==
  \A t \in Threads : com[t] # None /\ com[t].alone =>
    /\ com[t].undone \subseteq com[t].mine
    /\ th[t].pc = "unwind" => com[t].left <= Cardinality(com[t].mine)
    /\ th[t].pc = "step" => com[t].created = Cardinality(com[t].mine)

\* Nothing on the disk changes while the policy is read-only: not by a request that
\* was confirmed later, not by an undo, not by a batch that was under way.
ReadOnlyHolds == [][readOnly => UNCHANGED loc]_vars
=============================================================================
