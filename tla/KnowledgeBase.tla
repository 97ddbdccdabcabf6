--------------------------- MODULE KnowledgeBase ---------------------------
(***************************************************************************)
(* The knowledge base: core/knowledge_base.py.  Files of one folder become *)
(* rows of _meta, rows of _vectors at the same positions and an entry of   *)
(* _source_state; three files keep them across restarts.  A polling worker *)
(* and commands synchronise the folder: listing and reading happen without *)
(* the lock, storing and pruning under it.                                 *)
(*                                                                         *)
(* A file stands for one chunk.  Its content is the number of the change   *)
(* that wrote it, so size and time always tell two contents apart (the     *)
(* code rounds the time to seconds).  FAISS, scores and the text of the    *)
(* prompt are left out; a search does not change the state.                *)
(***************************************************************************)
EXTENDS Naturals, Sequences, FiniteSets

CONSTANTS
  Docs, Missing, Blank,   \* a file that is not there; one without readable text
  Pollers, Caller,        \* the polling threads and the thread that runs commands
  None,
  MaxChanges,             \* changes of files
  MaxOrders,              \* commands and restarts
  MaxWriteErrors,         \* saves that fail
  Spent,                  \* what may be used of these three bounds at the start
  Watchdog, EnabledAtStart \* the possible values of the two settings

Users == Pollers \cup {Caller}

VARIABLES
  watchdog,  \* _WATCHDOG_AVAILABLE
  enabled,   \* _auto_sync_enabled as configured
  folder,    \* content of each file
  changes,   \* number of changes of files
  kb,        \* [meta, vec: Seq of <<doc, content>>, src: content per doc]
  saved,     \* the same, on disk
  lock,      \* holder of _lock
  user,      \* per thread: where it is, the files to visit, the files listed, the text read
  handle,    \* _auto_sync_thread
  stopping,  \* _auto_sync_stop_event, which all polling threads share
  sig,       \* _auto_sync_last_signature
  sigNow,    \* per worker: the signature it took before it started to synchronise
  orders, writeErrors,
  behind,    \* HISTORY: the last save failed
  torn,      \* HISTORY: a process started from a cut save, and nothing was cleared since
  overtaken  \* HISTORY: files that a command or one of two workers stored late, pruned or
             \* cleared since they changed

kbVars == <<watchdog, enabled, folder, changes, kb, saved, lock, user, handle, stopping, sig,
            sigNow, orders, writeErrors, behind, torn, overtaken>>

Contents == {Missing, Blank} \cup 1 .. MaxChanges
Empty    == [meta |-> <<>>, vec |-> <<>>, src |-> [d \in Docs |-> Missing]]
At(pc)   == [pc |-> pc, todo |-> {}, listed |-> {}, doc |-> None, text |-> None, prunes |-> FALSE]

Init ==
  /\ watchdog \in Watchdog
  /\ enabled \in EnabledAtStart
  /\ folder = [d \in Docs |-> Missing]
  /\ \E s \in Spent : changes = s[1] /\ orders = s[2] /\ writeErrors = s[3]
  /\ kb = Empty
  /\ saved = Empty
  /\ lock = None
  /\ user = [t \in Users |-> IF t = Caller THEN At("new") ELSE At("off")]
  /\ handle = None /\ stopping = FALSE
  /\ sig = None
  /\ sigNow = [w \in Pollers |-> None]
  /\ behind = FALSE /\ torn = FALSE
  /\ overtaken = {}

settings == <<watchdog, enabled>>
outside  == <<folder, changes>>
signs    == <<sig, sigNow>>
polling  == <<handle, stopping>>
disk     == <<saved, writeErrors, behind>>
histories == <<orders, torn, overtaken>>

(***************************************************************************)
(* _remove_source_chunks_locked() keeps the vectors at the positions of    *)
(* the rows it keeps; when a torn store has fewer vectors, it fails after  *)
(* the rows are gone.  _append_records_locked() adds to all three.         *)
(***************************************************************************)
Keep(k, d)  == {i \in DOMAIN k.meta : k.meta[i][1] # d}
Kth(I, k)   == CHOOSE i \in I : Cardinality({j \in I : j <= i}) = k
Pick(s, I)  == [k \in 1 .. Cardinality(I) |-> s[Kth(I, k)]]
Known(k, d) == \E i \in DOMAIN k.meta : k.meta[i][1] = d
Fails(k, d) == Known(k, d) /\ k.vec # <<>> /\ ~(Keep(k, d) \subseteq DOMAIN k.vec)

Vectors(k, d) == IF k.vec = <<>> THEN <<>> ELSE Pick(k.vec, Keep(k, d))

Without(k, d) ==
  IF ~Known(k, d) THEN k
  ELSE IF Fails(k, d) THEN [k EXCEPT !.meta = Pick(@, Keep(k, d))]
  ELSE [meta |-> Pick(k.meta, Keep(k, d)), vec |-> Vectors(k, d), src |-> [k.src EXCEPT ![d] = Missing]]

With(k, d, text) ==
  LET w == Without(k, d) IN
    [meta |-> Append(w.meta, <<d, text>>), vec |-> Append(w.vec, <<d, text>>),
     src  |-> [w.src EXCEPT ![d] = text]]

(***************************************************************************)
(* The first call of any operation loads the files, under the lock, and    *)
(* starts the automatic synchronisation if it is configured.               *)
(***************************************************************************)
Initialize ==
  /\ user[Caller].pc = "new"
  /\ lock = None
  /\ kb' = saved
  /\ lock' = IF enabled THEN Caller ELSE None
  /\ user' = [user EXCEPT ![Caller] = At(IF enabled THEN "starting" ELSE "idle")]
  /\ UNCHANGED <<settings, outside, disk, polling, signs, histories>>

Order(u) ==
  /\ user[Caller].pc = "idle"
  /\ orders < MaxOrders
  /\ orders' = orders + 1
  /\ user' = [user EXCEPT ![Caller] = u]
  /\ UNCHANGED <<settings, outside, kb, disk, lock, signs, torn, overtaken>>

\* set_auto_sync().  stop_auto_sync() waits a second for the worker, which may take longer.
SetAutoSync(on) ==
  /\ Order(At(IF on THEN "starting" ELSE "idle"))
  /\ handle' = IF on THEN handle ELSE None
  /\ stopping' = (stopping \/ ~on)

Alive(w) == user[w].pc # "off"
Another  == CHOOSE w \in Pollers : ~Alive(w)

\* start_auto_sync(): with watchdog installed, _start_watchdog() asks for the lock that
\* its caller holds: no step leads on from there.  A second worker starts while the one
\* before has not seen that it was stopped, which it then never does.
StartAutoSync ==
  /\ user[Caller].pc = "starting"
  /\ lock = None
  /\ IF watchdog
     THEN lock' = Caller /\ UNCHANGED <<user, polling>>
     ELSE /\ UNCHANGED lock
          /\ IF handle # None
             THEN UNCHANGED polling /\ user' = [user EXCEPT ![Caller] = At("idle")]
             ELSE /\ \E w \in Pollers : ~Alive(w)
                  /\ handle' = Another /\ stopping' = FALSE
                  /\ user' = [user EXCEPT ![Caller] = At("idle"), ![Another] = At("idle")]
  /\ UNCHANGED <<settings, outside, kb, disk, signs, histories>>

OrderClear == Order(At("clear")) /\ UNCHANGED polling

(***************************************************************************)
(* _auto_sync_loop().  The signature is taken before the folder is listed  *)
(* and kept after everything is stored.                                    *)
(***************************************************************************)
Sync == [At("list") EXCEPT !.prunes = TRUE]

Sign(w) ==
  /\ user[w].pc = "idle" /\ ~stopping
  /\ folder # sig
  /\ sigNow' = [sigNow EXCEPT ![w] = folder]
  /\ user' = [user EXCEPT ![w] = Sync]
  /\ UNCHANGED <<settings, outside, kb, disk, lock, polling, sig, histories>>

\* Deviation: the signature kept is that of the folder after the sync.
SignatureAfter(w) == folder

Signature(w) == sigNow[w]

KeepSignature(w) ==
  /\ user[w].pc = "done"
  /\ sig' = Signature(w)
  /\ sigNow' = [sigNow EXCEPT ![w] = None]
  /\ user' = [user EXCEPT ![w] = At("idle")]
  /\ UNCHANGED <<settings, outside, kb, disk, lock, polling, histories>>

WorkerEnds(w) ==
  /\ user[w].pc = "idle" /\ stopping
  /\ user' = [user EXCEPT ![w] = At("off")]
  /\ UNCHANGED <<settings, outside, kb, disk, lock, polling, signs, histories>>

(***************************************************************************)
(* sync_directory(), index_directory() and add_document().                 *)
(***************************************************************************)
Exists(d) == folder[d] # Missing

SyncDirectory  == Order(Sync) /\ UNCHANGED polling
IndexDirectory == Order(At("list")) /\ UNCHANGED polling
AddDocument(d) ==
  /\ Exists(d)
  /\ Order([At("walk") EXCEPT !.todo = {d}]) /\ UNCHANGED polling

Files == {d \in Docs : Exists(d)}
Readable(d) == folder[d] \in 1 .. MaxChanges

List(t) ==
  /\ user[t].pc = "list"
  /\ user' = [user EXCEPT ![t].pc = "walk", ![t].todo = Files, ![t].listed = Files]
  /\ UNCHANGED <<settings, outside, kb, disk, lock, polling, signs, histories>>

Read(t) ==
  /\ user[t].pc = "walk"
  /\ \E d \in user[t].todo :
       user' = [user EXCEPT ![t].todo = @ \ {d},
                            ![t].pc = IF Readable(d) THEN "store" ELSE "walk",
                            ![t].doc = IF Readable(d) THEN d ELSE None,
                            ![t].text = IF Readable(d) THEN folder[d] ELSE None]
  /\ UNCHANGED <<settings, outside, kb, disk, lock, polling, signs, histories>>

Walked(t) ==
  /\ user[t].pc = "walk"
  /\ user[t].todo = {}
  /\ user' = [user EXCEPT ![t] = IF user[t].prunes THEN [@ EXCEPT !.pc = "prune"] ELSE At("idle")]
  /\ UNCHANGED <<settings, outside, kb, disk, lock, polling, signs, histories>>

\* A worker that is alone synchronises again what it stored or pruned too late.
Alone(t) == t # Caller /\ \A w \in Pollers \ {t} : ~Alive(w)

Back(u) == [u EXCEPT !.pc = "walk", !.doc = None, !.text = None]

Store(t) ==
  /\ user[t].pc = "store"
  /\ lock = None
  /\ LET d == user[t].doc  text == user[t].text IN
       IF kb.src[d] = text
       THEN /\ user' = [user EXCEPT ![t] = Back(@)]
            /\ UNCHANGED <<kb, lock, overtaken>>
       ELSE IF Fails(kb, d)
       THEN /\ user' = [user EXCEPT ![t] = At("idle")]
            /\ kb' = Without(kb, d)
            /\ UNCHANGED <<lock, overtaken>>
       ELSE /\ kb' = With(kb, d, text)
            /\ lock' = t
            /\ user' = [user EXCEPT ![t].pc = "save"]
            /\ overtaken' = IF ~Alone(t) /\ text # folder[d] THEN overtaken \cup {d} ELSE overtaken
  /\ UNCHANGED <<settings, outside, disk, polling, signs, orders, torn>>

Dropped(t) == {d \in Docs : kb.src[d] # Missing /\ Known(kb, d) /\ d \notin user[t].listed}

Prune(t) ==
  /\ user[t].pc = "prune"
  /\ lock \in {None, t}
  /\ IF Dropped(t) = {}
     THEN /\ user' = [user EXCEPT ![t].pc = "save all"]
          /\ lock' = t
          /\ UNCHANGED <<kb, overtaken>>
     ELSE \E d \in Dropped(t) :
            /\ kb' = Without(kb, d)
            /\ IF Fails(kb, d)
               THEN lock' = None /\ user' = [user EXCEPT ![t] = At("idle")]
               ELSE lock' = t /\ UNCHANGED user
            /\ overtaken' = IF ~Alone(t) /\ Exists(d) THEN overtaken \cup {d} ELSE overtaken
  /\ UNCHANGED <<settings, outside, disk, polling, signs, orders, torn>>

\* Deviation: what was cleared is not written.
ClearMemory ==
  /\ user[Caller].pc = "clear"
  /\ lock = None
  /\ kb' = Empty
  /\ user' = [user EXCEPT ![Caller] = At("idle")]
  /\ overtaken' = Docs
  /\ UNCHANGED <<settings, outside, disk, lock, polling, signs, orders, torn>>

\* clear(), asked for by a command.
Clear ==
  /\ user[Caller].pc = "clear"
  /\ lock = None
  /\ kb' = Empty
  /\ lock' = Caller
  /\ user' = [user EXCEPT ![Caller].pc = "save all"]
  /\ overtaken' = Docs
  /\ UNCHANGED <<settings, outside, disk, polling, signs, orders, torn>>

(***************************************************************************)
(* _save_to_disk(), and the release of the lock.  Of the files that are    *)
(* written n are complete and the next one may be cut, which makes it load *)
(* as empty; the last one is the index, which is built again.              *)
(***************************************************************************)
Save(t) ==
  /\ user[t].pc \in {"save", "save all"}
  /\ saved' = kb
  /\ lock' = None
  /\ user' = [user EXCEPT ![t] = IF @.pc = "save" THEN Back(@)
                                ELSE At(IF t = Caller THEN "idle" ELSE "done")]
  /\ behind' = FALSE
  /\ torn' = (torn /\ kb # Empty)
  /\ UNCHANGED <<settings, outside, kb, writeErrors, polling, signs, orders, overtaken>>

Cut(n, cut) ==
  [meta |-> IF n >= 1 THEN kb.meta ELSE IF cut THEN <<>> ELSE saved.meta,
   src  |-> IF n >= 2 THEN kb.src ELSE IF n = 1 /\ cut THEN Empty.src ELSE saved.src,
   vec  |-> IF n >= 3 THEN kb.vec ELSE IF n = 2 /\ cut THEN <<>> ELSE saved.vec]

\* An error of a write ends the synchronisation or the command; memory keeps what it has.
SaveFails(t) ==
  /\ user[t].pc \in {"save", "save all"}
  /\ writeErrors < MaxWriteErrors
  /\ writeErrors' = writeErrors + 1
  /\ \E n \in 0 .. 3, cut \in BOOLEAN : saved' = Cut(n, cut)
  /\ lock' = None
  /\ user' = [user EXCEPT ![t] = At("idle")]
  /\ behind' = TRUE
  /\ UNCHANGED <<settings, outside, kb, polling, signs, histories>>

(***************************************************************************)
(* The world: files change, and the process may end at any time, also      *)
(* while it saves.                                                         *)
(***************************************************************************)
Change(d, content) ==
  /\ changes < MaxChanges
  /\ changes' = changes + 1
  /\ content \in {changes + 1, Blank, Missing} \ {folder[d]}
  /\ folder' = [folder EXCEPT ![d] = content]
  \* What came and went between two signatures is not noticed.
  /\ overtaken' = IF folder' \in {sig} \cup {sigNow[w] : w \in Pollers}
                  THEN overtaken \cup {x \in Docs : folder'[x] = Missing}
                  ELSE overtaken \ {d}
  /\ UNCHANGED <<settings, kb, disk, lock, user, polling, signs, orders, torn>>

Saving == \E t \in Users : user[t].pc \in {"save", "save all"}

Restart ==
  /\ orders < MaxOrders
  /\ user[Caller].pc # "new"
  /\ orders' = orders + 1
  /\ IF Saving THEN \E n \in 0 .. 3, cut \in BOOLEAN : saved' = Cut(n, cut) ELSE UNCHANGED saved
  /\ torn' = (torn \/ Saving \/ behind)
  /\ behind' = FALSE
  /\ kb' = Empty
  /\ lock' = None
  /\ user' = [t \in Users |-> IF t = Caller THEN At("new") ELSE At("off")]
  /\ handle' = None /\ stopping' = FALSE
  /\ sig' = None /\ sigNow' = [w \in Pollers |-> None]
  /\ overtaken' = {}
  /\ UNCHANGED <<settings, outside, writeErrors>>

Steps(t) ==
  List(t) \/ Read(t) \/ Walked(t) \/ Store(t) \/ Prune(t) \/ Save(t) \/ SaveFails(t)
Works(w) == Steps(w) \/ Sign(w) \/ KeepSignature(w)
Answers == Initialize \/ StartAutoSync \/ Clear \/ Steps(Caller)

Next ==
  \/ \E w \in Pollers : Works(w) \/ WorkerEnds(w)
  \/ Answers
  \/ \E on \in BOOLEAN : SetAutoSync(on)
  \/ SyncDirectory \/ IndexDirectory \/ OrderClear
  \/ \E d \in Docs : AddDocument(d)
  \/ \E d \in Docs, content \in Contents : Change(d, content)
  \/ Restart

Fairness == (\A w \in Pollers : WF_kbVars(Works(w))) /\ WF_kbVars(Answers)
Spec == Init /\ [][Next]_kbVars /\ Fairness

-----------------------------------------------------------------------------
TypeOK ==
  /\ folder \in [Docs -> Contents]
  /\ lock \in Users \cup {None}
  /\ \A t \in Users : user[t].pc \in {"new", "off", "idle", "starting", "list", "walk", "store", "save",
                                     "prune", "save all", "done", "clear"}
  /\ handle \in Pollers \cup {None} /\ stopping \in BOOLEAN
  /\ kb.src \in [Docs -> Contents] /\ saved.src \in [Docs -> Contents]
  /\ overtaken \subseteq Docs

\* Each stored row has its own vector at its position, a document is in the store at most
\* once, and the source table names exactly the documents whose rows are there: whatever
\* workers, commands and restarts do, also after a save that failed.  On the disk it is so
\* as well, but after a save that failed or was cut; a cut one is not repaired.
Consistent(k) ==
  /\ k.meta = k.vec
  /\ \A i, j \in DOMAIN k.meta : k.meta[i][1] = k.meta[j][1] => i = j
  /\ \A d \in Docs : k.src[d] # Missing <=> \E i \in DOMAIN k.meta : k.meta[i] = <<d, k.src[d]>>
Aligned == torn \/ (Consistent(kb) /\ (behind \/ Consistent(saved)))

\* While nobody holds the lock, what the files say is what the process knows, unless the
\* last save failed: any later one makes up for it.
Durable == lock = None /\ user[Caller].pc # "new" /\ ~torn /\ ~behind => saved = kb

\* With automatic synchronisation on, the store follows the folder once it is left alone:
\* new and changed files come in and deleted ones go, also after a save that failed; unless
\* a command, or one of two workers, stored late, pruned or cleared the file, or the file
\* was emptied (its old text stays).
KnowledgeFollows ==
  \A d \in Docs :
    <>[](handle # None) =>
      <>[](torn \/ d \in overtaken \/ folder[d] = Blank \/ kb.src[d] = folder[d])

\* Not so in this code, see README section 4.
\* start_auto_sync() says "KB auto-sync started" or "KB watchdog started": it answers.
AutoSyncAnswers == user[Caller].pc = "starting" ~> user[Caller].pc = "idle"
=============================================================================
