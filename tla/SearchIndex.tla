---------------------------- MODULE SearchIndex ----------------------------
(***************************************************************************)
(* The file index: os_control/search_index.py.  A row is kept per path and *)
(* carries the root it was found under; a walk of a root replaces the rows *)
(* of that root in one transaction, under the database lock, while files   *)
(* come and go.  The background worker walks the tracked roots again and   *)
(* again in the order of their names; a search walks a root it has not yet *)
(* walked, and a refresh walks it anyway.                                  *)
(*                                                                         *)
(* Names, sizes and times of rows are left out, and so are paths the       *)
(* policy hides: a search asks for everything under a root.                *)
(***************************************************************************)
EXTENDS Naturals, Sequences, FiniteSets, SequencesExt

CONSTANTS
  Files,
  Order,       \* the roots, in the order of their names
  Under,       \* root -> the files below it; roots may lie in one another
  Indexer, Asker,  \* the worker, and the thread that runs commands
  Nobody,
  MaxAsks,     \* searches, refreshes and restarts
  MaxMoves     \* files that come or go

Roots == ToSet(Order)
Threads == {Indexer, Asker}

VARIABLES
  present,   \* files on disk
  rows,      \* path -> root of its row, or Nobody
  tracked,   \* _tracked_roots
  indexed,   \* domain of _indexed_roots
  dbLock,
  walk,      \* per thread: the roots to walk, the files left to visit, those visited
  stopping,  \* _stop_event
  asks, moves,
  seen,      \* HISTORY: root -> files its last walk visited in this run of the program
  last       \* HISTORY: file -> the last root whose walk stored it

siVars == <<present, rows, tracked, indexed, dbLock, walk, stopping, asks, moves, seen, last>>
counters == <<asks, moves>>

Rest == [pc |-> "rest", queue |-> {}, todo |-> {}, found |-> {}]

Init ==
  /\ present = {} /\ moves = 0 /\ asks = 0
  /\ rows = [f \in Files |-> Nobody]
  /\ tracked = {} /\ indexed = {}
  /\ dbLock = Nobody
  /\ walk = [t \in Threads |-> Rest]
  /\ stopping = FALSE
  /\ seen = [r \in Roots |-> {}]
  /\ last = [f \in Files |-> Nobody]

\* The roots are walked in the order of their names.
Place(r) == CHOOSE i \in DOMAIN Order : Order[i] = r
First(queue) == CHOOSE r \in queue : \A q \in queue : Place(r) <= Place(q)

Walking(queue) == [Rest EXCEPT !.pc = "open", !.queue = queue]

\* search(root): the root is tracked; it is walked only if this process never walked it.
Search(r) ==
  /\ walk[Asker].pc = "rest" /\ asks < MaxAsks /\ ~stopping
  /\ asks' = asks + 1
  /\ tracked' = tracked \cup {r}
  /\ walk' = IF r \in indexed THEN walk ELSE [walk EXCEPT ![Asker] = Walking({r})]
  /\ UNCHANGED <<present, rows, indexed, dbLock, stopping, moves, seen, last>>

\* refresh_now_result(): one root, or all that are tracked.
Refresh ==
  /\ walk[Asker].pc = "rest" /\ asks < MaxAsks /\ ~stopping
  /\ asks' = asks + 1
  /\ \/ \E r \in Roots : tracked' = tracked \cup {r} /\ walk' = [walk EXCEPT ![Asker] = Walking({r})]
     \/ /\ tracked # {}
        /\ walk' = [walk EXCEPT ![Asker] = Walking(tracked)]
        /\ UNCHANGED tracked
  /\ UNCHANGED <<present, rows, indexed, dbLock, stopping, moves, seen, last>>

\* _worker_loop(), with the roots as they are when its wait is over.
Wake ==
  /\ walk[Indexer].pc = "rest" /\ ~stopping /\ tracked # {}
  /\ walk' = [walk EXCEPT ![Indexer] = Walking(tracked)]
  /\ UNCHANGED <<present, rows, tracked, indexed, dbLock, stopping, counters, seen, last>>

(***************************************************************************)
(* _index_root().  The rows of the root are deleted inside the transaction *)
(* that stores the new ones, so nobody sees them missing.                  *)
(***************************************************************************)
Open(t) ==
  /\ walk[t].pc = "open" /\ dbLock = Nobody
  /\ dbLock' = t
  /\ walk' = [walk EXCEPT ![t].pc = "visit", ![t].todo = Under[First(walk[t].queue)], ![t].found = {}]
  /\ UNCHANGED <<present, rows, tracked, indexed, stopping, counters, seen, last>>

Visit(t) ==
  /\ walk[t].pc = "visit" /\ ~stopping
  /\ \E f \in walk[t].todo :
       walk' = [walk EXCEPT ![t].todo = @ \ {f}, ![t].found = IF f \in present THEN @ \cup {f} ELSE @]
  /\ UNCHANGED <<present, rows, tracked, indexed, dbLock, stopping, counters, seen, last>>

Replaced(r, found) ==
  [f \in Files |-> IF f \in found THEN r ELSE IF rows[f] = r THEN Nobody ELSE rows[f]]

Commit(t) ==
  /\ walk[t].pc = "visit"
  /\ walk[t].todo = {} \/ stopping
  /\ LET r == First(walk[t].queue)  left == walk[t].queue \ {r}  found == walk[t].found IN
       /\ rows' = Replaced(r, found)
       /\ indexed' = indexed \cup {r}
       /\ seen' = [seen EXCEPT ![r] = found]
       /\ last' = [f \in Files |-> IF f \in found THEN r ELSE last[f]]
       /\ walk' = [walk EXCEPT ![t] = IF left = {} \/ (stopping /\ t = Indexer) THEN Rest
                                      ELSE Walking(left)]
  /\ dbLock' = Nobody
  /\ UNCHANGED <<present, tracked, stopping, counters>>

(***************************************************************************)
(* stop(), at shutdown: a walk under way stops early and is stored as it   *)
(* is.  Restart: the process ends (a transaction under way is rolled back) *)
(* and starts with the rows and without tracked roots.                     *)
(***************************************************************************)
Stop ==
  /\ ~stopping
  /\ stopping' = TRUE
  /\ UNCHANGED <<present, rows, tracked, indexed, dbLock, walk, counters, seen, last>>

Restart ==
  /\ asks < MaxAsks
  /\ asks' = asks + 1
  /\ tracked' = {} /\ indexed' = {}
  /\ dbLock' = Nobody
  /\ walk' = [t \in Threads |-> Rest]
  /\ stopping' = FALSE
  /\ seen' = [r \in Roots |-> {}]
  /\ UNCHANGED <<present, rows, moves, last>>

Move(f) ==
  /\ moves < MaxMoves
  /\ moves' = moves + 1
  /\ present' = IF f \in present THEN present \ {f} ELSE present \cup {f}
  /\ UNCHANGED <<rows, tracked, indexed, dbLock, walk, stopping, asks, seen, last>>

Steps(t) == Open(t) \/ Visit(t) \/ Commit(t)
IndexerWorks == Wake \/ Steps(Indexer)

Next ==
  \/ IndexerWorks \/ Steps(Asker)
  \/ \E r \in Roots : Search(r)
  \/ Refresh \/ Stop \/ Restart
  \/ \E f \in Files : Move(f)

-----------------------------------------------------------------------------
TypeOK ==
  /\ present \subseteq Files /\ rows \in [Files -> Roots \cup {Nobody}]
  /\ tracked \subseteq Roots /\ indexed \subseteq Roots
  /\ dbLock \in Threads \cup {Nobody}
  /\ \A t \in Threads : walk[t].pc \in {"rest", "open", "visit"} /\ walk[t].found \subseteq walk[t].todo \cup Files

\* What the last walk of a root saw is found by a search of that root, unless the walk of
\* another root that covers the file came later and took the row: a path has one row.
FoundUnderItsRoot ==
  \A r \in indexed, f \in Files :
    f \in seen[r] => rows[f] = r \/ (last[f] # r /\ rows[f] \in {last[f], Nobody})

\* Once a root was walked, a search of it returns only what its last walk saw.
NothingStale == \A r \in indexed, f \in Files : rows[f] = r => f \in seen[r]

\* The worker brings the index up to date: with a root tracked, a file that stays under it
\* is found under it in the end, and one that is gone is not, as long as no root inside it
\* (or around it) is tracked as well.
IndexFollows ==
  \A r \in Roots, f \in Files :
    <>[](~stopping /\ tracked = {r} /\ f \in Under[r]) =>
      <>[](f \in present <=> rows[f] = r)
=============================================================================
