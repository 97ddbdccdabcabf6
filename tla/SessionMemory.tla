--------------------------- MODULE SessionMemory ---------------------------
(***************************************************************************)
(* What the assistant remembers between turns and between runs:            *)
(* core/session_memory.py on core/memory_store.py.  Every change of the    *)
(* memory is saved under one lock: turns in a transaction, then each slot, *)
(* then the pending clarification.  The first error of the database makes  *)
(* the process save to a JSON file instead, until it ends.  A JSON file of *)
(* an earlier version is imported once.                                    *)
(*                                                                         *)
(* A file that cannot be read is taken for none.                           *)
(*                                                                         *)
(* The context slots are one version number; language preference, scores   *)
(* and the age of slots are left out (CommandRouter has the clarification  *)
(* and the age of what a follow-up refers to).                             *)
(***************************************************************************)
EXTENDS Naturals, Sequences, SequencesExt

CONSTANTS
  MaxTurns,    \* MEMORY_MAX_TURNS
  MaxChanges, MaxRuns,
  MaxFaults,   \* times the database becomes unusable
  Nothing

VARIABLES
  mem,       \* [turns, slots, pending]: what the process remembers
  backend,   \* "sqlite" or "json"
  step,      \* "down", the step of the start, "idle", or the step of the save
  db,        \* [turns, slots, pending, marker]
  json,      \* the legacy file, or Nothing
  dbUp,      \* the database can be used
  changes, runs, faults,
  failed,    \* HISTORY: an error of the database reached the program
  unsaved,   \* HISTORY: the last save went to the JSON file, and failed
  durable    \* HISTORY: the turns of the last change that was stored in full

memoryVars == <<mem, backend, step, db, json, dbUp, changes, runs, faults, failed,
                unsaved, durable>>

Fresh == [turns |-> <<>>, slots |-> 0, pending |-> 0]
Legacy == [turns |-> <<MaxChanges + 1>>, slots |-> MaxChanges + 1, pending |-> MaxRuns + 1]

Init ==
  /\ mem = Fresh
  /\ backend = "sqlite"
  /\ step = "down"
  /\ db = [turns |-> <<>>, slots |-> 0, pending |-> 0, marker |-> FALSE]
  /\ json \in {Nothing, Legacy}
  /\ dbUp = TRUE
  /\ changes = 0 /\ runs = 0 /\ faults = 0
  /\ failed = FALSE
  /\ unsaved = FALSE
  /\ durable = IF json = Nothing THEN <<>> ELSE Legacy.turns

world == <<json, dbUp, faults, unsaved>>

(***************************************************************************)
(* SessionMemory.__init__(), import_legacy_json() and _load().             *)
(***************************************************************************)
Goes(next) == step' = next
Falls == backend' = "json" /\ failed' = TRUE

\* Whether the JSON file is still to be imported.
Wanted == json # Nothing /\ ~db.marker

Open ==
  /\ step = "down"
  /\ runs < MaxRuns
  /\ runs' = runs + 1
  /\ IF dbUp
     THEN /\ backend' = "sqlite" /\ UNCHANGED failed
          /\ Goes(IF Wanted THEN "import turns" ELSE "load")
     ELSE Falls /\ Goes("load")
  /\ UNCHANGED <<mem, db, world, changes, durable>>

\* An empty list is skipped.  An error here is logged and the import goes on.
ImportTurns ==
  /\ step = "import turns"
  /\ LET skip == json.turns = <<>> IN
       /\ db' = IF dbUp /\ ~skip THEN [db EXCEPT !.turns = json.turns] ELSE db
       /\ failed' = (failed \/ ~(dbUp \/ skip))
  /\ Goes("import slots")
  /\ UNCHANGED <<mem, backend, world, changes, runs, durable>>

\* Nor does an error of a slot end it.
ImportSlots ==
  /\ step = "import slots"
  /\ LET asked == json.pending # 0 IN
       IF dbUp
       THEN /\ db' = [db EXCEPT !.slots = json.slots, !.pending = IF asked THEN json.pending ELSE @]
            /\ Goes("mark")
            /\ UNCHANGED <<backend, failed>>
       ELSE /\ failed' = TRUE
            /\ backend' = IF asked THEN "json" ELSE backend
            /\ Goes(IF asked THEN "load" ELSE "mark")
            /\ UNCHANGED db
  /\ UNCHANGED <<mem, world, changes, runs, durable>>

Mark ==
  /\ step = "mark"
  /\ IF dbUp THEN db' = [db EXCEPT !.marker = TRUE] /\ UNCHANGED <<backend, failed>>
             ELSE Falls /\ UNCHANGED db
  /\ Goes("load")
  /\ UNCHANGED <<mem, world, changes, runs, durable>>

\* Pending clarifications and tasks never survive a restart.
Pending(file) == 0

Load ==
  /\ step = "load"
  /\ LET fromDb == backend = "sqlite" /\ dbUp
         file   == IF fromDb THEN db ELSE IF json = Nothing THEN Fresh ELSE json
     IN /\ mem' = [turns |-> file.turns, slots |-> file.slots, pending |-> Pending(file)]
        /\ db' = IF fromDb THEN [db EXCEPT !.pending = 0] ELSE db
        /\ IF fromDb \/ backend = "json" THEN UNCHANGED <<backend, failed>> ELSE Falls
  /\ Goes("idle")
  /\ UNCHANGED <<world, changes, runs, durable>>

(***************************************************************************)
(* The operations.  Each changes the memory and saves all of it.           *)
(***************************************************************************)
Changed(m) ==
  /\ step = "idle"
  /\ changes < MaxChanges
  /\ changes' = changes + 1
  /\ mem' = m
  /\ Goes(IF backend = "sqlite" THEN "turns" ELSE "json")
  /\ UNCHANGED <<backend, db, world, runs, failed, durable>>

Newest(turns) == SubSeq(turns, IF Len(turns) > MaxTurns THEN Len(turns) - MaxTurns + 1 ELSE 1, Len(turns))

AddTurn   == Changed([mem EXCEPT !.turns = Newest(Append(@, changes + 1))])
SetSlot   == Changed([mem EXCEPT !.slots = changes + 1])
Ask       == Changed([mem EXCEPT !.pending = runs])
Settle    == mem.pending # 0 /\ Changed([mem EXCEPT !.pending = 0])
Clear     == Changed(Fresh)

(***************************************************************************)
(* _save().  A slot that cannot be written is skipped; any other error     *)
(* ends the use of the database.                                           *)
(***************************************************************************)
SaveTurns ==
  /\ step = "turns"
  /\ IF dbUp THEN db' = [db EXCEPT !.turns = mem.turns] /\ Goes("slots") /\ UNCHANGED <<backend, failed>>
             ELSE Falls /\ Goes("json") /\ UNCHANGED db
  /\ UNCHANGED <<mem, world, changes, runs, durable>>

SaveSlots ==
  /\ step = "slots"
  /\ db' = IF dbUp THEN [db EXCEPT !.slots = mem.slots] ELSE db
  /\ failed' = (failed \/ ~dbUp)
  /\ Goes("pending")
  /\ UNCHANGED <<mem, backend, world, changes, runs, durable>>

Answered ==
  /\ Goes("idle")
  /\ durable' = mem.turns

SavePending ==
  /\ step = "pending"
  /\ IF dbUp
     THEN db' = [db EXCEPT !.pending = mem.pending] /\ Answered /\ UNCHANGED <<backend, failed>>
     ELSE Falls /\ Goes("json") /\ UNCHANGED <<db, durable>>
  /\ UNCHANGED <<mem, world, changes, runs>>

\* The JSON file: opening it empties it.  An error of either step is logged, and the
\* change is answered all the same.
OpenJson ==
  /\ step = "json"
  /\ json' = Nothing
  /\ Goes("write")
  /\ UNCHANGED <<mem, backend, db, dbUp, faults, unsaved, changes, runs, failed, durable>>

SaveJson ==
  /\ step = "write"
  /\ json' = mem
  /\ unsaved' = FALSE
  /\ Answered
  /\ UNCHANGED <<mem, backend, db, dbUp, faults, changes, runs, failed>>

JsonFails ==
  /\ step \in {"json", "write"}
  /\ unsaved' = TRUE
  /\ Goes("idle")
  /\ UNCHANGED <<mem, backend, db, json, dbUp, faults, changes, runs, failed, durable>>

(***************************************************************************)
(* The database becomes unusable (locked, full) and usable again; the      *)
(* process ends at any time.                                               *)
(***************************************************************************)
Fault ==
  /\ dbUp => faults < MaxFaults
  /\ faults' = IF dbUp THEN faults + 1 ELSE faults
  /\ dbUp' = ~dbUp
  /\ UNCHANGED <<mem, backend, step, db, json, changes, runs, failed, unsaved, durable>>

Exit ==
  /\ step # "down"
  /\ Goes("down")
  /\ mem' = Fresh
  /\ unsaved' = FALSE
  \* From the second step of the save on, the turns are in the database.
  /\ durable' = IF step \in {"slots", "pending"} THEN mem.turns ELSE durable
  /\ UNCHANGED <<backend, db, json, dbUp, faults, changes, runs, failed>>

Next ==
  \/ Open \/ ImportTurns \/ ImportSlots \/ Mark \/ Load
  \/ AddTurn \/ SetSlot \/ Ask \/ Settle \/ Clear
  \/ SaveTurns \/ SaveSlots \/ SavePending \/ OpenJson \/ SaveJson \/ JsonFails
  \/ Fault \/ Exit

Spec == Init /\ [][Next]_memoryVars

-----------------------------------------------------------------------------
TypeOK ==
  /\ step \in {"down", "import turns", "import slots", "mark", "load", "idle", "turns", "slots",
               "pending", "json", "write"}
  /\ backend \in {"sqlite", "json"}
  /\ Len(mem.turns) <= MaxTurns
  /\ mem.pending \in 0 .. MaxRuns + 1
  /\ failed \in BOOLEAN /\ unsaved \in BOOLEAN

Kept ==
  IF backend = "sqlite" THEN db.turns = mem.turns /\ db.pending = mem.pending
  ELSE mem.turns = IF json = Nothing THEN <<>> ELSE json.turns

\* When a change is answered, the store the process saves to has the same turns as its
\* memory, and a database the same pending clarification, whichever step of the save the
\* database failed in: only an error of the JSON file itself loses the change.
SavedWhenAnswered == step = "idle" => Kept \/ (backend = "json" /\ unsaved)

\* Not so in this code, see README section 4.
\* session_memory.py falls "back to JSON" when the database fails: then the JSON file has
\* what was answered.
AnsweredIsSaved == step = "idle" => Kept

\* A question asked in an earlier run is never answered in this one: not from the
\* database, not from the JSON file of a run whose database failed.
FreshStart == step = "idle" => mem.pending \in {0, runs}

\* As long as the database works, a restart forgets no turn of a change that was stored
\* and brings back no turn that was cleared; the legacy file is imported only once.
RestartRemembers == ~failed /\ step = "idle" => mem.turns = durable
=============================================================================
