------------------------------ MODULE AuditLog ------------------------------
(***************************************************************************)
(* The action log: os_control/action_log.py and the action_logs table of   *)
(* os_control/persistence.py.  An entry becomes a row whose hash covers    *)
(* the hash of the row before it; a line of text follows in a file, under  *)
(* another lock.  A digest is modelled as the sequence of the payloads it  *)
(* was made of, so equal digests mean equal payloads.                      *)
(***************************************************************************)
EXTENDS Naturals, Sequences, FiniteSets

CONSTANTS Loggers,   \* threads that log actions
          MaxEntries, NoRow

VARIABLES
  table,     \* action_logs: [payload, prev, hash], by id
  text,      \* ACTION_LOG_FILE: the ids of the lines, in the order written
  logger,    \* per thread: the id of the row whose line it still has to write
  edited,    \* HISTORY: rows changed from outside since the last reseal
  lostLines, \* HISTORY: rows whose line a restart cut off
  edits      \* number of edits and restarts so far

auditVars == <<table, text, logger, edited, lostLines, edits>>

MaxEdits == 2

Digest(prev, payload) == Append(prev, payload)
Original(id) == <<"entry", id>>

Init ==
  /\ table = <<>>
  /\ text = <<>>
  /\ logger = [t \in Loggers |-> NoRow]
  /\ edited = {}
  /\ lostLines = {}
  /\ edits = 0

\* insert_action_log(): the last hash is read and the row inserted under _db_lock.
Insert(t) ==
  /\ logger[t] = NoRow
  /\ Len(table) < MaxEntries
  /\ LET id   == Len(table) + 1
         prev == IF table = <<>> THEN <<>> ELSE table[Len(table)].hash
     IN /\ table' = Append(table, [payload |-> Original(id), prev |-> prev,
                                   hash |-> Digest(prev, Original(id))])
        /\ logger' = [logger EXCEPT ![t] = id]
  /\ UNCHANGED <<text, edited, lostLines, edits>>

\* The line of the text log, under _log_lock.
WriteLine(t) ==
  /\ logger[t] # NoRow
  /\ text' = Append(text, logger[t])
  /\ logger' = [logger EXCEPT ![t] = NoRow]
  /\ UNCHANGED <<table, edited, lostLines, edits>>

\* verify_action_log_chain(): the id of the first row that does not follow, or NoRow.
PrevOf(id) == IF id = 1 THEN <<>> ELSE table[id - 1].hash
Follows(id) ==
  /\ table[id].prev = PrevOf(id)
  /\ table[id].hash = Digest(PrevOf(id), table[id].payload)
FailedId ==
  IF \A id \in DOMAIN table : Follows(id) THEN NoRow
  ELSE CHOOSE id \in DOMAIN table : ~Follows(id) /\ \A k \in 1 .. id - 1 : Follows(k)

\* Deviation: each row keeps the hash it remembers of the row before.
ResealedEach ==
  [id \in DOMAIN table |-> [table[id] EXCEPT !.hash = Digest(table[id].prev, table[id].payload)]]

\* reseal_action_log_chain(): every row gets the hashes its present payload calls for.
Hashes ==
  LET hash[id \in 0 .. Len(table)] ==
        IF id = 0 THEN <<>> ELSE Digest(hash[id - 1], table[id].payload)
  IN hash

Resealed ==
  LET hash == Hashes
  IN [id \in DOMAIN table |->
        [payload |-> table[id].payload, prev |-> hash[id - 1], hash |-> hash[id]]]

Reseal ==
  /\ table # <<>>
  /\ table' = Resealed
  /\ edited' = {}
  /\ UNCHANGED <<text, logger, lostLines, edits>>

\* Somebody changes a row with other means.
Edit(id) ==
  /\ edits < MaxEdits
  /\ id \in DOMAIN table /\ table[id].payload = Original(id)
  /\ table' = [table EXCEPT ![id].payload = <<"edited", id>>]
  /\ edited' = edited \cup {id}
  /\ edits' = edits + 1
  /\ UNCHANGED <<text, logger, lostLines>>

Restart ==
  /\ edits < MaxEdits
  /\ edits' = edits + 1
  /\ lostLines' = lostLines \cup {logger[t] : t \in {u \in Loggers : logger[u] # NoRow}}
  /\ logger' = [t \in Loggers |-> NoRow]
  /\ UNCHANGED <<table, text, edited>>

Next ==
  \/ \E t \in Loggers : Insert(t) \/ WriteLine(t)
  \/ \E id \in 1 .. MaxEntries : Edit(id)
  \/ Reseal \/ Restart

-----------------------------------------------------------------------------
TypeOK ==
  /\ Len(table) <= MaxEntries
  /\ \A t \in Loggers : logger[t] \in DOMAIN table \cup {NoRow}
  /\ edited \subseteq DOMAIN table
  /\ lostLines \subseteq DOMAIN table

\* "Audit chain is valid" is said exactly when no row was changed from outside since
\* the chain was last sealed, and a failure names the oldest changed row: concurrent
\* loggers, resealing in between and rows appended after an edit do not blur it.
ChainTellsEdits ==
  IF edited = {} THEN FailedId = NoRow
  ELSE FailedId = CHOOSE id \in edited : \A k \in edited : id <= k

\* Every row has exactly one line in the text log, unless its thread is about to write
\* it or the process ended before it did.  (The order of the lines may differ.)
LinesMatchRows ==
  /\ \A k, l \in DOMAIN text : text[k] = text[l] => k = l
  /\ \A id \in DOMAIN table :
       \/ \E k \in DOMAIN text : text[k] = id
       \/ \E t \in Loggers : logger[t] = id
       \/ id \in lostLines
=============================================================================
