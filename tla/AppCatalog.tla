----------------------------- MODULE AppCatalog -----------------------------
(***************************************************************************)
(* The catalog of installed applications (os_control/app_scanner.py and     *)
(* app_ops.py).  Several threads scan: the start-up, a spoken "rescan", a   *)
(* request that found nothing and the timer of the Start Menu watcher.  A   *)
(* scan reads what is installed, writes the cache file and returns; its     *)
(* caller then applies the result.  refresh_app_catalog does this under a   *)
(* lock, the other two callers without one.                                 *)
(***************************************************************************)
EXTENDS Naturals, FiniteSets

CONSTANTS
  Apps,        \* what can be installed, besides the built-in catalog
  NoCache, None,
  MaxInstalls, \* a bound on the changes of what is installed
  MaxScans     \* a bound on the rescans asked for and the requests

Watchers == {"watch", "watch2"}   \* rescans of the timer that may overlap
Scanners == {"startup", "rescan", "miss"} \cup Watchers
Locking  == {"startup", "miss"}

VARIABLES
  installed,   \* what is installed
  catalog,     \* _APP_CATALOG
  cache,       \* the cache file: [apps, fresh] or NoCache
  lock,        \* who holds _REFRESH_LOCK
  scan,        \* of each scanner: [at, found]
  timer,       \* the watcher's debounce timer is armed
  watching,    \* the watcher runs
  request,     \* the request to open an application: [app, at, there], there if the app has
               \* been installed since it was asked for
  installs, scans,
  owed,        \* something was installed or removed while the watcher ran
  overtaken    \* a scan was applied while another was between its reading and its end

acVars == <<installed, catalog, cache, lock, scan, timer, watching, request, installs, scans,
            owed, overtaken>>

Resting == [at |-> "rest", found |-> {}]
NoRequest == [app |-> None, at |-> "idle", there |-> FALSE]

Init ==
  /\ installed \in SUBSET Apps /\ catalog = {}
  /\ cache \in {NoCache} \cup [apps : SUBSET Apps, fresh : BOOLEAN]
  /\ lock = None /\ scan = [s \in Scanners |-> IF s = "startup" THEN [Resting EXCEPT !.at = "begin"] ELSE Resting]
  /\ timer = FALSE /\ watching = FALSE /\ request = NoRequest
  /\ installs = 0 /\ scans = 0 /\ owed = FALSE /\ overtaken = FALSE

At(s, place)       == scan[s].at = place
Goes(s, place)     == scan' = [scan EXCEPT ![s].at = place]
Forced(s)          == s # "startup"

\* refresh_app_catalog waits for the lock; the others begin at once.
Begin(s) ==
  /\ At(s, "begin")
  /\ IF s \in Locking THEN lock = None /\ lock' = s ELSE UNCHANGED lock
  /\ Goes(s, IF Forced(s) \/ cache = NoCache THEN "read" ELSE "cached")
  /\ UNCHANGED <<installed, catalog, cache, timer, watching, request, installs, scans, owed, overtaken>>

\* _load_cache: a cache past its age counts for nothing.
FromCache(s) ==
  /\ At(s, "cached")
  /\ scan' = [scan EXCEPT ![s] = IF cache.fresh THEN [at |-> "apply", found |-> cache.apps]
                                 ELSE [@ EXCEPT !.at = "read"]]
  /\ UNCHANGED <<installed, catalog, cache, lock, timer, watching, request, installs, scans, owed, overtaken>>

\* _scan_installed_apps, then the cache file unless nothing was found.
Read(s) ==
  /\ At(s, "read")
  /\ scan' = [scan EXCEPT ![s] = [at |-> "save", found |-> installed]]
  /\ UNCHANGED <<installed, catalog, cache, lock, timer, watching, request, installs, scans, owed, overtaken>>

Save(s) ==
  /\ At(s, "save") /\ Goes(s, "apply")
  /\ cache' = IF scan[s].found = {} THEN cache ELSE [apps |-> scan[s].found, fresh |-> TRUE]
  /\ UNCHANGED <<installed, catalog, lock, timer, watching, request, installs, scans, owed, overtaken>>

\* _apply_app_catalog.  The start-up then begins to watch the Start Menu.
Apply(s) ==
  /\ At(s, "apply")
  /\ catalog' = scan[s].found
  /\ scan' = [scan EXCEPT ![s] = Resting]
  /\ lock' = IF s \in Locking THEN None ELSE lock
  /\ watching' = (watching \/ s = "startup")
  /\ request' = IF s = "miss" THEN [request EXCEPT !.at = "again"] ELSE request
  /\ overtaken' = (overtaken \/ \E t \in Scanners \ {s} : scan[t].at \in {"save", "apply"})
  /\ UNCHANGED <<installed, cache, timer, installs, scans, owed>>

\* A spoken "rescan apps".
Rescan ==
  /\ At("rescan", "rest") /\ scans < MaxScans /\ scans' = scans + 1
  /\ Goes("rescan", "begin")
  /\ UNCHANGED <<installed, catalog, cache, lock, timer, watching, request, installs, owed, overtaken>>

\* An application is installed or removed; the watcher arms its timer anew.
Install ==
  /\ installs < MaxInstalls /\ installs' = installs + 1
  /\ \E a \in Apps : installed' = IF a \in installed THEN installed \ {a} ELSE installed \cup {a}
  /\ timer' = watching /\ owed' = (owed \/ watching)
  /\ request' = [request EXCEPT !.there = FALSE]
  /\ UNCHANGED <<catalog, cache, lock, scan, watching, scans, overtaken>>

\* The timer fires; the rescan of an earlier firing may still run in its own thread.
Fire ==
  /\ timer /\ timer' = FALSE
  /\ \E w \in Watchers : At(w, "rest") /\ Goes(w, "begin")
  /\ UNCHANGED <<installed, catalog, cache, lock, watching, request, installs, scans, owed, overtaken>>

\* The cache grows older than its limit.
Age ==
  /\ cache # NoCache /\ cache.fresh /\ cache' = [cache EXCEPT !.fresh = FALSE]
  /\ UNCHANGED <<installed, catalog, lock, scan, timer, watching, request, installs, scans, owed, overtaken>>

\* resolve_app_request: a miss refreshes once when the cache is old or missing.
Ask(a) ==
  /\ request.at \in {"idle", "known", "unknown"} /\ scans < MaxScans /\ scans' = scans + 1
  /\ request' = [app |-> a, at |-> IF a \in catalog THEN "known" ELSE "missed", there |-> a \in installed]
  /\ UNCHANGED <<installed, catalog, cache, lock, scan, timer, watching, installs, owed, overtaken>>

Old == cache = NoCache \/ ~cache.fresh

Miss ==
  /\ request.at = "missed"
  /\ IF Old THEN Goes("miss", "begin") /\ request' = [request EXCEPT !.at = "waits"]
     ELSE request' = [request EXCEPT !.at = "unknown", !.there = FALSE] /\ UNCHANGED scan
  /\ UNCHANGED <<installed, catalog, cache, lock, timer, watching, installs, scans, owed, overtaken>>

Again ==
  /\ request.at = "again"
  /\ request' = [request EXCEPT !.at = IF request.app \in catalog THEN "known" ELSE "unknown"]
  /\ UNCHANGED <<installed, catalog, cache, lock, scan, timer, watching, installs, scans, owed, overtaken>>

ScanStep(s) == Begin(s) \/ FromCache(s) \/ Read(s) \/ Save(s) \/ Apply(s)

Next ==
  \/ Rescan \/ Install \/ Fire \/ Age \/ Miss \/ Again
  \/ \E a \in Apps : Ask(a)
  \/ \E s \in Scanners : ScanStep(s)

Spec ==
  Init /\ [][Next]_acVars /\ WF_acVars(Fire) /\ \A s \in Scanners : WF_acVars(ScanStep(s))

-----------------------------------------------------------------------------
\* The catalog, the cache and the scans have their types.
TypeOK ==
  /\ installed \subseteq Apps /\ catalog \subseteq Apps
  /\ cache \in {NoCache} \cup [apps : SUBSET Apps, fresh : BOOLEAN]
  /\ lock \in Locking \cup {None}
  /\ \A s \in Scanners : At(s, "rest") \/ scan[s].found \subseteq Apps

\* With an old cache, an application that was installed when it was asked for and stayed so is
\* not called unknown (the miss scans first), unless another scan overtook the miss's own.
UnknownIsTrue ==
  request.at = "unknown" /\ request.there => overtaken

\* What is installed and removed under the watcher is in the catalog in the end, also when it
\* changes during a rescan, unless one scan overtook another.
CatalogFollows ==
  <>[](owed => overtaken \/ catalog = installed)
=============================================================================
