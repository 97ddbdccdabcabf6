SPECIFICATION ServicesSpec
CONSTANTS
  Docs = {d1, d2}
  Missing = Missing
  Blank = Blank
  Pollers = {w1, w2}
  Caller = Caller
  MaxChanges = 2
  MaxOrders = 3
  MaxWriteErrors = 1
  Watchdog = {FALSE}
  EnabledAtStart = {FALSE}
  MemoryTurns = 2
  MemoryChanges = 3
  MaxRuns = 3
  MaxFaults = 2
  Nothing = Nothing
  outerFile = outerFile
  innerFile = innerFile
  outer = outer
  inner = inner
  Indexer = Indexer
  Asker = Asker
  Nobody = Nobody
  MaxAsks = 3
  MaxMoves = 3
  Names = {r1, r2}
  MaxShown = 2
  Listener = Listener
  Doctor = Doctor
  Absent = Absent
  Bad = Bad
  MinConfirmed = 1
  MaxConfirmed = 2
  MaxRetrains = 3
  MaxCycles = 4
INVARIANTS
  StoresAreSound
  RemindersComeDue
  WakeModelIsKept
PROPERTIES
  ServicesFollow
CHECK_DEADLOCK FALSE
