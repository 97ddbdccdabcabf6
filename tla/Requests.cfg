SPECIFICATION RequestsSpec
CONSTANTS
  Voice = voice
  client = client
  r1 = r1
  r2 = r2
  Callers <- MCCallers
  Requests <- MCRequested
  None = None
  MaxFactorAttempts = 2
  MaxConfirmAttempts = 3
  Threads = {t1, t2}
  Paths = {p, q}
  Files = {f, copied}
  Dirs = {d1, d2}
  Home <- MCHome
  p = p
  f = f
  copied = copied
  d1 = d1
  d2 = d2
  Trash = Trash
  Gone = Gone
  Unborn = Unborn
  MaxRows = 2
  MaxSteps = 3
  MaxOutside = 1
  MaxEntries = 3
SYMMETRY Interchangeable
INVARIANTS
  PinIsGuarded
  FilesAreSafe
  LogTellsEdits
PROPERTIES
  ReadOnlyHolds
CHECK_DEADLOCK FALSE
