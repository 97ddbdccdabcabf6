SPECIFICATION CommandsSpec
CONSTANTS
  MaxCalls = 4
  MaxLeads = 3
  Structured = TRUE
  MaxShifts = 1
  Qualities = {90, 92, 93, 100}
  MaxHeard = 3
  Soft = 2
  Hard = 3
  MaxPieces = 6
  Wifi = Wifi
  Bluetooth = Bluetooth
  Modem = Modem
  MaxOrders = 3
  Procs = {p1, p2, p3}
  NoProc = NoProc
  MaxKeys = 3
  MaxCommands = 3
  Apps = {a1}
  NoCache = NoCache
  Absent = Absent
  MaxInstalls = 2
  MaxScans = 2
  Programs = {shell, store, other}
  Shell = shell
  Store = store
  Twin = Twin
  Spelled = Spelled
  MaxAsks = 2
  MaxMoves = 1
  Top = 3
  MaxHands = 2
  MaxSwitches = 3
  Numbers = {0, 1, 9, 10, 11, 19, 20, 21, 45, 59, 60, 61, 99, 100, 101, 110, 121, 199, 200, 345,
             999, 1000, 1001, 2019, 9999, 12000, 345678}
INVARIANTS
  NegationIsKept
  UnderstoodSafely
  PlanStops
  PiecesAreWhole
  DeedsAreKnown
PROPERTIES
  CommandsComeTrue
CHECK_DEADLOCK FALSE
