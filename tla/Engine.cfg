SPECIFICATION Spec
CONSTANTS
  NoOne = NoOne
  Turn = Turn
  overlay = overlay
  loop = loop
  worker = worker
  MaxConns = 2
  MaxEvents = 3
  Main = Main
  Handler = Handler
  None = None
  jobs = jobs
  index = index
  speech = speech
  MaxTurns = 2
INVARIANTS
  WindowsFollow
  StartsAndStopsOnce
PROPERTIES
  EngineGoesOn
CHECK_DEADLOCK FALSE
