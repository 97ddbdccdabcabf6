CONSTANTS
  Timers = {tea, pasta}
  Callers = {voice, bridge}
  None = None
  MaxRestarts = 1
SPECIFICATION FairSpec
INVARIANTS TypeOK RingsOnce CanceledStaysSilent
PROPERTY TimerRings
CHECK_DEADLOCK FALSE
