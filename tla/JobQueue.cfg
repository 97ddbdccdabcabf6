CONSTANTS
  None = None
  Jobs = {j1, j2}
  Workers = {w1, w2}
  Callers = {voice, bridge}
  MaxRetries = 1
  MaxRestarts = 1
SPECIFICATION Spec
SYMMETRY Interchangeable
INVARIANTS TypeOK NoDoubleRun QueueIsServed
CHECK_DEADLOCK FALSE
