CONSTANTS
  None = None
  Jobs = {j1, j2}
  Workers = {w1, w2}
  Callers = {voice}
  MaxRetries = 1
  MaxRestarts = 1
SPECIFICATION FairSpec
PROPERTIES RunsArePaidFor DueJobIsClaimed
CHECK_DEADLOCK FALSE
