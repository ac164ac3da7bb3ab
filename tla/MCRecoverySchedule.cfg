\* Two controllers and two tasks; a pass is over before it has tried both.
\* Three units of five seconds stand for the minute of a pass, two for the
\* request and for the fifteen seconds beyond it.
SPECIFICATION Spec
CONSTANTS
  Task = {t1, t2}
  Controller = {c1, c2}
  Interval = 1
  Batch = 2
  Timeout = 2
  Slack = 2
  PassLimit = 3
  MaxAttempts = 2
  StoreDelay = 1
  Horizon = 30
  MaxFaults = 1
  NoTask = NoTask
SYMMETRY Symmetry
\* The system is always able to wait.
CHECK_DEADLOCK FALSE
INVARIANTS TypeOK ClaimExclusive 
PROPERTIES BacklogNotUnderstated
