CONSTANTS
  Jobs = {a}
  Workers = {w}
  Reaper = reaper
  None = none
  BufSize = 1
  Bounded = {a}
  Slow = {a}
  Callbacks = {a}
  MaxStops = 0
  MaxAckFails = 1
  Faulty = {}
SPECIFICATION Spec
INVARIANT TimeoutIsRecorded
CHECK_DEADLOCK FALSE
