CONSTANTS
  Jobs = {a, b}
  Workers = {w}
  Reaper = reaper
  None = none
  BufSize = 1
  Bounded = {a}
  Slow = {b}
  Callbacks = {a}
  MaxStops = 1
  MaxAckFails = 1
  Faulty = {a}
SPECIFICATION Spec
INVARIANTS TypeOK AcceptedIsKept OneAtATime DrainLeavesNothing
PROPERTIES OutcomeStands
CHECK_DEADLOCK FALSE
