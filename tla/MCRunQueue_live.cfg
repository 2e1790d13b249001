CONSTANTS
  Jobs = {a}
  Workers = {w}
  Reaper = reaper
  None = none
  BufSize = 1
  Bounded = {a}
  Slow = {a}
  Callbacks = {a}
  MaxStops = 2
  MaxAckFails = 1
  Faulty = {a}
SPECIFICATION FairSpec
PROPERTIES AcceptedIsProcessed
CHECK_DEADLOCK FALSE
