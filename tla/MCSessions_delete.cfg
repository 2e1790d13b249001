SPECIFICATION Spec
CHECK_DEADLOCK FALSE
CONSTANTS
  s1 = s1
  s2 = s2
  s3 = s3
  d1 = d1
  d2 = d2
  alice = alice
  NoSession = NoSession
  Sessions = {s1}
  Actors = {alice}
  Owner <- MCOwner
  Exempt = {}
  MaxSessionsPerActor = 1
  Concurrency = 1
  Deletes = {d1}
  MaxFaults = 0
  MaxCrashes = 0
  MaxCalls = 0
INVARIANT DeleteRemovesAll
