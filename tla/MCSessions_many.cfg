SPECIFICATION Spec
SYMMETRY SymSessions
CHECK_DEADLOCK FALSE
CONSTANTS
  s1 = s1
  s2 = s2
  s3 = s3
  d1 = d1
  d2 = d2
  alice = alice
  NoSession = NoSession
  Sessions = {s1, s2, s3}
  Actors = {alice}
  Owner <- MCOwner
  Exempt = {}
  MaxSessionsPerActor = 1
  Concurrency = 2
  Deletes = {}
  MaxFaults = 0
  MaxCrashes = 1
  MaxCalls = 0
INVARIANT QuotaOvershootBounded
PROPERTY ImplementsLedger
