SPECIFICATION WorkersSpec
CHECK_DEADLOCK FALSE
CONSTANTS
  HtSessions = {s1, s2}
  HtBoxes = {b1, b2, b3}
  HtSize = 2
  HtMaxFails = 2
  EgSessions = {s1}
  EgV6 = TRUE
  EgMaxFails = 3
  TkTasks = {t1}
  TkConfirm = {t1}
  TkClients = {c1, c2}
  TkSweeps = {i1}
  TkMaxInflight = 1
  TkMaxFails = 1
  CiRuns = {r1, r2}
  CiCommits = 2
  CiCommands = 2
  CiMaxFails = 1
  SrRuns = {e1, e2}
  SrTimeout = 1
  SrGrace = 1
  SrFaulty = {e1}
  GwReqs = {q1, q2}
  GwConvs = {c1, c2}
  GwSessions = {s1, s2}
  GwTools = {"list"}
  GwRunning = {}
  GwMaxLoops = 2
  GwMaxCalls = 1
  GwMaxFails = 1
  LiReqs = {q1, q2}
  LiLimit = 1
  LiMinute = 2
  LiIdle = 2
  LiMaxClock = 5
  AcKeys = {k1, k2}
  AcNames = {n1}
  AcOrgs = {o1}
  AcSessions = {s1}
  AcClients = {c1}
  AcRoles = {"viewer", "admin"}
  AcMaxAdmin = 2
  MhReqs = {q1, q2}
  MhClients = {c1, c2}
  MhTools = {"heavy", "read"}
  MhProxied = TRUE
  MhGlobal = 1
  MhWrite = 1
  MhHeavy = 1
  MhMinute = 2
  MhMaxClock = 4
  GrCalls = {t1, t2}
  GrKeep = {t2}
  GrCommands = 2
  GrMaxFails = 1
  TmTasks = {t1, t2, t3}
  TmConfirm = {t1}
  TmReqs = {q1, q2}
  TmMaxInflight = 2
  byteX = x
  byteY = y
  RdBytes = {x, y}
  RdWords <- Words
  RdMinLen = 2
  RdMaxLen = 3
  RdMaxValues = 2
  RdLimit = 3
  RdMaxFrame = 2
  RdMaxOutput = 5
INVARIANTS
  WorkersTypeOK
  HtHostReady
  EgRulesFollowBox
  SrTimeoutStops
  TkConfirmed
  CiGreenEarned
  GwTraced
  AcTenantsApart
  CallsGuarded
  RdRedacted
PROPERTIES
  TkFinal
