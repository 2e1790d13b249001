SPECIFICATION RecordsSpec
CHECK_DEADLOCK FALSE
CONSTANTS
  CkClients = {c1, c2}
  CkIds = {i1, i2, i3}
  CkHomes = {s}
  CkForks = {f}
  CkTampered = {i3}
  CkSizes = {2, 3}
  CkMaxPer = 2
  CkMaxSize = 2
  CkMaxOrg = 3
  CkFaulty = {c2}
  StClients = {c1, c2}
  StSnaps = {n1, n2}
  StArts = {a1, a2}
  StSizes = {1, 2}
  StQuota = 1
  StFaulty = {c2}
  FlClients = {c1, c2}
  FlRuns = {r1, r2}
  FlPaths = {p1}
  FlMaxClock = 3
  FlFaulty = {c2, r1}
  ClAgents = {g1, g2}
  ClConns = {k1, k2}
  ClCaps = {1, 2}
  ClMaxFails = 1
  CoSessions = {s}
  CoInstances = {n1, n2}
  CoMonths = {3}
  CoMinSpan = 2
  CoMaxClock = 6
  TeClients = {c1, c2}
  TeInstances = {n1}
  TeMaxUses = 1
  TeMaxFails = 1
  MiClients = {c1, c2}
  MiIds = {m1, m2}
  MiRuns = {r1, r2}
  MiMaxCost = 1
  EvExports = {x1}
  EvStamps = {1, 2}
  EvFiles = {f1, f2}
  EvPage = 1
  EvMaxRuns = 1
  EvMaxEntries = 2
  EvMaxFiles = 1
  VeReqs = {q1}
  HbMsgs = {m1}
  HbSendMax = 1
  HgReqs = {e1, e2}
  HgEdgeMax = 1
  CrPrincipals = {p1}
  CrOrgs = {o1}
  CrSessions = {s1, s2}
  CrMonths = {jan, feb}
  CrReqs = {q1}
  CrEnds = {7}
  CrLimits = {4, 500}
  CrTop = 1
  CrMaxMetrics = 2
  CrMaxAdmin = 1
  AxWriters = {w1, w2}
  AxBatch = 2
  AxKeep = 1
  AxMaxLog = 3
  AxMaxClock = 3
INVARIANTS
  RecordsTypeOK
  CkStoreSound
  StRowHasBlob
  FlFilesListed
  CoBilledOnce
  TeUsesCounted
  MiRecordsAgree
  EvNoGap
  AccountsTruthful
