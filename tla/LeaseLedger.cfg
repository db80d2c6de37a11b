SPECIFICATION MCSpec
CONSTANTS
  v1 = v1  v2 = v2  p1 = p1  p2 = p2
  a1 = a1  a2 = a2  a3 = a3  r1 = r1  r2 = r2
  NoRow = NoRow
  Variants = {v1, v2}
  Packages = {p1}
  PackageOf <- Siblings
  Attempts = {a1, a2, a3}
  Runners = {r1}
  Ttls = {1}
  AdvanceTargets <- RunnerTargets
  ReleaseTargets = {"Succeeded"}
  DeltaTargets = {"Ready", "Executing"}
  FenceBumps = 0
  Horizon = 3
  StepBack = 1
  MlVariants = {1, 2}
  MlAttempts = {11, 12}
  MlTtl = 1
  MlHorizon = 2
  MlFails = {0, 5}
  MlKeys = {1, 2}
  MlQuota = 1
  MlNone = MlNone
  BgDims = {"token", "cost"}
  BgIds = {"r1", "r2"}
  BgOpening = 4
  BgUnits = {0, 1, 2}
  BgUsages = {1, 6}
  BgClasses = {"security", "integration_repair", "human_interactive"}
  BgMax = 6
  BgNone = BgNone
  DqProcs = {q1, q2}
  DqIds = {1}
  DqJobs = {"a", "b"}
  DqFaults = 1
  FiProcs = {q1, q2}
  FiCommits = {0, 1, 2}
  FiSubjects <- RacingSubjects
  FiRoots = {"r", "q"}
  FiRequired = {"r"}
  FiFaults = 1
  FiHorizon = 2
  FiWindow = 1
  Parts = {"sqlite", "leases", "submits", "graphs", "effects", "nonces",
           "vector", "scalar", "queue", "integration", "observation"}
SYMMETRY LedgerSymmetry
INVARIANTS
  TypeOK
  OneWriter
  RecordsAgree
  
PROPERTIES
  WindowIsHonoured
  
