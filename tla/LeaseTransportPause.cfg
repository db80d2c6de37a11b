SPECIFICATION MCSpec
CONSTANTS
  k1 = k1
  k2 = k2
  r1 = r1
  r2 = r2
  Keys = {k1, k2}
  Runners = {r1}
  Owner <- OneRunner
  AdvanceTargets <- PauseAdvances
  ReleaseTargets = {"Failed"}
  Requeues = {TRUE}
  MaxIntents = 2
  MaxSettlements = 2
  MaxAuthority = 0
  MaxCrashes = 0
  None = None
  LpKeys = {"k1", "k2"}
  LpRunners = {"r1", "r2"}
  LpOps = {"acquire", "heartbeat"}
  LpNonces = 2
  LpRows = 1
  LpTtl = 1
  LpMaxTime = 2
  Parts = {"transport"}
  SelFaults <- AllFaults
  SelContents <- SomeContents
  TrFrames = 10
  TrItems = 2
  TrUpdates = 2
  TrEarly = 1
  ClFrames = 5
  ClMessages = 2
  CsAllowance = 3
  CsBudget = 3
  CsExpiry = 2
  CsHorizon = 3
  PfRecordBound = 2
INVARIANTS
  AdvanceTakesEffect
CHECK_DEADLOCK FALSE
