SPECIFICATION MCSpec
CONSTANTS
  Parts = {"supervisor", "attempt", "policy", "generations", "conformance",
           "dispatching", "sim"}
  Ttl = 45
  Interval = 6
  AcquireLatency = 1
  Latency = 1
  Lag = 1
  Horizon = 48
  MaxRepairRounds = 2
  Gates = 2
  PolSnapshots <- MCSnapshots
  PolHorizon = 2
  PolGenerations = 3
  PolDigests = {1, 2}
  LcGrantTtl = 2
  LcLeaseTtl = 3
  LcProbeLimit = 1
  LcHorizon = 3
  LcSwaps = 1
  DpLines = 3
  DpQueue = 1
  SimTasks = {1, 2}
  SimCalls = 3
  SimTicks = 2
  SimBudget = 1
CHECK_DEADLOCK FALSE
INVARIANTS
  RunnerTypesOK
  FreezesInTime
  SuccessIsEarned
  AdmissionIsGuarded
PROPERTIES
  LeaseComesFree
  ProviderIsContained
