SPECIFICATION Spec
CONSTANTS
  Ttl = 5
  Interval = 2
  AcquireLatency = 0
  Latency = 2
  Lag = 0
  Horizon = 12
CHECK_DEADLOCK FALSE
INVARIANTS
  DeadlineBeforeExpiry
