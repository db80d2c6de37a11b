SPECIFICATION MCSpec
CONSTANTS
  Mutations = {m1, m2}
  Requests = {r1}
  Readbacks = {d1}
  Grants = {g1, g2}
  LeaseTtl = 2
  PermitTtl = 1
  GrantTtl = 3
  MaxFence = 2
  MaxEpoch = 2
  MaxPermits = 2
  Horizon = 3
  NoRow = NoRow
  Servers = {s1}
  Keepers = {k1, k2}
  Names = {n1, n2}
  MaxCommits = 2
  None = None
  Callers = {c1, c2}
  MaxCounter = 1
  NoRecord = NoRecord
  CpFences = {1, 2}
  CpChanges = {c1}
  CpParents = {"known", "foreign"}
  CpTtls = {1, 3}
  CpLeaseTtl = 2
  CpHorizon = 2
  CpSources = 2
  CpRevisions = 1
  CpCrashes = 1
  CpSessions = {k1, k2}
  CpNone = CpNone
  SoOpeners = {"a", "b"}
  SoInodes = 2
  Halves = {"mutations", "grants", "captures", "restores", "openers", "high water", "patches", "candidates"}
SYMMETRY MCSymmetry
INVARIANTS AuthorityTypesOK UsesAreBound RecordsAreSafe
PROPERTIES OutcomeIsFinal CandidateHolds
CHECK_DEADLOCK FALSE
