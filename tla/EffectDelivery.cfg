SPECIFICATION MCSpec
CONSTANTS
    None = None
    MaxFence = 3
    MaxEpoch = 2
    MaxMoves = 4
    EgConns = {1, 2}
    EgTunnels = 1
    FxChanges = 2
    LsServers = 2
    LsConns = 2
    LsClients = {"c1", "c2"}
    LsSlots = 1
    Parts = {"delivery", "egress", "filesystem", "crowd", "restarts"}
INVARIANTS EdgeTypesOK SettledIsTrue RecoveryIsExclusive EdgeIsGuarded
PROPERTIES RecoveryEnds
CHECK_DEADLOCK FALSE
