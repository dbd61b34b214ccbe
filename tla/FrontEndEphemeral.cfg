SPECIFICATION Spec
CONSTANTS
    Urls = {u1, u2}
    MaxPings = 2
    BatchSize = 2
    ResetLimit = 1
    ResetBelow = 1
    HiveHwm = 1
    GossipHwm = 1
    Ephemeral = TRUE
    GossipEnabled = TRUE
    DbMayFail = TRUE
    MaxLosses = 1
SYMMETRY UrlSymmetry
INVARIANT EphemeralForgets
PROPERTY RemovedOnlyAfterSend
