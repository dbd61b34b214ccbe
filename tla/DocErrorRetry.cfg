SPECIFICATION Spec
CONSTANTS
    Urls = {u1}
    MaxPings = 2
    BatchSize = 1
    ResetLimit = 1
    ResetBelow = 2
    HiveHwm = 1
    GossipHwm = 1
    Ephemeral = FALSE
    GossipEnabled = FALSE
    DbMayFail = FALSE
    MaxLosses = 0
PROPERTY ErrorKeepsRow
