SPECIFICATION FairSpec
CONSTANTS
    Urls = {u1, u2}
    MaxPings = 2
    BatchSize = 1
    ResetLimit = 1
    ResetBelow = 1
    HiveHwm = 1
    GossipHwm = 1
    Ephemeral = FALSE
    GossipEnabled = FALSE
    DbMayFail = FALSE
    MaxLosses = 1
INVARIANTS TypeOK NoDoubleSend UpdateFindsRowOrSent
PROPERTIES ImplementsPingQueue Drained
