SPECIFICATION FairSpec
CONSTANTS
    g1 = g1
    g2 = g2
    Groups = {g1, g2}
    MaxPings = 2
    MaxAnnounces = 1
    MaxFailures = 3
    MaxRequests = 1
    ChunkSize = 1
    ChannelCap = 1
    MaxRetryQueue = 2
    ReconnectAfter = 2
INVARIANTS TypeOK Conserved QueuesInOrder
PROPERTIES AnsweredWasOffered LossHasReason ChannelServed
CHECK_DEADLOCK FALSE
