SPECIFICATION Spec
CONSTANTS
    MaxEvents = 4
    MaxWaiters = 3
    QueueLimit = 2
    HashLimit = 2
INVARIANT NothingLost
CHECK_DEADLOCK FALSE
