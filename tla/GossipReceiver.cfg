SPECIFICATION FairSpec
CONSTANTS
    MaxEvents = 4
    MaxWaiters = 3
    QueueLimit = 2
    HashLimit = 2
INVARIANTS TypeOK QueueEmptyWhileParked InOrder HashesInOrder
PROPERTIES ImplementsEventFeed ClosedIsNoticed
CHECK_DEADLOCK FALSE
