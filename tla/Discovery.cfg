SPECIFICATION FairSpec
CONSTANTS
    Nodes = {a, b}
    MaxRecords = 1
    MinNeighbors = 4
    MergeActors = TRUE
    Monitored = TRUE
    MaxDrops = 1
PROPERTIES BootstrapEnds Heals
