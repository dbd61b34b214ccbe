SPECIFICATION Spec
CONSTANTS
    Nodes = {n1, n2, n3, n4}
    TopCount = 1
    Scale = 2
    MaxHistory = 1
    MaxAnnounces = 1
    MaxAging = 2
SYMMETRY NodeSymmetry
INVARIANTS TypeOK HistoryOwned FollowedConnects BetweennessRight
