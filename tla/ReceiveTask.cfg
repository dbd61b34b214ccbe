SPECIFICATION Spec
CONSTANTS
    Peers = {p1, p2}
    MaxKnown = 1
    CountModulus = 3
    MaxSeq = 3
SYMMETRY PeerSymmetry
INVARIANTS TypeOK MistrackedHasCause SomeoneIsKnown GapsReported
