SPECIFICATION Spec
CONSTANTS
    Messages = {m1, m2, m3}
    Accepted = {m1, m2}
    MaxTime = 2
    Window = 1
    MaxServed = 2
SYMMETRY AcceptedSymmetry
INVARIANTS TypeOK CaughtUp StoredWasEmitted
