SPECIFICATION FairSpec
CONSTANTS
    a = a
    b = b
    c = c
    d = d
    Nodes = {a, b, c, d}
    Writers = {b}
    AutoTrust = {b}
    Configured <- Operators
    Reliance <- Chains
    MaxCrashes = 2
INVARIANTS TypeOK ChainOfTrust OnlyVouchedPass
PROPERTIES ForgetsOnlyUnsaved TrustSpreads
