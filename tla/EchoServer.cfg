CONSTANTS
    Clients = {c1, c2}
    NoClient = NoClient
    Addresses = {a1, a2}
    FDLimits = {1, 2}
    MaxTyped <- MCMaxTyped
    c1 = c1
    c2 = c2
    Cap = 1
SPECIFICATION FairSpec
CHECK_DEADLOCK FALSE
INVARIANTS InOrder RemovalsAreFresh
PROPERTY ServedAndCleaned
