CONSTANTS
    Children = {c1, c2}
    Outs = {"out"}
    Statuses = {"success", "signal"}
    MaxIn = 1
    MaxOut = 1
    PipeCap = 1
SPECIFICATION FairSpec
INVARIANTS CleanedUp DrainedBeforeClose
PROPERTY ChildServed
CHECK_DEADLOCK FALSE
