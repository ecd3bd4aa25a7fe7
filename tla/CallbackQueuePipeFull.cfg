CONSTANTS
    Producers = {p1, p2}
    Runner = r
    NoThread = none
    PipeCap = 2
    ReadMax = 2
    MaxAdds = 4
    CanContinueAdds = FALSE
SPECIFICATION FairSpec
PROPERTY AddReturns
CHECK_DEADLOCK FALSE
