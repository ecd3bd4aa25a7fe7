CONSTANTS
    Producers = {p1, p2, p3}
    Runner = r
    NoThread = none
    PipeCap = 6
    ReadMax = 2
    MaxAdds = 6
    CanContinueAdds = FALSE
SPECIFICATION FairSpec
INVARIANTS TypeOK NoLostWakeUp WriteNeverBlocks
PROPERTIES AddReturns CallbacksStart Implements
