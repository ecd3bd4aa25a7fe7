CONSTANTS
    Timers = {t1, t2}
    Timeouts = {0, 3, 5}
    MS = 2
    IntMax = 7
    End = end
    Forever = forever
    MaxSchedules = 3
    MaxStart = 2
    MaxTime = 8
SPECIFICATION FairSpec
INVARIANTS TypeOK PositionsValid CallbacksKept
PROPERTIES KeepsPromise TimersFire
