CONSTANTS
    Timers = {t1}
    Timeouts = {0, 2, 4}
    MS = 2
    IntMax = 7
    End = end
    Forever = forever
    MaxSchedules = 2
    MaxStart = 0
    MaxTime = 5
    FDs = {f1, f2}
    TimerFd = timerfd
    MaxCallbacks = 1
    MaxEvents = 3
SPECIFICATION AsyncSpec
CHECK_DEADLOCK FALSE
INVARIANT StepSound
PROPERTIES KeepsPromise SeenWorkRuns
