\* Signal 2 is SIGPIPE, signal 4 a real-time signal.
CONSTANTS
    Signals = {1, 2, 4}
    MaxSignal = 3
    NSig = 4
    SigPipe = 2
    Originals <- MCOriginals
    Sets <- MCSets
    Runners = {r1, r2}
    MaxRaised = 1
    MaxFailures = 1
    MaxUsers = 2
    Handles = {h1, h2}
    FDs = {0, 1, 2}
    MaxFiles = 4
    PathSize = 5
    UnixPaths <- MCPaths
    Sizes = {0, 1, 2, 5, 6, 7, 9}
    Modulus = 16
    ValueSizes = {1, 2}
    Capacities = {3, 4, 5, 12}
    MaxMessages = 2
    SizeT = 64
    Callees = {c1, c2}
    MaxQueued = 3
SPECIFICATION MCSpec
CHECK_DEADLOCK FALSE
INVARIANTS ProcessRestored OneOwner AddressSound IterationSound
PROPERTIES Reported TurnsSound
