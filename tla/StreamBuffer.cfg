CONSTANTS
    Objects = {x, y}
    Blocks = {1, 2, 3}
    BlockMax = 4
    MaxCalls = 6
    Align = 2
    Sizes = {1, 2}
    MaxBytes = 3
    Careful = TRUE
SYMMETRY Symmetry
SPECIFICATION MCSpec
INVARIANTS MemorySound TestsPass
PROPERTY ActsAsQueue
CHECK_DEADLOCK FALSE
