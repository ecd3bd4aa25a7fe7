CONSTANTS
    Objects = {x}
    Blocks = {1, 2, 3}
    BlockMax = 4
    MaxCalls = 6
    Align = 2
    Sizes = {1, 2, 3}
    MaxBytes = 4
    Careful = FALSE
SPECIFICATION MCSpec
PROPERTY ActsAsQueue
CHECK_DEADLOCK FALSE
