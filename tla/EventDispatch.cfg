CONSTANTS
    f1 = f1
    f2 = f2
    f3 = f3
    FDs <- MCFDs
    OwnFD = f1
    EventSets <- MCEventSets
    Kinds = {"pollable", "unpollable"}
    None = none
    MaxRegs = 4
SPECIFICATION EdSpec
SYMMETRY Symmetry
INVARIANTS EdTypeOK DispatchSafe KernelAgrees
