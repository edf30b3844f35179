SPECIFICATION Spec
CONSTANTS
    s1 = s1
    s2 = s2
    Senders <- MCSenders
    MaxFaults = 2
SYMMETRY Symmetry
INVARIANTS
    ActiveHasLink
    SenderHasLink
    NoLostWake
    DrvModeKept
    SuspendUndone
