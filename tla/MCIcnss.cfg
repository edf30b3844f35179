SPECIFICATION Spec
CONSTANTS
    Devices <- MCDevices
    MaxBoots = 3
    MaxTroubles = 1
    MaxCalls <- MCCalls
INVARIANTS
    VoteHeldInRestart
    ServiceRestored
PROPERTIES
    CallbacksInOrder
CHECK_DEADLOCK FALSE
