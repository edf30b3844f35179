\* Every way the host driver may use the device, with callbacks that fail and a
\* reboot, and up to two faults.
SPECIFICATION Spec
CONSTANTS
    MaxFaults = 2
    MaxCalls <- FewerWithFaults
    HostMayFail <- OnceFailed
    Idles = TRUE
    Reboots <- RebootsIfSound
INVARIANTS
    NoStuckTransition
    OpsLockReleased
    MhiLegalWithoutFault
    NothingLeftBehind
PROPERTIES
    HostCallbacksInOrder
CHECK_DEADLOCK FALSE
