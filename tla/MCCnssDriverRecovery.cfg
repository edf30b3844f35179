\* One fault at any moment between the load and the unload of the driver.
SPECIFICATION FairSpec
CONSTANTS
    MaxFaults = 1
    MaxCalls <- TwoCalls
    HostMayFail <- NoFailure
    Idles = FALSE
    Reboots <- NoReboot
INVARIANTS
    FaultRepaired
PROPERTIES
    CallsReturn
    RecoveryEnds
CHECK_DEADLOCK FALSE
