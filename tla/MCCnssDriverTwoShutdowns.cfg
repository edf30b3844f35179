\* An unload and a recovery shut the device down at the same time.
SPECIFICATION Spec
CONSTANTS
    MaxFaults = 1
    MaxCalls <- TwoCalls
    HostMayFail <- NoFailure
    Idles = FALSE
    Reboots <- NoReboot
INVARIANTS
    MhiSequenceLegal
CHECK_DEADLOCK FALSE
