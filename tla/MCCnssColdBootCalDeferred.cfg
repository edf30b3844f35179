\* A host driver that is deferred until the calibration is over.
SPECIFICATION Spec
CONSTANTS
    MaxFaults = 0
    MaxWrites = 1
    MaxServers = 0
    MaxRetries = 1
PROPERTIES
    DeferredDriverRegisters
CHECK_DEADLOCK FALSE
