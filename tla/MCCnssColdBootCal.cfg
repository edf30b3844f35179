\* Calibration, registration, timeout and reboot in any order, with two faults.
SPECIFICATION Spec
CONSTANTS
    MaxFaults = 2
    MaxWrites = 2
    MaxServers = 2
    MaxRetries = 2
INVARIANTS
    CalibratesAlone
    CalibrationCleansUp
PROPERTIES
    CalibratedOnce
CHECK_DEADLOCK FALSE
