\* No symmetry: liveness is checked as well.
SPECIFICATION Spec
CONSTANTS
    u1 = u1
    u2 = u2
    u3 = u3
    Users <- MCUsers
    MaxRequests = 3
    MaxFaults = 1
    MaxCrashes = 1
INVARIANTS
    CountIsTrue
    AwakeJustForUsers
    SharesBalance
PROPERTY RequestIsGranted
\* The bound on requests ends every behaviour.
CHECK_DEADLOCK FALSE
