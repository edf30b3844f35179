\* Three boots, a crash or a shutdown between two, one fault, a trace.
SPECIFICATION Spec
CONSTANTS
    MaxBoots = 3
    MaxFaults = 1
    MaxSegs = 2
    Requests <- MCRequests
    MaxTraces = 2
INVARIANTS
    
    ArrivesOnce
    HostIsServed
PROPERTY HandshakeCompletes
CHECK_DEADLOCK FALSE
