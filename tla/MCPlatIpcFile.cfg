\* Transfers that overlap, while the daemon repeats, skips and disconnects and the
\* callers time out: calm ones, and every interleaving of the callers with the
\* handlers, with responses that cannot be sent and a daemon that comes back.
SPECIFICATION Spec
CONSTANTS
    c1 = c1
    c2 = c2
    a1 = a1
    a2 = a2
    NULL = NULL
    Callers <- MCCallers
    Addrs <- MCAddrs
    SegMax = 2
    Sizes <- MCSizes
    U32 = 100
    Kinds <- MCKinds
    MaxIds = 2
    Registers <- MCRegisters
    MaxSessions <- MCSessions
SYMMETRY Symmetry
INVARIANTS
    UploadMovesFile
    DownloadMovesFile
    EntryIsLive
    NoWaitForDeadDaemon
CHECK_DEADLOCK FALSE
