\* No symmetry: liveness is checked as well.
SPECIFICATION FairSpec
CONSTANTS
    p1 = p1
    p2 = p2
    e1 = e1
    e2 = e2
    failure = failure
    NoEvent = NoEvent
    PENDING = PENDING
    EINTR = EINTR
    ENOMEM = ENOMEM
    Posters <- MCPosters
    Events <- MCEvents
    Results <- MCResults
INVARIANTS
    EventHasOwner
    PmBalanced
PROPERTIES
    GiveUpOnlyUnreported
    ImplementsExecutor
    ListDrains
    CallerReturns
