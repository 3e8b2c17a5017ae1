\* Startups, shutdowns and failed releases in any order; every reservation ends.
CONSTANTS
    root = root  c1 = c1  c2 = c2
    Sessions = {root, c1, c2}
    Root = root
    Cancellable = {c1, c2}
    Free = Free
    Attempts = 3
    MaxFailures = 4
SPECIFICATION FairSpec
CHECK_DEADLOCK FALSE
INVARIANTS
    LifecycleOK
    AuthorityWhileInUse
    CleanStopReleases
PROPERTY ReservationsEnd
