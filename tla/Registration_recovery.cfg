\* One terminal, two pools, and failing operations and crashes at any step.
SPECIFICATION RegSpec
CONSTANTS
    p = p
    q = q
    t = t
    None = None
    Pools = {p, q}
    Procs = {t}
    MaxLogins = 4
    MaxErrors = 2
    MaxCrashes = 2
INVARIANTS PromiseKept SuccessIsComplete NothingBlocks FaultIsOnRecord
