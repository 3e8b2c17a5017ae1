\* Quota rows and probe leases of two accounts; one pool, no health events.
CONSTANTS
    codex = codex a1 = a1  p1 = p1  p2 = p2  h1 = h1  h2 = h2  a2 = a2
    Accounts = {a1, a2}
    Holders = {h1, h2}
    Pools = {p1}
    LegacyPool = p1
    NoPool = NoPool
    Limits = {codex}
    Compat = codex
    NoRow = NoRow
    NoRuntime = NoRuntime
    HealthStates = {"healthy", "unauthorized"}
    ProbeHold = 1
    LeaseTtl = 1
    MaxLag = 1
    MaxClock = 2
    MaxLeases = 2
    MaxSeq = 0
SYMMETRY Symmetry
SPECIFICATION Spec
PROPERTIES
    ObservationsAdvance
    ImplementsService
