\* Leases against every registry and health operation; no quota rows.
CONSTANTS
    codex = codex a1 = a1 p1 = p1  p2 = p2  h1 = h1  h2 = h2  a2 = a2
    Accounts = {a1}
    Holders = {h1, h2}
    Pools = {p1, p2}
    LegacyPool = p1
    NoPool = NoPool
    Limits = {}
    Compat = codex
    NoRow = NoRow
    NoRuntime = NoRuntime
    HealthStates = {"healthy", "unauthorized"}
    ProbeHold = 1
    LeaseTtl = 2
    MaxLag = 1
    MaxClock = 3
    MaxLeases = 3
    MaxSeq = 2
SYMMETRY Symmetry
SPECIFICATION Spec
INVARIANTS
    LeasedAccountIsUsable
PROPERTIES
    NoTakeover
    RevivalIsBounded
    ImplementsService
