\* Two processes over a thread that grows and one that does not; one crash, stall or clear.
SPECIFICATION Spec
CONSTANTS
    t = t
    u = u
    v = v
    w = w
    None = None
    NoJob = NoJob
    Threads = {t, u}
    Workers = {v, w}
    Live = {t}
    MaxSource = 2
    MaxRunning = 1
    Retries = 1
    MaxFaults = 1
SYMMETRY WorkerSymmetry
INVARIANTS NoLostWork BaselineIsOneRun RunningCap
CHECK_DEADLOCK FALSE
