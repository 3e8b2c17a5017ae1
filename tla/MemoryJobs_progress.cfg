\* Two processes over a thread that grows, two attempts for each job, and two
\* crashes, stalls or clears.
SPECIFICATION FairSpec
CONSTANTS
    t = t
    u = u
    v = v
    w = w
    None = None
    NoJob = NoJob
    Threads = {t}
    Workers = {v, w}
    Live = {t}
    MaxSource = 2
    MaxRunning = 1
    Retries = 2
    MaxFaults = 2
PROPERTY DirtyIsConsolidated
CHECK_DEADLOCK FALSE
