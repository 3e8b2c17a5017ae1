\* Two processes on one account: markers, probes, losses, failures, and an
\* operator who deletes the account and registers it again.
CONSTANTS
    p1 = p1  p2 = p2  a1 = a1
    Processes = {p1, p2}
    Accounts = {a1}
    None = None
    MaxLeases = 2
    MaxFaults = 2
SPECIFICATION FairSpec
CHECK_DEADLOCK FALSE
INVARIANTS
    GivenUpIsFenced
    OneProcessAuthenticates
PROPERTY FenceTakesHold
