\* Every order of reports, attempts and other processes' steps: no lasting damage.
SPECIFICATION FairSpec
CONSTANTS
    a = a
    b = b
    None = None
    Accounts = {a, b}
    Family <- MCFamily
    Preferred = a
    MinInterval = 1
    ProbeHold = 1
    MaxOther = 1
    MaxFaults = 1
INVARIANT NothingLeftBehind
PROPERTIES FailedAccountAvoided SwitchesAreDamped AttemptsEnd SelectableIsServed
