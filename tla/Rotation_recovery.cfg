\* A remote compaction meets the usage limit of a ChatGPT account, the provider
\* resets the account early, and turns keep coming.
SPECIFICATION FairSpec
CONSTANTS
    a = a
    b = b
    None = None
    Accounts = {b}
    Family <- MCFamily
    Preferred = None
    MinInterval = 1
    ProbeHold = 1
    MaxOther = 1
    MaxFaults = 0
PROPERTY RecoveryIsFound
