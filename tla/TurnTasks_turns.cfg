\* A prompt, a queued item and a shell command or review, with one abort.
CONSTANTS
    p = p  m = m  n = n  o = o
    Prompts = {p}  Mails = {}  Notes = {n}  Others = {o}
    MaxAborts = 1
    N = 3
    Triggers = {}
    Busy = {1}
SPECIFICATION Spec
CHECK_DEADLOCK FALSE
INVARIANTS
    ActiveTurnOK
    RunningInterruptible
    PlaceholderOwned
    InputAccounted
