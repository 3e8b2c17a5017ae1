\* Mail that triggers a turn and a prompt, with one abort: every turn ends, and
\* no input is delivered twice.
CONSTANTS
    p = p  m = m  n = n  o = o
    Prompts = {p}  Mails = {m}  Notes = {}  Others = {}
    MaxAborts = 1
    N = 3
    Triggers = {m}
    Busy = {1}
SPECIFICATION Spec
CHECK_DEADLOCK FALSE
INVARIANT
    InputOnce
PROPERTIES
    TurnsEnd
    TriggerMailTaken
