\* One call at a time, prompt tasks, automatic restart.
SPECIFICATION FairSpec
CONSTANTS
    c1 = c1
    p1 = p1
    p2 = p2
    p3 = p3
    NoProcess = NoProcess
    Console = Console
    Nobody = Nobody
    Hanging = {p1}
    Garbling = {p1}
    Call = {c1}
    Process = {p1, p2, p3}
    MaxRestarts = 2
    MaxGeneration = 4
    AutoRestart = TRUE
    Overlap = FALSE
    Prompt = TRUE
INVARIANT OneServer
INVARIANT StatusIsTrue
PROPERTY StopIsNotACrash
PROPERTY StopEndsProcess
