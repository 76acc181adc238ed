\* Two overlapping calls, tasks delayed at will.
SPECIFICATION FairSpec
CONSTANTS
    c1 = c1
    c2 = c2
    p1 = p1
    p2 = p2
    NoProcess = NoProcess
    Console = Console
    Nobody = Nobody
    Hanging = {p1}
    Garbling = {p2}
    Call = {c1, c2}
    Process = {p1, p2}
    MaxRestarts = 1
    MaxGeneration = 1
    AutoRestart = FALSE
    Overlap = TRUE
    Prompt = FALSE
PROPERTY StopReturns
INVARIANT EveryServerIsWatched
