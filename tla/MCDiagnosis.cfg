SPECIFICATION MCSpec
CONSTANTS
    Project = {p1, p2, p3}
    ModId = {a, b}
    MaxRounds = 2
    MaxCandidates = 2
    NoMod = NoMod
INVARIANTS
    RepairIsExact
    PlansAreClosed
    BlameIsPrecise
    AdviceIsExact
    ChoicesAreSound
CHECK_DEADLOCK FALSE
