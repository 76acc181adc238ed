SPECIFICATION Spec
CONSTANTS
    Modrinth <- MCModrinth
    CurseForge <- MCCurseForge
    Own = "own"
    NewestVersion <- MCNewest
    FileNameOf <- MCFileNameOf
    Names <- MCNames
    Requires <- MCRequires
    ClientOnly = {"jei"}
    Unhashed = {"lib"}
    MaxCalls = 3
    MaxEdits = 1
    MaxCrashes = 1
INVARIANT FailedUpdateKeepsMod
CHECK_DEADLOCK FALSE
