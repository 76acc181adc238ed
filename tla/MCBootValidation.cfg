SPECIFICATION FairSpec
CONSTANTS
    MaxFailures = 2
    MaxCrashes = 2
INVARIANTS
    CommittedIsOriginal
PROPERTIES
    ValidationEnds
CHECK_DEADLOCK FALSE
