\* Two restores of two files of one mod, two failures.
SPECIFICATION FairSpec
CONSTANTS
    c1 = c1
    c2 = c2
    old = old
    new = new
    a = a
    NoCall = NoCall
    NoJar = NoJar
    Call = {c1, c2}
    Jar = {old, new}
    Id = {a}
    Provides <- Declares
    Pack = {new}
    MaxFailures = 2
INVARIANT OneProvider
PROPERTY RestoredStays
PROPERTY FailureLeavesNothing
