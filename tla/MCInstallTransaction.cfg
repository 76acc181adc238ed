\* Two installs over crashes and up to three failing operations, played on all along.
CONSTANTS
    Txn = {t1, t2}
    Flow = {f1, f2}
    Orig = Orig
    NoTree = NoTree
    NoMeta = NoMeta
    NoTxn = NoTxn
    MaxFailures = 3
    MaxWorld = 2
SPECIFICATION Spec
 
INVARIANT NewestWorldIsKept
INVARIANT InstalledIsKept
INVARIANT PausedIsResumable
 
 
PROPERTY ImplementsSwap
CHECK_DEADLOCK FALSE
