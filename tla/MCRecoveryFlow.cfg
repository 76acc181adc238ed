\* Two servers with a transaction each, smaller budgets, one fault.
SPECIFICATION FairSpec
CONSTANTS
    s1 = s1
    s2 = s2
    t1 = t1
    t2 = t2
    m1 = m1
    m2 = m2
    m3 = m3
    NoTxn = NoTxn
    NoServer = NoServer
    NoMod = NoMod
    NoRetry = NoRetry
    NoRecovery = NoRecovery
    Server = {s1, s2}
    Txn = {t1, t2}
    Owner <- OneEach
    Mod = {m1, m2}
    Pack <- BigAndSmall
    MaxBoots = 4
    MaxDepRounds = 1
    MaxRuntimeRounds = 1
    MaxActions = 2
    MaxFaults = 1
INVARIANT CycleIsBounded
 
INVARIANT AppliedIsQuarantined
PROPERTY ResumeIsApproved
PROPERTY ValidationReturns
CHECK_DEADLOCK FALSE
