\* One transaction, nothing fails: a rejection meets a resume.
SPECIFICATION Spec
CONSTANTS
    s1 = s1
    s2 = s2
    t1 = t1
    t2 = t2
    m1 = m1
    m2 = m2
    m3 = m3
    NoTxn = NoTxn
    NoServer = NoServer
    NoMod = NoMod
    NoRetry = NoRetry
    NoRecovery = NoRecovery
    Server = {s1}
    Txn = {t1}
    Owner <- Single
    Mod = {m1, m2, m3}
    Pack <- Three
    MaxBoots = 4
    MaxDepRounds = 1
    MaxRuntimeRounds = 1
    MaxActions = 2
    MaxFaults = 0
INVARIANT RejectedIsRolledBack
CHECK_DEADLOCK FALSE
