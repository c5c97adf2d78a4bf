SPECIFICATION FairSpec
CONSTANTS
    a1 = a1  a2 = a2
    p1 = p1  p2 = p2
    Accounts <- TwoAccounts
    Replicas <- TwoReplicas
    NoAccount = NoAccount
    Limit = 1
    LockTTL = 2
    NoLock = NoLock
    MaxCheck = 2
    MaxRelogins = 1
INVARIANT RefresherInv
PROPERTY DeadIsFound
