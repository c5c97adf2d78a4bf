SPECIFICATION Spec
CONSTANTS
    a1 = a1
    c1 = c1  c2 = c2  c3 = c3
    l1 = l1  l2 = l2
    Accounts <- OneAccount
    Callers <- TwoCallers
    LockIds <- TwoLocks
    NoLock = NoLock
    NoEntry = NoEntry
    MaxCred = 1
    Invalidates = TRUE
PROPERTY QuarantinesDeadLogins
