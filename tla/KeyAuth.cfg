SPECIFICATION Spec
CONSTANTS
    k1 = k1  k2 = k2
    u1 = u1
    r1 = r1  r2 = r2
    o1 = o1  o2 = o2
    Keys <- TwoKeys
    Users <- OneUser
    Requests <- TwoRequests
    Rotations <- TwoRotations
    NoKey = NoKey
    NoUser = NoUser
    NoEntry = NoEntry
    TTL = 2
    MaxWait = 1
SYMMETRY KeySymmetry
INVARIANTS KeyInv NeverBothActive
PROPERTY RevocationTakesHold
