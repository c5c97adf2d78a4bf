SPECIFICATION FairSpec
CONSTANTS
    u1 = u1
    a1 = a1
    p1 = p1  p2 = p2
    Users <- OneUser
    Accounts <- OneAccount
    NoAccount = NoAccount
    MaxSessions = 2
    Polls <- TwoPolls
    OperatorSets <- NeverIdle
INVARIANTS LoginInv PooledHasToken
PROPERTIES ImplementsPool AuthorizedLoginEnds
