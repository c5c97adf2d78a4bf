SPECIFICATION Spec
CONSTANTS
    u1 = u1  u2 = u2
    a1 = a1  a2 = a2
    t1 = t1  t2 = t2  t3 = t3
    Users <- TwoUsers
    Accounts <- TwoAccounts
    Txs <- ThreeTxs
    NoUser = NoUser
    NoAccount = NoAccount
    MaxLogins = 2
SYMMETRY Symmetry
INVARIANTS PgTxInv DeadlockNeedsIdleBound
PROPERTIES TransactionsAreCalls TakenOutStaysOut RecordsPart
