SPECIFICATION Spec
CONSTANTS
    u1 = u1  u2 = u2
    a1 = a1  a2 = a2
    q1 = q1  q2 = q2  q3 = q3
    Users <- TwoUsers
    Accounts <- TwoAccounts
    Requests <- TwoRequests
    Solo <- Nobody
    AdminOps <- NoOps
    Mortal <- TwoAccounts
    NoUser = NoUser
    NoAccount = NoAccount
    MaxLogins = 1
INVARIANT OneDriverPerAccount
