SPECIFICATION FairSpec
CONSTANTS
    u1 = u1  u2 = u2
    a1 = a1  a2 = a2
    m1 = m1
    q1 = q1  q2 = q2
    Requests <- TwoRequests
    Streams <- SomeStreams
    Users <- TwoUsers
    Accounts <- TwoAccounts
    Models <- OneModel
    UserOf <- Asker
    ModelOf <- Asked
    PromptOf <- Prompt
    NoModel = NoModel
    NoAccount = NoAccount
    MaxTokens = 1
    MaxDay = 2
    WindowDays = 1
    NoDate = NoDate
INVARIANTS MeteringInv EventsCharge RowsCharge NothingForgotten ReportsAddUp AccountsExactUnlessMoved
PROPERTY ResponseCloses
