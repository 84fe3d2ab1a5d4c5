CONSTANTS
    p1 = p1
    p2 = p2
    j1 = j1
    h1 = h1
    h2 = h2
    k1 = k1
    k2 = k2
    a1 = a1
    Payments <- TwoPayments
    Jobs <- OneJob
    MaxAmount = 4
    Handlers <- TwoHandlers
    Keys <- SomeKeys
    AuthKey <- AuthKeys
    Requests <- SomeRequests
    Fronts <- NoneOrOne
    Most <- FourAndTwo
SPECIFICATION DeskSpec
CHECK_DEADLOCK FALSE
SYMMETRY Symmetric
INVARIANTS
    TypesOK
    HoldsMatch
    MoneyMatches
    RefundsCanPost
    OnlyRefundsStrandHolds
    ServedOnce
    AnswersTrue
PROPERTY OnlyStaleJobsLeaveTheTable
