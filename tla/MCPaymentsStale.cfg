CONSTANTS
    p1 = p1
    p2 = p2
    j1 = j1
    h1 = h1
    h2 = h2
    k1 = k1
    k2 = k2
    a1 = a1
    Payments <- OnePayment
    Jobs <- OneJob
    MaxAmount = 2
    Handlers <- TwoHandlers
    Keys <- SomeKeys
    AuthKey <- AuthKeys
    Requests <- SomeRequests
    Fronts <- None
    Most <- FourAndTwo
SPECIFICATION DeskSpec
CHECK_DEADLOCK FALSE
PROPERTY LegalTransitions
