CONSTANTS
    s1 = s1
    s2 = s2
    d1 = d1
    usd = usd
    alice = alice
    sales = sales
    f1 = f1
    f2 = f2
    Stores <- TwoStores
    QuoteDays <- OneDay
    Currencies <- OneCurrency
    CurrencyLists <- OneList
    RateValues <- TwoRates
    Customers <- TwoAccounts
    KindOf <- KindsOfAccounts
    FxJobs <- TwoJobs
    FxRates <- SomeRates
    MaxAmount = 2
    MaxPostings = 4
    Originals <- OneOriginal
    MaxAge = 31
    Days <- DaysAroundTheClocks
    Parts = {"rates", "fx", "schemes", "split"}
    MaxLost = 1
    Heads = 3
    MaxWeight = 3
    MaxSplit = 5
SPECIFICATION TreasurySpec
CHECK_DEADLOCK FALSE
SYMMETRY Symmetric
INVARIANTS
    TypesOK
    GivenRatesStand
    FxBooksMatch
    AdjustmentIsRateMovement
    WithinScheme
    SplitIsExact
PROPERTY RatesImmutable
