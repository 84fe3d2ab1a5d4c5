SPECIFICATION Spec
CONSTANTS
    w1 = w1
    w2 = w2
    d1 = d1
    d2 = d2
    Workers <- MCWorkers
    Writers <- TwoWriters
    Accounts <- MCAccounts
    Currencies <- MCCurrencies
    Currency <- MCCurrency
    Floor <- MCFloor
    Overdraft <- MCOverdraft
    Postings <- MCPostings
    DirectEntries <- MCDirectEntries
    MaxRetries = 1
    MaxCalls = 1
    MaxDirect = 2
INVARIANT SealedBalance
CHECK_DEADLOCK FALSE
