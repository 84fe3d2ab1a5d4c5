SPECIFICATION FairSpec
CONSTANTS
    w1 = w1
    w2 = w2
    d1 = d1
    d2 = d2
    Workers <- MCWorkers
    Writers <- OneWriter
    Accounts <- MCAccounts
    Currencies <- MCCurrencies
    Currency <- MCCurrency
    Floor <- MCFloor
    Overdraft <- MCOverdraft
    Postings <- MCPostings
    DirectEntries <- MCDirectEntries
    MaxRetries = 1
    MaxCalls = 1
    MaxDirect = 2
INVARIANTS
    TypeOK
    CacheMatchesJournal
    FloorsHeld
    PostingsBalance
    AnswersHold
PROPERTY CallsEnd
CHECK_DEADLOCK FALSE
