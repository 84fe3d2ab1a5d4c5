CONSTANTS
    t1 = t1
    t2 = t2
    k1 = k1
    k2 = k2
    NoThread = NoThread
    NoKey = NoKey
    NoRequest = NoRequest
    Threads <- MCThreads
    Keys <- MCKeys
    Payloads <- MCPayloads
    Accounts <- MCAccounts
    Currencies <- MCCurrencies
    Currency <- MCCurrency
    Floor <- MCFloor
    Overdraft <- MCOverdraft
    Touches <- MCTouches
    Net <- MCNet
    EntryCurrency <- MCEntryCurrency
    Requests <- AllRequests
    MaxTxns = 2
    MaxCrashes = 1
SPECIFICATION FairSpec
INVARIANTS
    KeysMatchJournal
    AnswersHold
    FloorsHeld
    CacheMatchesJournal
PROPERTIES
    KeepsItsPromise
    HistoryKept
    CallsEnd
