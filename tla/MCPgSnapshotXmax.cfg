CONSTANTS
    w1 = w1
    w2 = w2
    k1 = k1
    k2 = k2
    r1 = r1
    a1 = a1
    NoAccount = NoAccount
    Writers <- MCWriters
    Takers <- OneTaker
    Readers <- MCReaders
    Accounts <- MCAccounts
    MaxId = 2
    MaxXid = 2
    MaxCheckpoints = 1
    MaxRebuilds = 0
SPECIFICATION Spec
INVARIANT CheckpointsComplete
