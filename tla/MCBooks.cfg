CONSTANTS
    k1 = k1
    r1 = r1
    c1 = c1
    o1 = o1
    jan = jan
    feb = feb
    NoMonth = NoMonth
    NoTxn = NoTxn
    Takers <- MCTakers
    Readers <- MCReaders
    Clerks <- MCClerks
    Approvers <- MCApprovers
    Months <- MCMonths
    MaxTime = 1
    MaxTxns = 2
SPECIFICATION Spec
SYMMETRY Symmetric
INVARIANTS
    TypeOK
    NoLatePostings
    NoLateDates
    SettledAnswersAreExact
    AnswersInventNothing
PROPERTY SettledPastIsFinal
