SPECIFICATION FairSpec
CONSTANTS
    u1 = u1
    w1 = w1
    w2 = w2
    Users = {u1}
    NoWithdrawal = NoWithdrawal
    Owner <- MCOwner
    Amount <- MCAmount
    InitialBalance <- MCInitialBalance
    SumOf <- MCSumOf
    Sla = 1
    ProcessingTtl = 2
    MaxTime = 3
    Withdrawals = {w1}
    Workers = {k1, k2}
INVARIANTS
    TypeOK
    LedgerExact
    DebitedOnlyIfPaid
    LockExclusion
PROPERTIES
    ProcessingCloses
CHECK_DEADLOCK FALSE
