SPECIFICATION Spec
CONSTANTS
    u1 = u1
    w1 = w1
    w2 = w2
    Users = {u1}
    NoWithdrawal = NoWithdrawal
    Owner <- MCOwner
    Amount <- MCAmount
    InitialBalance <- MCInitialBalance
    SumOf <- MCSumOf
    Sla = 1
    ProcessingTtl = 2
    MaxTime = 2
    Withdrawals = {w1, w2}
    Workers = {k1}
INVARIANTS
    ReservedIsActiveHolds
    SettlementNeverBlocked
PROPERTIES
    ImplementsEscrow
CHECK_DEADLOCK FALSE
