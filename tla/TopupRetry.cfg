SPECIFICATION Spec
CONSTANTS
    u1 = u1
    a1 = a1
    a2 = a2
    Users = {u1}
    NoAttempt = NoAttempt
    Owner <- MCOwner
    Amount <- MCAmount
    Kind <- MCKind
    InitialBalance <- MCInitialBalance
    SumOf <- MCSumOf
    Attempts = {a2}
    Limit = 1
INVARIANTS
    CapturedNotFailed
