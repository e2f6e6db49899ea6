SPECIFICATION FairSpec
CONSTANTS
    u1 = u1
    u2 = u2
    b1 = b1
    b2 = b2
    r1 = r1
    r2 = r2
    r3 = r3
    stA = stA
    stB = stB
    Users = {u1, u2}
    Rentals = {r1, r2, r3}
    Bikes = {b1, b2}
    Stations = {stA, stB}
    Sessions = {s1, s2}
    Owner <- MCOwner
    BikeOf <- MCBikeOf
    Home <- MCHome
    InitialBalance <- MCBalance
    Deposit = 2
    Fee = 1
    Prices = {1}
    Spending = {3}
    Capacity <- MCCapacity
    SlotLimit <- MCSlotLimit
    Incoming <- MCIncoming
    HasSubscription = {u1}
    MaxUsages = 2
    SlotHold = 1
    Cutoff = 1
    MaxTime = 1
    BackDating = TRUE
INVARIANTS
    TypeOK
    DepositIsReserved
    BooksAgree
    UsageWithinMax
    OvershootIsBounded
PROPERTIES
    EndsOnce
    ImplementsEscrow
    EveryRentalEnds
    EverySlotEnds
CHECK_DEADLOCK FALSE
