SPECIFICATION Spec
CONSTANTS
    u1 = u1
    u2 = u2
    b1 = b1
    b2 = b2
    r1 = r1
    r2 = r2
    r3 = r3
    NoUser = NoUser
    NoReservation = NoReservation
    Users = {u1, u2}
    Bikes = {b1, b2}
    Owner <- MCOwner
    BikeOf <- MCBikeOf
    HoldTime = 1
    LastStart = 2
    MaxTime = 2
    Reservations = {r1, r2, r3}
    Sessions = {s1, s2}
SYMMETRY SessionSymmetry
INVARIANTS
    TypeOK
    BookedIsRented
    NoStrandedBike
    RefundedNotRented
PROPERTIES
    HoldLostOnlyToStale
    EndedIsFinal
    CapHoldsAtCommit
