SPECIFICATION Spec
CONSTANTS
    u1 = u1
    u2 = u2
    b1 = b1
    b2 = b2
    r1 = r1
    r2 = r2
    r3 = r3
    NoUser = NoUser
    NoReservation = NoReservation
    Users = {u1, u2}
    Bikes = {b1, b2}
    Owner <- MCOwner
    BikeOf <- MCBikeOf
    HoldTime = 1
    LastStart = 0
    MaxTime = 1
    Reservations = {r1, r2}
    Sessions = {s1, s2}
INVARIANTS
    HoldLocksBike
