SPECIFICATION FairSpec
CONSTANTS
    u1 = u1
    u2 = u2
    b1 = b1
    b2 = b2
    r1 = r1
    r2 = r2
    r3 = r3
    NoUser = NoUser
    NoReservation = NoReservation
    Users = {u1, u2}
    Bikes = {b1, b2}
    Owner <- MCOwner
    BikeOf <- MCBikeOf
    HoldTime = 1
    LastStart = 1
    MaxTime = 3
    Reservations = {r1}
    Sessions = {s1}
PROPERTIES
    TimeExpires
