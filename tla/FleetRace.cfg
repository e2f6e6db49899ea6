SPECIFICATION Spec
CONSTANTS
    b1 = b1
    b2 = b2
    rd1 = rd1
    rd2 = rd2
    w1 = w1
    q1 = q1
    q2 = q2
    stA = stA
    stB = stB
    Bikes = {b1, b2}
    Stations = {stA, stB}
    Rides = {rd1, rd2}
    Swaps = {w1}
    Requests = {q1, q2}
    Sessions = {s1, s2}
    Home <- MCHome
    RideOf <- MCRideOf
    Capacity <- MCCapacity
    MinLeft = 0
    MaxRows = 2
    Repeats = {stA}
    NoBike = NoBike
    NoRoute = NoRoute
INVARIANTS
    TypeOK
PROPERTIES
    RiddenBikeIsKept
    CarriedBikeIsKept
    FreeBikeIsKept
    CompletedIsDelivered
    EndedIsFinal
SYMMETRY FleetSymmetry
CHECK_DEADLOCK FALSE
