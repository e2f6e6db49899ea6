SPECIFICATION FairSpec
CONSTANTS
    j1 = j1
    j2 = j2
    j3 = j3
    Jobs = {j1, j3}
    NoJob = NoJob
    KeyOf <- MCKeyOf
    Dispatchers = {d1, d2}
    Nobody = Nobody
    BatchSize = 2
    MaxAttempts = 2
INVARIANTS
    TypeOK
    SentIsQueued
    OnceUnlessLapsed
PROPERTIES
    EveryJobCloses
    ClosedIsFinal
CHECK_DEADLOCK FALSE
