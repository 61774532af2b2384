\* A notice and a rejection, two failed deliveries, one kill, one bad file.
CONSTANTS
    k1 = k1
    Keys <- MCKeys
    Rejection = Rejection
    Files <- MCFiles
    MaxRejects = 1
    MaxKills = 1
    MaxFailures = 2
    MaxUnreadable = 1
SPECIFICATION AlertsSpec
INVARIANTS
    AlertsTypeOK
    SeenMeansQueued
    NoticedOnce
    TriedOncePerPass
PROPERTIES
    AlertsSettle
CHECK_DEADLOCK FALSE
