\* Three jobs with three attempts each, and faults of the network.
CONSTANTS
    j1 = j1   j2 = j2   j3 = j3   Other = Other
    Jobs <- ThreeJobs
    Attempts = 3
    MaxCommits = 4
    MaxFaults = 1
SYMMETRY AnyOrder
SPECIFICATION RetrySpec
INVARIANTS
    FailsForCause
    LandedOnce
CHECK_DEADLOCK FALSE
