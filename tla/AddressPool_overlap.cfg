SPECIFICATION OverlappingSpec
CONSTANTS
    Runs = {r1, r2, r3}
    Recoverers = {c1, c2}
    PoolSize = 2
    MaxFaults = 1
PROPERTY ReleasesOwnLease
CHECK_DEADLOCK FALSE
