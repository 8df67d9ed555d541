SPECIFICATION Spec
CONSTANTS
    Runs = {r1, r2, r3}
    Recoverers = {c1, c2}
    PoolSize = 2
    MaxFaults = 3
INVARIANT AddressExclusive
INVARIANT ExhaustionIsReal
PROPERTY ReleasesOwnLease
CHECK_DEADLOCK FALSE
