\* Two brokers, two faults, one move of the target.
SPECIFICATION FairSpec
CONSTANTS
    r1 = r1
    r2 = r2
    s1 = s1
    s2 = s2
    Runs = {r1, r2}
    Sessions = {s1, s2}
    Scenarios <- MCScenarios
    MaxFaults = 2
    MaxMoves = 1
INVARIANTS
    TypeOK
    ProfilesMarked
    LiveProfileKept
    Contained
    SessionToItself
    HonestReport
    VerdictTrue
PROPERTIES
    Finishes
\* Brokers end.
CHECK_DEADLOCK FALSE
