SPECIFICATION FairSpec
CONSTANTS
    Agents = {a1, a2}
    MaxFaults = 2
INVARIANTS
    ExecutedOnce
    ExecutionSettled
    AcceptedIsTrue
    CompletedBacked
PROPERTIES
    ExecutionEnds
    ShutdownIsConclusive
CHECK_DEADLOCK FALSE
