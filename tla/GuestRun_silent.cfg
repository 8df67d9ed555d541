SPECIFICATION FairSpec
CONSTANTS
    Agents = {a1}
    MaxFaults = 1
PROPERTIES
    FailureIsPublished
CHECK_DEADLOCK FALSE
