SPECIFICATION FairSpec
CONSTANTS
    MaxSequence = 24
    MaxDisturbances = 1
    MayDrift = FALSE
PROPERTIES
    CleanHostFinishes
