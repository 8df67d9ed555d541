SPECIFICATION Spec
CONSTANTS
    MaxSequence = 24
    MaxDisturbances = 3
    MayDrift = TRUE
PROPERTIES
    AcceptedMeansContained
