SPECIFICATION Spec
CONSTANTS
    MaxSequence = 24
    MaxDisturbances = 1
    MayDrift = FALSE
INVARIANTS
    ReconciledVhd
