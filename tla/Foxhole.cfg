\* Two reports, an analysis and a clean-up on one root.
SPECIFICATION Spec
CONSTANTS
    Writers = {"w1", "w2", "analyst"}
    Cleaners = {"c1"}
    Directories = {"reports", "analysis"}
    MaxFiles = 2
    MaxBytes = 3
    MaxPairs = 3
    MaxEvidence = 3
    MaxInputFiles = 14
    MaxInputBytes = 20
    MaxAssociations = 8
    MassFiles = 4
    MassWindow = 1
    MaxChecks = 3
    MaxMatches = 2
    MaxCorrelations = 2
    MaxResultBytes = 2
    MaxScannerBytes = 6
    MaxReferences = 4
    MaxLookups = 2
    Scenarios <- MCScenarios
INVARIANTS
    CeilingHolds
    ReportsKept
    BackendChosen
    Attribution
    LinksOneLife
    ScoredOnce
    VerdictHonest
    EvidenceTraced
    ReputationHonest
\* Commands end.
CHECK_DEADLOCK FALSE
