SPECIFICATION FairSpec
CONSTANTS
    MaxSequence = 24
    MaxDisturbances = 3
    MayDrift = FALSE
INVARIANTS
    TypeOK
    ContainedWhileRunning
    NoSharedDataDisk
    OwnershipJournaled
    SuccessIsHonest
    FailureIsComplete
PROPERTIES
    TeardownBehindVm
    JournalAdvances
    EventuallyReleased
    RefinesDisposableVm
