SPECIFICATION FairSpec
CONSTANTS
    MaxRuns = 2
    TotalSteps = 2
    Blank = blank
    Modes <- AllModes
    MechIdent <- TestBench
    FaultCodes = {overcurrent}
    Disturbances <- AllDisturbances
    CommandsAfterBoot = FALSE
INVARIANTS
    TypeOK
    TunedToRecord
    PendingMatchesState
    OwnMeasurementsOnly
    StoredIsOneCalibration
    DriveHasAnEnd
PROPERTIES
    LeavingCutsPwm
    AnswersTellOutcome
    StaleDriveEnds
    ImplementsLifecycle
