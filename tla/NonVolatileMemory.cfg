SPECIFICATION FairSpec
CONSTANTS
    MaxRuns = 2
    Blank = blank
    Torn = torn
    Calibrations <- TwoCalibrations
    Configs = {config}
    DefaultConfig = config
    Faulty = {"write", "read"}
    MaxPending = 3
INVARIANT TypeOK
PROPERTIES
    AnswersMatchRegion
    ValidIsCurrent
    OperationsEnd
    ImplementsStore
