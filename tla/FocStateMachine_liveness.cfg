SPECIFICATION FairSpec
CONSTANTS
    MaxRuns = 2
    TotalSteps = 2
    Blank = blank
    Modes <- AllModes
    MechIdent <- Shipped
    FaultCodes = {overcurrent}
    Disturbances = {}
    CommandsAfterBoot = TRUE
PROPERTIES CalibrationEnds
