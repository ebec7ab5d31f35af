SPECIFICATION CMSpec
CONSTANTS
    MaxRuns = 1
    TotalSteps = 1
    Blank = blank
    Modes <- AllModes
    MechIdent <- Shipped
    FaultCodes = {overcurrent}
    Disturbances = {}
    CommandsAfterBoot = FALSE
PROPERTY EnabledKeepsMode
