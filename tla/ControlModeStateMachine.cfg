SPECIFICATION CMFairSpec
CONSTANTS
    MaxRuns = 1
    TotalSteps = 1
    Blank = blank
    Modes <- AllModes
    MechIdent <- Shipped
    FaultCodes = {overcurrent}
    Disturbances = {"emergencyStop", "restart"}
    CommandsAfterBoot = FALSE
INVARIANTS
    SelectTypeOK
    ActiveIsDefault
    AcknowledgedModeIsStored
PROPERTIES
    SelectIsAnswered
