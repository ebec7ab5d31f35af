SPECIFICATION Spec
CONSTANTS
    MaxRuns = 2
    TotalSteps = 2
    Blank = blank
    Modes <- TorqueOnly
    MechIdent <- TorqueBench
    FaultCodes = {overcurrent}
    Disturbances = {"emergencyStop"}
    CommandsAfterBoot = TRUE
PROPERTY SavedRecordIsApplied
