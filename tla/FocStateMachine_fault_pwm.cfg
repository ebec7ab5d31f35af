SPECIFICATION Spec
CONSTANTS
    MaxRuns = 2
    TotalSteps = 2
    Blank = blank
    Modes <- TorqueOnly
    MechIdent <- TorqueBench
    FaultCodes = {overcurrent}
    Disturbances = {"fault"}
    CommandsAfterBoot = TRUE
INVARIANT FaultKeepsPwmOff
