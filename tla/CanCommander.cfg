SPECIFICATION CommanderSpec
CONSTANTS
    Modes <- TwoModes
    Interfaces <- AllInterfaces
    Buttons <- PanelButtons
    OtherCommands <- OtherMasters
    MaxFrames = 1
    MaxNotifiers = 1
INVARIANTS
    CommanderTypeOK
    DriverLifetime
    CommandsNeedConnection
    BusyIsTimed
    AckedModeIsPersisted
    ControllerMatchesMode
