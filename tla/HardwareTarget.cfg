SPECIFICATION TargetSpec
CONSTANTS
    Prescaler = 2
    MaxSamples = 7
    MaxStackTraceEntries = 2
    Room = 1
    StackCounts = {1, 3}
    MaxFaults = 2
    MaxResets = 2
    QueueSize = 1
    MaxRequests = 2
    MaxPending = 1
    Limits = {0, 1, 3}
    Capacity = 4
    Widths = {2, 5}
    SearchLimit = 2
    MaxPushed = 6
    MaxCommands = 2
    MaxFrames = 3
    MaxCanSends = 2
    MaxScenarios = 2
INVARIANTS
    TargetTypeOK
    SnapshotsAreWhole
    FaultsAreToldOnce
    OneCarrier
    DrawsTheTrigger
    ReportsOwnAnswer
    TranscriptsAgree
CHECK_DEADLOCK FALSE
