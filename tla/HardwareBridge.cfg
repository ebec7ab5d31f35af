SPECIFICATION BridgeSpec
CONSTANTS
    IntMax = 7
    NumRows = 3
    NumCols = 2
    MaxHistory = 1
    MaxDrawn = 5
    MaxHeard = 4
    MaxConnects = 2
    MaxSends = 3
    MaxEvents = 2
    MaxConns = 2
    MaxItems = 2
    Frames = 2
    MaxTraffic = 2
INVARIANTS
    BridgeTypeOK
    SequencesStandAlone
    WrapIsFresh
    ShownAsDrawn
    SendsStayOnTheirConnection
    CompletionsAreKept
    FramesArriveInOrder
CHECK_DEADLOCK FALSE
