SPECIFICATION FairSpec
CONSTANTS
    AxisBits = 2
    Scale = 4
    EpochSecs = 2
    Ticks = 2
    Coordinates <- MCCoordinates
    Seconds = {0, 1, 2, 3, 4, 5}
    Queries <- MCQueries
    Items <- MCItems
    Batches <- MCBatches
    ChannelSize = 1
INVARIANTS
    TypeOK
    Chronological
    WindowCovered
    NoneTwice
    FanOut
    EpochCovered
PROPERTIES
    SnapshotSpec
    CallsEnd
