SPECIFICATION LiveSpec
CONSTANTS
    k1 = k1
    k2 = k2
    k3 = k3
    Keys = {k1, k2, k3}
    KeyEpoch <- MCKeyEpoch
    Payloads = {1, 2}
    Handlers = {h1, h2}
    Syncers = {s1}
    Droppable = {h1}
    Batches <- MCBatches
    Deliveries <- MCLate
    ExclusiveKeys = TRUE
    LeafDepths = {15}
    EpochSecs = 1
    Grace = 1
    Times = {4}
    Sealer = Sealer
    Free = Free
INVARIANTS
    TypeOK
    InflightExact
    SealTracksForest
    SealMatchesData
    QuietExact
    RowInv
PROPERTIES
    UnsealFirst
    EventsOfLandedRows
    DiskSpec
    OthersSealed
    CallsReturn
