SPECIFICATION Spec
CONSTANTS
    k1 = k1
    k2 = k2
    k3 = k3
    Keys = {k1, k2, k3}
    KeyEpoch <- MCKeyEpoch
    Payloads = {1, 2}
    Handlers = {h1}
    Syncers = {}
    Droppable = {}
    Batches <- TwoRows
    Deliveries <- NoBatches
    ExclusiveKeys = TRUE
    LeafDepths = {12, 15}
    EpochSecs = 1
    Grace = 1
    Times = {4}
    Sealer = Sealer
    Free = Free
INVARIANT QuietExact
