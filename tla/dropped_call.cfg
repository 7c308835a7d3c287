SPECIFICATION LiveSpec
CONSTANTS
    k1 = k1
    k2 = k2
    k3 = k3
    Keys = {k1}
    KeyEpoch <- MCKeyEpoch
    Payloads = {1, 2}
    Handlers = {h1}
    Syncers = {}
    Droppable = {h1}
    Batches <- OneRow
    Deliveries <- NoBatches
    ExclusiveKeys = TRUE
    LeafDepths = {15}
    EpochSecs = 1
    Grace = 1
    Times = {4}
    Sealer = Sealer
    Free = Free
PROPERTY EventuallySealed
