SPECIFICATION LiveSpec
CONSTANTS
    k1 = k1
    k2 = k2
    k3 = k3
    a = a
    b = b
    c = c
    Keys = {k1, k2}
    KeyEpoch <- MCKeyEpoch
    Payloads = {1, 2}
    Path <- MCPath
    Levels = 3
    Nodes = {a, b, c}
    PeersOf <- Source
    LeafLevel <- ShallowB
    Writes <- MCWrites
    Broken <- FirstOfC
    ExclusiveKeys = TRUE
INVARIANTS
    TypeOK
    RoundCovers
PROPERTIES
    RoundComplete
    MeshSpec
    EventualConsistency
    RoundsQuiet
