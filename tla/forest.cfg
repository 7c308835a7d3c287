SPECIFICATION Spec
CONSTANTS
    k1 = k1
    k2 = k2
    k3 = k3
    Keys = {k1, k2}
    KeyEpoch <- MCKeyEpoch
    Payloads = {1}
    Path <- MCPath
    Levels = 2
    Replicas = {a, b}
    LeafLevels = {1, 2}
    MaxCount = 2
INVARIANTS
    TypeOK
    HashExact
    CountCovers
    DiffExact
    FetchExact
