SPECIFICATION FairSpec
CONSTANTS
    c1 = c1
    c2 = c2
    Clients = {c1, c2}
    Regions <- MCRegions
    Guarded = {c1}
    Readers = {c1}
    TapSize = 2
    Buffer = 1
    StreamSize = 1
    MaxEvents = 4
INVARIANTS
    TypeOK
    InOrder
    ListenersKept
PROPERTIES
    AcceptedKept
    ReadersServed
    GoneCleared
    TapDrained
CHECK_DEADLOCK FALSE
