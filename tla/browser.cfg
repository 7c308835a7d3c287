SPECIFICATION Spec
CONSTANTS
    AxisBits = 2
    Ticks = 2
    Configs <- OneConfig
    Default <- Wide
    Sessions <- MCSessions
    MaxRequests = 3
INVARIANT TypeOK
PROPERTIES
    ClientSnapshot
    Settled
