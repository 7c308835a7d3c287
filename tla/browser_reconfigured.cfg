SPECIFICATION Spec
CONSTANTS
    AxisBits = 2
    Ticks = 2
    Configs <- BothConfigs
    Default <- Wide
    Sessions <- Reseeded
    MaxRequests = 3
INVARIANT TrueSphere
