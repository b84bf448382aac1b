CONSTANTS
    us = us
    de = de
    Cell = {c1, c2}
    None = None
    Country = {us, de}
    AnyCountry = AnyCountry
    Warmer = Warmer
    Keys = {us}
    Servers <- TwoUsServers
    MaxNamespaceIndex = 1
    ReservedForOnDemand = 0
    CreateMaxAttempts = 3
    MinPoolSize = 0
    PreconnectConcurrency = 1
    RotationEnabled = FALSE
    Faults = {}
    MaxConns = 0
SYMMETRY CellSymmetry
SPECIFICATION Spec
INVARIANTS PoolNamespacesIntact
CHECK_DEADLOCK FALSE
