CONSTANTS
    us = us
    de = de
    Cell = {c1, c2, c3}
    None = None
    Country = {us, de}
    AnyCountry = AnyCountry
    Warmer = Warmer
    Keys = {}
    Servers <- OneServer
    MaxNamespaceIndex = 1
    ReservedForOnDemand = 0
    CreateMaxAttempts = 3
    MinPoolSize = 1
    PreconnectConcurrency = 1
    RotationEnabled = TRUE
    Faults = {}
    MaxConns = 1
SYMMETRY CellSymmetry
SPECIFICATION Spec
INVARIANTS RotationFootprint NoLostRotationSignal
PROPERTIES ReapsOnlyUnused
CHECK_DEADLOCK FALSE
