CONSTANTS
    us = us
    de = de
    Cell = {c1, c2, c3}
    None = None
    Country = {us, de}
    AnyCountry = AnyCountry
    Warmer = Warmer
    Keys = {us, AnyCountry}
    Servers <- TwoServers
    MaxNamespaceIndex = 1
    ReservedForOnDemand = 0
    CreateMaxAttempts = 3
    MinPoolSize = 0
    PreconnectConcurrency = 1
    RotationEnabled = FALSE
    Faults = {"exit", "create", "signal"}
    MaxConns = 1
SYMMETRY CellSymmetry
SPECIFICATION Spec
INVARIANTS TypeOK IndexOwnership NothingLeaks
PROPERTIES ImplementsSlotPool
