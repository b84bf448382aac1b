CONSTANTS
    us = us
    de = de
    Cell = {c1, c2}
    None = None
    Country = {us, de}
    AnyCountry = AnyCountry
    Warmer = Warmer
    Keys = {}
    Servers <- OneServer
    MaxNamespaceIndex = 1
    ReservedForOnDemand = 0
    CreateMaxAttempts = 3
    MinPoolSize = 1
    PreconnectConcurrency = 1
    RotationEnabled = TRUE
    Faults = {"create", "signal"}
    MaxConns = 0
SPECIFICATION ShutdownFairSpec
INVARIANTS IndexOwnership SingleOwner NoPublishAfterShutdown NsExclusive
PROPERTIES ImplementsSlotPool ShutdownTerminates
