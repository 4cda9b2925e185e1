SPECIFICATION FairSpec
CONSTANTS
    Tabs = {b1, b2}
    MaxCalls = 3
    MaxTokens = 7
    MaxFaults = 1
    GIRI_DI_SVUOTAMENTO = 2
CHECK_DEADLOCK FALSE
INVARIANTS
    HandlerRunsOnce
    LoneTabNeverTripsReuse
PROPERTIES
    BodyRefusalKeepsSession
    EveryCallSettles
