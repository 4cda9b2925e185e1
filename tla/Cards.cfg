\* Two requests that overlap, and a third one that finds what they left.
CONSTANTS
    x1 = x1
    x2 = x2
    x3 = x3
    ingestion = ingestion
    Requests = {x1, x2, x3}
    Ingestion = ingestion
    Days = {1, 2}
    Patches <- MCPatches
SYMMETRY MCRequests
SPECIFICATION CardsSpec
CHECK_DEADLOCK FALSE
INVARIANTS
    CountsItsExecutions
    StepsOfOneHand
    VerifiedByAnExecution
PROPERTIES
    LoneEditHeals
    LoneExecutionKeepsFreshness
