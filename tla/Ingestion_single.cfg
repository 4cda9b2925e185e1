\* One worker that may die at any point, under fair polling, three automatic
\* attempts, one retry. No symmetry, which is unsound for liveness.
CONSTANTS
    Recordings = {1, 2}
    w1 = w1
    w2 = w2
    Workers = {w1}
    MAX_INGESTION_ATTEMPTS = 3
    MAX_EXTRACTION_ATTEMPTS = 2
    RITARDI_RITENTATIVO <- MCBackoff
    SOGLIA_INTERROTTA = 1
    RILASCI_PER_GIRO = 1
    MaxSilence = 1
    Similar <- MCAllSimilar
    CommitMayBeLost = TRUE
    MaxLag = 1
    MaxRequests = 1
SPECIFICATION FairSpec
INVARIANTS
    NoTwinCards
PROPERTIES
    EverythingSettles
CHECK_DEADLOCK TRUE
