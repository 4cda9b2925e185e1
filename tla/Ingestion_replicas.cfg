\* Two replicas of the worker on two recordings that resemble each other.
CONSTANTS
    Recordings = {1, 2}
    w1 = w1
    w2 = w2
    Workers = {w1, w2}
    MAX_INGESTION_ATTEMPTS = 2
    MAX_EXTRACTION_ATTEMPTS = 2
    RITARDI_RITENTATIVO <- MCBackoff
    SOGLIA_INTERROTTA = 1
    RILASCI_PER_GIRO = 1
    MaxSilence = 1
    Similar <- MCAllSimilar
    CommitMayBeLost = FALSE
    MaxLag = 1
    MaxRequests = 1
SYMMETRY MCReplicas
SPECIFICATION Spec
INVARIANTS
    OneWorkerPerRow
    OneCardPerRecording
PROPERTIES
    RecoveryIsNotTheft
    ImplementsLifecycle
CHECK_DEADLOCK TRUE
