\* One worker publishing cards while they are archived, restored and deleted.
CONSTANTS
    Recordings = {1, 2}
    w1 = w1
    w2 = w2
    Workers = {w1}
    MAX_INGESTION_ATTEMPTS = 1
    MAX_EXTRACTION_ATTEMPTS = 1
    RITARDI_RITENTATIVO <- MCBackoff
    SOGLIA_INTERROTTA = 1
    RILASCI_PER_GIRO = 1
    MaxSilence = 1
    Similar <- MCAllSimilar
    CommitMayBeLost = TRUE
    MaxLag = 1
    MaxRequests = 1
    EMPTY_TRASH_BATCH_SIZE = 1
SPECIFICATION TrashSpec
INVARIANTS
    ExtractedHasCard
PROPERTIES
    DeletedOnlyFromTrash
