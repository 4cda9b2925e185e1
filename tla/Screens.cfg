SPECIFICATION ScreensSpec
CONSTANTS
    Routes = {"cestino", "lista", "elenco", "conto", "scheda", "revisione", "cerca", "redazione"}
    NoDato = NoDato
    Cards = {c1, c2}
    NoCard = NoCard
    PageSize = 1
    MaxGestures = 2
    r1 = r1
    r2 = r2
    Recordings = {r1, r2}
    Guasti <- MCGuasti
    MaxTouched = 1
    t1 = t1
    t2 = t2
    Archivio <- MCArchivio
    Ambiti = {"LAVORO", "PERSONALE"}
    Devices = {d1, d2}
    NoDevice = NoDevice
    MaxCalls = 2
    Tags = {t1, t2}
    TagMax = 2
    Racconti <- MCRacconti
    Note = {"modulo", "marca"}
    Queries = {"q1", "q2"}
    Rankings <- MCRankings
    RRF_K = 60
    SEARCH_MAX_DEPTH = 3
    SearchPage = 2
    MaxGone = 1
    Testi <- MCTesti
    Dati <- MCDati
    Segnali <- MCSegnali
    MaxEdits = 1
    MaxApply = 1
CHECK_DEADLOCK FALSE
INVARIANTS
    NoOlderReadWins
    NoCardIsMissed
    QueueOutlivesTheAccount
    LoneHandKeepsItsTags
    LoneHandLosesNoStep
    PagesNeitherSkipNorRepeat
    OnlyTheConfirmedGoes
    FreshReportApplies
PROPERTIES
    QuestionOutlivesThePoll
    SectionCatchesUp
