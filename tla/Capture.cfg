SPECIFICATION Spec
CONSTANTS
    Pages = {p1, p2}
    Recordings = {r1}
    NoRecording = none
    MaxPieces = 2
    MAX_ATTEMPTS = 2
    MaxFaults = 1
    MaxOpens = 2
    WritesAreQuick = TRUE
SYMMETRY DeviceSymmetry
CHECK_DEADLOCK FALSE
INVARIANTS
    DraftedSecondsSurvive
    DiscardIsTheLastWrite
    CalmDeviceSendsAllOnce
