\* One sweeper, blocks across pages and a remainder.
CONSTANTS
    Keys = {1, 2, 3}
    Foreign = {3}
    s1 = s1
    Sweepers = {s1}
    BLOCCO = 2
    PAGE = 1
    GRACE = 2
    MaxUpload = 1
    MaxPass = 1
    MaxFaults = 2
SPECIFICATION AudioFairSpec
INVARIANTS
    NamedAudioExists
PROPERTIES
    OnlyOrphansVanish
    OrphansAreSwept
